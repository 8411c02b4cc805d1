----------------------------- MODULE ScriptFetch -----------------------------
(***************************************************************************)
(* fetch in an extension's script (engine/inject/fetch).                   *)
(*                                                                         *)
(* fetch and the pulls of the body's stream start goroutines (opener,      *)
(* reader) whose results come back as jobs of the event loop.  The         *)
(* registry knows the operations under way, so that the script can abort   *)
(* one and Engine.Close can end them all.                                  *)
(*                                                                         *)
(* A job of the loop is one step, and so are the few instructions that end *)
(* an operation (operation.close).  A body is a number of chunks, none of  *)
(* them empty; the request's own body, its redirects and cookies are left  *)
(* out.  The script reads to the end, aborts or cancels.                   *)
(***************************************************************************)
EXTENDS Integers

CONSTANTS
  Fetch,    \* the calls of fetch
  Setups    \* [chunks, together: the last chunk comes with the end, faults, aborts]

VARIABLES
  setup,
  loop,      \* "running" or "terminated"
  closer,    \* where Engine.Close is
  registry,  \* [closed, cancelled: its context, taken: what CloseAll has still to close]
  fetch,     \* the script: [pc, got, end, aborted: by the script]
  opener,    \* the goroutine of __gopeed_fetch_open
  op,        \* operation: [known: in the registry, cancelled, closed, body, pending, left]
  reader     \* the goroutine of __gopeed_fetch_read

vars == <<setup, loop, closer, registry, fetch, opener, op, reader>>

TypeOK ==
  /\ setup \in [chunks : Nat, together : BOOLEAN, faults : Nat, aborts : Nat]
  /\ loop \in {"running", "terminated"} /\ closer \in {"none", "cancel", "close", "end", "done"}
  /\ registry \in [closed : BOOLEAN, cancelled : BOOLEAN, taken : SUBSET Fetch]
  /\ fetch \in [Fetch -> [pc : {"idle", "opening", "ready", "reading", "ended"},
                          got : Nat, end : {"none", "eof", "error", "cancelled"},
                          aborted : BOOLEAN]]
  /\ opener \in [Fetch -> {"idle", "add", "request", "body", "ok", "err"}]
  /\ op \in [Fetch -> [known : BOOLEAN, cancelled : BOOLEAN, closed : BOOLEAN,
                       body : {"none", "open", "shut"}, pending : {"none", "eof", "error"},
                       left : Nat]]
  /\ reader \in [Fetch -> {"idle", "get", "read", "wire", "chunk", "eof", "error"}]

Spend(what) == setup[what] > 0 /\ setup' = [setup EXCEPT ![what] = @ - 1]

Init ==
  /\ setup \in Setups
  /\ loop = "running" /\ closer = "none"
  /\ registry = [closed |-> FALSE, cancelled |-> FALSE, taken |-> {}]
  /\ fetch = [f \in Fetch |-> [pc |-> "idle", got |-> 0, end |-> "none", aborted |-> FALSE]]
  /\ opener = [f \in Fetch |-> "idle"]
  /\ op = [f \in Fetch |-> [known |-> FALSE, cancelled |-> FALSE, closed |-> FALSE,
                            body |-> "none", pending |-> "none", left |-> setup.chunks]]
  /\ reader = [f \in Fetch |-> "idle"]

-----------------------------------------------------------------------------

\* operation.close, once.
Closed(o) == [o EXCEPT !.known = FALSE, !.cancelled = TRUE, !.closed = TRUE,
                       !.body = IF @ = "open" THEN "shut" ELSE @]

\* registry.Close, also of an operation it does not know.
RegistryClose(f) == op' = IF op[f].known THEN [op EXCEPT ![f] = Closed(@)] ELSE op


\* fetch, without a signal that is aborted already.
Begin(f) ==
  /\ fetch[f].pc = "idle" /\ loop = "running"
  /\ fetch' = [fetch EXCEPT ![f].pc = "opening"]
  /\ opener' = [opener EXCEPT ![f] = "add"]
  /\ UNCHANGED <<setup, op, reader>>

\* The abort event of its signal, once; the stream is not told.
Abort(f) ==
  /\ fetch[f].pc \in {"opening", "ready", "reading"} /\ ~fetch[f].aborted /\ loop = "running"
  /\ Spend("aborts")
  /\ fetch' = [fetch EXCEPT ![f].aborted = TRUE]
  /\ RegistryClose(f)
  /\ UNCHANGED <<opener, reader>>

\* cancel of the body's stream.
Cancel(f) ==
  /\ fetch[f].pc \in {"ready", "reading"} /\ loop = "running"
  /\ Spend("aborts")
  /\ fetch' = [fetch EXCEPT ![f].pc = "ended", ![f].end = "cancelled"]
  /\ RegistryClose(f)
  /\ UNCHANGED <<opener, reader>>

Gone(f) == op[f].cancelled \/ registry.cancelled

\* Mutant: a body that comes for a closed operation is kept.
SetsAlways(o) == [o EXCEPT !.body = "open"]

setBody(o) == [o EXCEPT !.body = IF o.closed THEN "shut" ELSE "open"]

\* registry.Open: a failure closes the operation.
Open(f) ==
  /\ \/ /\ opener[f] = "add"
        /\ opener' = [opener EXCEPT ![f] = IF registry.closed THEN "err" ELSE "request"]
        /\ op' = [op EXCEPT ![f].known = ~registry.closed]
     \/ /\ opener[f] = "request" /\ Gone(f)
        /\ opener' = [opener EXCEPT ![f] = "err"]
        /\ RegistryClose(f)
     \/ /\ opener[f] = "body"
        /\ op' = [op EXCEPT ![f] = setBody(@)]
        /\ opener' = [opener EXCEPT ![f] = IF op'[f].body = "open" THEN "ok" ELSE "err"]
  /\ UNCHANGED <<setup, fetch, reader>>

\* The server answers, or not.
Answer(f) ==
  /\ opener[f] = "request" /\ ~Gone(f)
  /\ \/ opener' = [opener EXCEPT ![f] = "body"] /\ UNCHANGED <<setup, op>>
     \/ /\ Spend("faults")
        /\ opener' = [opener EXCEPT ![f] = "err"]
        /\ RegistryClose(f)
  /\ UNCHANGED <<fetch, reader>>

\* The result of __gopeed_fetch_open on the loop; without one the operation is closed.
OpenSettles(f) ==
  /\ opener[f] \in {"ok", "err"}
  /\ opener' = [opener EXCEPT ![f] = "idle"]
  /\ IF loop = "running"
     THEN /\ fetch' = [fetch EXCEPT ![f].pc = IF opener[f] = "ok" THEN "ready" ELSE "ended",
                                    ![f].end = IF opener[f] = "ok" THEN @ ELSE "error"]
          /\ UNCHANGED op
     ELSE /\ (IF opener[f] = "ok" THEN RegistryClose(f) ELSE UNCHANGED op)
          /\ UNCHANGED fetch
  /\ UNCHANGED <<setup, reader>>

-----------------------------------------------------------------------------

\* pull of the body's stream.
Pull(f) ==
  /\ fetch[f].pc = "ready" /\ reader[f] = "idle" /\ loop = "running"
  /\ fetch' = [fetch EXCEPT ![f].pc = "reading"]
  /\ reader' = [reader EXCEPT ![f] = "get"]
  /\ UNCHANGED <<setup, opener, op>>

\* A read that is over; a done or failed one closes the operation (registry.Read).
Returns(f, o, what) ==
  /\ reader' = [reader EXCEPT ![f] = what]
  /\ op' = [op EXCEPT ![f] = IF what \in {"eof", "error"} /\ o.known THEN Closed(o) ELSE o]

\* registry.Read and operation.read up to the call of the body, and without it.
Read(f) ==
  /\ \/ /\ reader[f] = "get"
        /\ reader' = [reader EXCEPT ![f] = IF op[f].known THEN "read" ELSE "eof"]
        /\ UNCHANGED op
     \/ /\ reader[f] = "read"
        /\ Returns(f, [op[f] EXCEPT !.pending = "none"],
                   IF op[f].pending # "none" THEN op[f].pending
                   ELSE IF op[f].closed THEN "eof" ELSE "wire")
     \/ /\ reader[f] = "wire" /\ (Gone(f) \/ op[f].body = "shut")
        /\ Returns(f, op[f], "error")
  /\ UNCHANGED <<setup, fetch, opener>>

\* A chunk and what came with it.
GivesChunk(f, end) == Returns(f, [op[f] EXCEPT !.left = @ - 1, !.pending = end], "chunk")

\* body.Read: a chunk, which may come with the end or an error; the end; an error.
Wire(f) ==
  /\ reader[f] = "wire" /\ ~Gone(f) /\ op[f].body = "open"
  /\ \/ /\ op[f].left > 0 /\ UNCHANGED setup
        /\ GivesChunk(f, IF setup.together /\ op[f].left = 1 THEN "eof" ELSE "none")
     \/ op[f].left = 0 /\ UNCHANGED setup /\ Returns(f, op[f], "eof")
     \/ Spend("faults") /\ (IF op[f].left > 0 THEN GivesChunk(f, "error")
                            ELSE Returns(f, op[f], "error"))
  /\ UNCHANGED <<fetch, opener>>

\* The result of __gopeed_fetch_read on the loop; without one the operation is closed.
ReadSettles(f) ==
  /\ reader[f] \in {"chunk", "eof", "error"}
  /\ reader' = [reader EXCEPT ![f] = "idle"]
  /\ IF loop = "running" /\ fetch[f].pc = "reading"
     THEN fetch' = IF reader[f] = "chunk"
                   THEN [fetch EXCEPT ![f].pc = "ready", ![f].got = @ + 1]
                   ELSE [fetch EXCEPT ![f].pc = "ended", ![f].end = reader[f]]
     ELSE UNCHANGED fetch
  /\ IF loop = "terminated" \/ reader[f] # "chunk" THEN RegistryClose(f) ELSE UNCHANGED op
  /\ UNCHANGED <<setup, opener>>

-----------------------------------------------------------------------------
(* Engine.Close: CloseAll among the cleanups, then the loop.               *)

Closer ==
  \/ /\ closer = "none" /\ closer' = "cancel"
     /\ registry' = [registry EXCEPT !.closed = TRUE, !.taken = {f \in Fetch : op[f].known}]
     /\ op' = [f \in Fetch |-> [op[f] EXCEPT !.known = FALSE]]
     /\ UNCHANGED loop
  \/ /\ closer = "cancel" /\ closer' = "close"
     /\ registry' = [registry EXCEPT !.cancelled = TRUE]
     /\ UNCHANGED <<loop, op>>
  \/ /\ closer = "close"
     /\ \/ \E f \in registry.taken :
             /\ op' = [op EXCEPT ![f] = Closed(@)]
             /\ registry' = [registry EXCEPT !.taken = @ \ {f}]
             /\ UNCHANGED closer
        \/ registry.taken = {} /\ closer' = "end" /\ UNCHANGED <<op, registry>>
     /\ UNCHANGED loop
  \/ closer = "end" /\ closer' = "done" /\ loop' = "terminated" /\ UNCHANGED <<op, registry>>

CloseEngine == Closer /\ UNCHANGED <<setup, fetch, opener, reader>>

Script(f) == Begin(f) \/ Abort(f) \/ Cancel(f) \/ Pull(f)
Going(f) == Open(f) \/ OpenSettles(f) \/ Read(f) \/ ReadSettles(f)
Server(f) == Answer(f) \/ Wire(f)
Next ==
  \/ \E f \in Fetch : (Script(f) \/ Going(f) \/ Server(f)) /\ UNCHANGED <<loop, closer, registry>>
  \/ CloseEngine

Spec == Init /\ [][Next]_vars

-----------------------------------------------------------------------------

\* A script gets the end of a body only when it has read it all, or has aborted it, or the
\* engine is closed: what came with the last chunk is neither lost nor takes its place
\* (operation.read, Read).
FetchIsWhole ==
  \A f \in Fetch : fetch[f].end = "eof" =>
    fetch[f].got = setup.chunks \/ fetch[f].aborted \/ closer # "none"

\* An open body is one the registry knows or CloseAll has taken, so that something will
\* close it, whenever an abort comes (setBody, Open, Close, CloseAll).
BodiesAreKnown ==
  \A f \in Fetch : op[f].body = "open" => op[f].known \/ f \in registry.taken
=============================================================================
