---------------------------- MODULE ScriptStreams ----------------------------
(***************************************************************************)
(* A stream an extension's script makes with ffmpeg.merge and serves       *)
(* through a blob URL (pkg/download/engine: engine.go, inject/stream,      *)
(* inject/ffmpeg, ffmpeg/runtime.go).                                      *)
(*                                                                         *)
(* The HTTP handler of a request (handler) reads a pipe.  On the event     *)
(* loop of the engine the script's pump reads the stream of the merge and  *)
(* pushes each chunk into the pipe.  Reading, pushing and closing are      *)
(* goroutines (puller, pusher, ender) whose results come back as jobs of   *)
(* the loop.  The merge is a goroutine of its own that waits for one of    *)
(* the slots all engines share, and writes into an io.Pipe.  Its input may *)
(* be a stream of the script, pushed chunk by chunk (feed).                *)
(*                                                                         *)
(* A job of the loop, with the microtasks it sets off, is one step.  Jobs  *)
(* that Terminate finds in the queue still run; they are not told from     *)
(* those that ran before.  The disk behind an input is MediaSpool's.       *)
(***************************************************************************)
EXTENDS Integers, Sequences, FiniteSets

CONSTANTS
  Pipe,     \* requests for the blob, each with its pipe and its merge
  Slots,    \* capacity of the channel slots; positive
  Depth,    \* capacity of a pipe's channel; positive
  Setups    \* [pipes, chunks, feeds, async, faults, drops, others]

VARIABLES
  setup,    \* pipes: the requests there are; chunks: of the output of a merge
  loop,     \* "running" or "terminated"
  closer,   \* where Engine.Close is
  handler,  \* of each request: [pc, heard, end]
  pipes,    \* blobPipe: [items, open: it is registered, dropped: ctx is done, ready]
  pump,     \* startPipe: [pc, cancel, sent]
  stream,   \* the output of the merge in the script
  puller,   \* the goroutine of __gopeed_ffmpeg_read
  pusher,   \* the goroutine of __gopeed_blob_pipe_chunk
  ender,    \* the goroutine of __gopeed_blob_pipe_close and _error
  feed,     \* the script's pump into the input: [pc, sent, end]
  merge,    \* job: [pc, known, cancelled, shut, made, result]
  slots     \* [held: merges that hold one, others: those of other engines]

vars == <<setup, loop, closer, handler, pipes, pump, stream, puller, pusher, ender, feed,
          merge, slots>>

Items == 1 .. setup.chunks
Eof == 0        \* the items that end a pipe
Failure == -1
TypeOK ==
  /\ loop \in {"running", "terminated"} /\ closer \in {"none", "all", "jobs", "end", "done"}
  /\ handler \in [Pipe -> [pc : {"idle", "opening", "waiting", "reading", "closing",
                                 "cancelling", "gone"},
                           heard : Seq(Items), end : {"none", "eof", "error"}]]
  /\ pipes \in [Pipe -> [items : Seq(Items \cup {Eof, Failure}), open : BOOLEAN,
                         dropped : BOOLEAN, ready : BOOLEAN]]
  /\ pump \in [Pipe -> [pc : {"none", "timer", "opener", "next", "read", "push", "gone"},
                        cancel : BOOLEAN, sent : 0 .. setup.chunks]]
  /\ stream \in [Pipe -> {"none", "live", "closed", "errored"}]
  /\ puller \in [Pipe -> {"idle", "get", "read", "chunk", "eof", "failed"}]
  /\ pusher \in [Pipe -> {"idle", "look", "send", "yes", "no"}]
  /\ ender \in [Pipe -> [pc : {"idle", "look", "send"}, says : {Eof, Failure}]]
  /\ feed \in [Pipe -> [pc : {"none", "next", "push", "yes", "no"}, sent : 0 .. setup.chunks,
                        end : {"none", "ok", "bad"}]]
  /\ merge \in [Pipe -> [pc : {"none", "wait", "inputs", "slot", "run", "write", "gone"},
                         known : BOOLEAN, cancelled : BOOLEAN, shut : BOOLEAN,
                         made : 0 .. setup.chunks, result : {"open", "eof", "error"}]]
  \* Only merging occupies a slot, and no more than there are.
  /\ \A p \in slots.held : merge[p].pc \in {"run", "write"}
  /\ Cardinality(slots.held) + slots.others <= Slots

Spend(what) == setup[what] > 0 /\ setup' = [setup EXCEPT ![what] = @ - 1]

Init ==
  /\ setup \in Setups
  /\ loop = "running" /\ closer = "none"
  /\ handler = [p \in Pipe |-> [pc |-> "idle", heard |-> <<>>, end |-> "none"]]
  /\ pipes = [p \in Pipe |-> [items |-> <<>>, open |-> FALSE, dropped |-> FALSE,
                              ready |-> FALSE]]
  /\ pump = [p \in Pipe |-> [pc |-> "none", cancel |-> FALSE, sent |-> 0]]
  /\ stream = [p \in Pipe |-> "none"]
  /\ puller = [p \in Pipe |-> "idle"]
  /\ pusher = [p \in Pipe |-> "idle"]
  /\ ender = [p \in Pipe |-> [pc |-> "idle", says |-> Eof]]
  /\ feed = [p \in Pipe |-> [pc |-> "none", sent |-> 0, end |-> "none"]]
  /\ merge = [p \in Pipe |-> [pc |-> "none", known |-> FALSE, cancelled |-> FALSE,
                              shut |-> FALSE, made |-> 0, result |-> "open"]]
  /\ slots = [held |-> {}, others |-> 0]

-----------------------------------------------------------------------------
(* The handler.                                                            *)

HandlerAt(p, pc) == handler[p].pc = pc
HandlerGoes(p, pc) == handler' = [handler EXCEPT ![p].pc = pc]

\* openBlobObjectURLReader.  The session keeps the engine while a handler reads.
Open(p) ==
  /\ HandlerAt(p, "idle") /\ closer = "none" /\ p \in setup.pipes
  /\ HandlerGoes(p, "opening")
  /\ pipes' = [pipes EXCEPT ![p].open = TRUE]
  /\ UNCHANGED <<setup, loop, closer, pump, stream, puller, pusher, ender, feed, merge, slots>>

\* __gopeed_blob_pipe_source only arms a timer; the handler has not to wait for the script.
OpenRuns(p) ==
  /\ HandlerAt(p, "opening") /\ loop = "running"
  /\ HandlerGoes(p, "waiting")
  /\ pump' = [pump EXCEPT ![p].pc = "timer"]
  /\ UNCHANGED <<setup, loop, closer, pipes, stream, puller, pusher, ender, feed, merge, slots>>

WaitProduction(p) ==
  /\ HandlerAt(p, "waiting")
  /\ \/ pipes[p].ready /\ HandlerGoes(p, "reading")
     \/ pipes[p].dropped /\ HandlerGoes(p, "closing")
  /\ UNCHANGED <<setup, loop, closer, pipes, pump, stream, puller, pusher, ender, feed, merge,
                 slots>>

\* blobPipe.Read.
Read(p) ==
  /\ HandlerAt(p, "reading")
  /\ \/ /\ pipes[p].items # <<>>
        /\ pipes' = [pipes EXCEPT ![p].items = Tail(@)]
        /\ LET item == Head(pipes[p].items)
           IN handler' = IF item \in Items
                         THEN [handler EXCEPT ![p].heard = Append(@, item)]
                         ELSE [handler EXCEPT ![p].pc = "closing", ![p].end = IF item = Eof THEN "eof" ELSE "error"]
     \/ /\ pipes[p].dropped
        /\ handler' = [handler EXCEPT ![p].pc = "closing", ![p].end = "error"]
        /\ UNCHANGED pipes
  /\ UNCHANGED <<setup, loop, closer, pump, stream, puller, pusher, ender, feed, merge, slots>>

\* The downloader gives up its request.
Drop(p) ==
  /\ handler[p].pc \in {"opening", "waiting", "reading"}
  /\ Spend("drops")
  /\ pipes' = [pipes EXCEPT ![p].dropped = TRUE]
  /\ UNCHANGED <<loop, closer, handler, pump, stream, puller, pusher, ender, feed, merge, slots>>

\* blobPipe.Close.
Close(p) ==
  /\ HandlerAt(p, "closing")
  /\ HandlerGoes(p, "cancelling")
  /\ pipes' = [pipes EXCEPT ![p].open = FALSE, ![p].dropped = TRUE]
  /\ UNCHANGED <<setup, loop, closer, pump, stream, puller, pusher, ender, feed, merge, slots>>

-----------------------------------------------------------------------------
(* The script.                                                             *)

\* remove and job.stop.
Stopped(j) == [j EXCEPT !.known = FALSE, !.cancelled = TRUE, !.shut = TRUE]

\* stop of the merge in the script, once.
Stop(p, how) ==
  /\ stream' = [stream EXCEPT ![p] = IF @ = "live" THEN how ELSE @]
  /\ merge' = IF stream[p] = "live" THEN [merge EXCEPT ![p] = Stopped(@)] ELSE merge

\* The pump leaves.  A goroutine says why; an error after a cancellation it keeps.
Leaves(p, says) ==
  /\ pump' = [pump EXCEPT ![p].pc = "gone"]
  /\ ender' = IF says = Failure /\ pump[p].cancel THEN ender
              ELSE [ender EXCEPT ![p] = [pc |-> "look", says |-> says]]

CancelIsKept(p) == pump' = [pump EXCEPT ![p].cancel = pump[p].pc # "gone" \/ @]

\* __gopeed_blob_cancel_pipe_source, before the handler is gone.
CancelSource(p) ==
  /\ HandlerAt(p, "cancelling") /\ loop = "running"
  /\ HandlerGoes(p, "gone")
  /\ Stop(p, "closed")
  /\ IF pump[p].pc = "read"
     THEN /\ pump' = [pump EXCEPT ![p].pc = "gone", ![p].cancel = TRUE]
          /\ ender' = [ender EXCEPT ![p] = [pc |-> "look", says |-> Eof]]
     ELSE CancelIsKept(p) /\ UNCHANGED ender
  /\ UNCHANGED <<setup, loop, closer, pipes, puller, pusher, feed, slots>>

\* The opener gives the stream of a new merge, which is bound to the pipe and read.
SourceComes(p) ==
  /\ pipes' = [pipes EXCEPT ![p].ready = TRUE]
  /\ IF pump[p].cancel
     THEN /\ stream' = [stream EXCEPT ![p] = "closed"]
          /\ merge' = [merge EXCEPT ![p] = [Stopped(@) EXCEPT !.pc = "wait"]]
          /\ pump' = [pump EXCEPT ![p].pc = "gone"]
          /\ UNCHANGED <<puller, feed>>
     ELSE /\ stream' = [stream EXCEPT ![p] = "live"]
          /\ merge' = [merge EXCEPT ![p].pc = "inputs", ![p].known = TRUE]
          /\ pump' = [pump EXCEPT ![p].pc = "read"]
          /\ puller' = [puller EXCEPT ![p] = "get"]
          /\ feed' = IF setup.feeds THEN [feed EXCEPT ![p].pc = "next"] ELSE feed
  /\ UNCHANGED ender

SourceFails(p) ==
  /\ Leaves(p, Failure)
  /\ UNCHANGED <<pipes, stream, merge, puller, feed>>

Timer(p) ==
  /\ pump[p].pc = "timer" /\ loop = "running"
  /\ IF setup.async
     THEN /\ pump' = [pump EXCEPT ![p].pc = "opener"]
          /\ UNCHANGED <<pipes, stream, merge, puller, feed, ender>>
     ELSE SourceComes(p)
  /\ UNCHANGED <<setup, loop, closer, handler, pusher, slots>>

OpenerReturns(p) ==
  /\ pump[p].pc = "opener" /\ loop = "running"
  /\ \/ SourceComes(p) /\ UNCHANGED setup
     \/ SourceFails(p) /\ Spend("faults")
  /\ UNCHANGED <<loop, closer, handler, pusher, slots>>

\* The timer between two chunks.
Next1(p) ==
  /\ pump[p].pc = "next" /\ loop = "running"
  /\ IF stream[p] = "live"
     THEN /\ pump' = [pump EXCEPT ![p].pc = "read"]
          /\ puller' = [puller EXCEPT ![p] = "get"]
          /\ UNCHANGED ender
     ELSE Leaves(p, IF stream[p] = "closed" THEN Eof ELSE Failure) /\ UNCHANGED puller
  /\ UNCHANGED <<setup, loop, closer, handler, pipes, stream, pusher, feed, merge, slots>>

\* __gopeed_ffmpeg_read: the goroutine.  The io.Pipe hands over one write, and once its
\* reader is closed it has no end of file to give.
Pull(p) ==
  /\ \/ /\ puller[p] = "get"
        /\ puller' = [puller EXCEPT ![p] = IF merge[p].known THEN "read" ELSE "failed"]
        /\ UNCHANGED merge
     \/ /\ puller[p] = "read" /\ merge[p].pc = "write" /\ ~merge[p].shut
        /\ puller' = [puller EXCEPT ![p] = "chunk"]
        /\ merge' = [merge EXCEPT ![p].pc = "run", ![p].made = @ + 1]
     \/ /\ puller[p] = "read" /\ (merge[p].shut \/ merge[p].result # "open")
        /\ puller' = [puller EXCEPT ![p] =
             IF ~merge[p].shut /\ merge[p].result = "eof" THEN "eof" ELSE "failed"]
        /\ UNCHANGED merge
  /\ UNCHANGED <<setup, loop, closer, handler, pipes, pump, stream, pusher, ender, feed, slots>>

OutputEnd(p) == IF puller[p] = "eof" THEN Eof ELSE Failure

\* Its result on the loop; without a loop the job is removed.
PullSettles(p) ==
  /\ puller[p] \in {"chunk", "eof", "failed"}
  /\ puller' = [puller EXCEPT ![p] = "idle"]
  /\ IF loop = "running" /\ puller[p] = "chunk" /\ stream[p] = "live"
     THEN /\ pusher' = [pusher EXCEPT ![p] = "look"]
          /\ pump' = [pump EXCEPT ![p].pc = "push"]
          /\ UNCHANGED <<stream, merge, ender>>
     ELSE IF loop = "running" /\ puller[p] # "chunk" /\ stream[p] = "live"
     THEN /\ Stop(p, IF OutputEnd(p) = Eof THEN "closed" ELSE "errored")
          /\ Leaves(p, OutputEnd(p))
          /\ UNCHANGED pusher
     ELSE /\ merge' = IF loop = "terminated" \/ puller[p] # "chunk"
                      THEN [merge EXCEPT ![p] = Stopped(@)] ELSE merge
          /\ UNCHANGED <<pusher, pump, stream, ender>>
  /\ UNCHANGED <<setup, loop, closer, handler, pipes, feed, slots>>

Room(p) == Len(pipes[p].items) < Depth

\* blobPipeRegistry.Push.
Push(p) ==
  /\ \/ /\ pusher[p] = "look"
        /\ pusher' = [pusher EXCEPT ![p] = IF pipes[p].open THEN "send" ELSE "no"]
        /\ UNCHANGED <<pipes, pump>>
     \/ /\ pusher[p] = "send" /\ Room(p)
        /\ pusher' = [pusher EXCEPT ![p] = "yes"]
        /\ pipes' = [pipes EXCEPT ![p].items = Append(@, pump[p].sent + 1)]
        /\ pump' = [pump EXCEPT ![p].sent = @ + 1]
     \/ /\ pusher[p] = "send" /\ pipes[p].dropped
        /\ pusher' = [pusher EXCEPT ![p] = "no"]
        /\ UNCHANGED <<pipes, pump>>
  /\ UNCHANGED <<setup, loop, closer, handler, stream, puller, ender, feed, merge, slots>>

PushSettles(p) ==
  /\ pusher[p] \in {"yes", "no"}
  /\ pusher' = [pusher EXCEPT ![p] = "idle"]
  /\ IF loop = "terminated" THEN UNCHANGED <<pump, stream, merge>>
     ELSE IF pusher[p] = "yes"
     THEN pump' = [pump EXCEPT ![p].pc = "next"] /\ UNCHANGED <<stream, merge>>
     ELSE /\ pump' = [pump EXCEPT ![p].pc = "gone", ![p].cancel = TRUE]
          /\ Stop(p, "closed")
  /\ UNCHANGED <<setup, loop, closer, handler, pipes, puller, ender, feed, slots>>

\* CloseWithError.
End(p) ==
  /\ \/ /\ ender[p].pc = "look"
        /\ ender' = [ender EXCEPT ![p].pc = IF pipes[p].open THEN "send" ELSE "idle"]
        /\ pipes' = IF pipes[p].open
                    THEN [pipes EXCEPT ![p].open = FALSE, ![p].ready = TRUE] ELSE pipes
     \/ /\ ender[p].pc = "send" /\ (Room(p) \/ pipes[p].dropped)
        /\ ender' = [ender EXCEPT ![p].pc = "idle"]
        /\ \/ Room(p) /\ pipes' = [pipes EXCEPT ![p].items = Append(@, ender[p].says)]
           \/ pipes[p].dropped /\ UNCHANGED pipes
  /\ UNCHANGED <<setup, loop, closer, handler, pump, stream, puller, pusher, feed, merge, slots>>

-----------------------------------------------------------------------------
(* A stream of the script as input.                                        *)

\* The pump of the input in the script: a chunk, the end, or an error that ends the merge.
FeedReads(p) ==
  /\ feed[p].pc = "next" /\ loop = "running"
  /\ \/ /\ stream[p] # "live"
        /\ feed' = [feed EXCEPT ![p].pc = "none"]
        /\ UNCHANGED <<setup, stream, merge, pump, ender>>
     \/ /\ stream[p] = "live" /\ feed[p].sent < setup.chunks
        /\ feed' = [feed EXCEPT ![p].pc = "push"]
        /\ UNCHANGED <<setup, stream, merge, pump, ender>>
     \/ /\ stream[p] = "live" /\ feed[p].sent = setup.chunks
        /\ feed' = [feed EXCEPT ![p].pc = "none", ![p].end = "ok"]
        /\ UNCHANGED <<setup, stream, merge, pump, ender>>
     \/ /\ stream[p] = "live" /\ Spend("faults")
        /\ feed' = [feed EXCEPT ![p].pc = "none", ![p].end = "bad"]
        /\ Stop(p, "errored")
        /\ IF pump[p].pc = "read" THEN Leaves(p, Failure) ELSE UNCHANGED <<pump, ender>>
  /\ UNCHANGED <<loop, closer, handler, pipes, puller, pusher, slots>>

\* __gopeed_ffmpeg_push: the goroutine, and its result on the loop.
FeedPushes(p) ==
  /\ \/ /\ feed[p].pc = "push"
        /\ feed' = IF merge[p].known /\ ~merge[p].cancelled
                   THEN [feed EXCEPT ![p].pc = "yes", ![p].sent = @ + 1]
                   ELSE [feed EXCEPT ![p].pc = "no",
                                     ![p].end = IF merge[p].known THEN "bad" ELSE @]
     \/ /\ feed[p].pc \in {"yes", "no"}
        /\ feed' = [feed EXCEPT ![p].pc =
             IF feed[p].pc = "yes" /\ loop = "running" /\ ~merge[p].cancelled
             THEN "next" ELSE "none"]
  /\ UNCHANGED <<setup, loop, closer, handler, pipes, pump, stream, puller, pusher, ender,
                 merge, slots>>

-----------------------------------------------------------------------------
(* The goroutine of a merge.                                               *)

MergeAt(p, pc) == merge[p].pc = pc
MergeGoes(p, pc) == merge' = [merge EXCEPT ![p].pc = pc]

\* Mutant: the slot of a merge that was cancelled stays taken.
KeepsSlot(p) == IF merge[p].cancelled THEN slots.held ELSE slots.held \ {p}

GivesSlot(p) == slots.held \ {p}

\* Mutant: the output is closed without the error.
ClosesCleanly(ok) == "eof"

\* The reason the output ends with.
CloseWithError(ok) == IF ok THEN "eof" ELSE "error"

\* The deferred calls: the slot, the context and the inputs, the output.
MergeLeaves(p, ok) ==
  /\ merge' = [merge EXCEPT ![p].pc = "gone", ![p].cancelled = TRUE,
                            ![p].result = CloseWithError(ok)]
  /\ slots' = [slots EXCEPT !.held = GivesSlot(p)]

\* A merge that was created and never started waits for its cancellation.
MergeWaits(p) ==
  /\ MergeAt(p, "wait") /\ merge[p].cancelled
  /\ MergeLeaves(p, FALSE)
  /\ UNCHANGED setup

OpenInputs(p) ==
  /\ MergeAt(p, "inputs")
  /\ \/ ~merge[p].cancelled /\ MergeGoes(p, "slot") /\ UNCHANGED <<setup, slots>>
     \/ merge[p].cancelled /\ MergeLeaves(p, FALSE) /\ UNCHANGED setup
     \/ Spend("faults") /\ MergeLeaves(p, FALSE)

Free == Cardinality(slots.held) + slots.others < Slots

Acquire(p) ==
  /\ MergeAt(p, "slot")
  /\ \/ Free /\ MergeGoes(p, "run") /\ slots' = [slots EXCEPT !.held = @ \cup {p}]
     \/ merge[p].cancelled /\ MergeLeaves(p, FALSE)
  /\ UNCHANGED setup

\* What FFmpeg has to read for the next chunk, or to end.
InputGiven(p) == ~setup.feeds \/ feed[p].sent > merge[p].made
InputEnded(p) == ~setup.feeds \/ feed[p].end = "ok"

\* FFmpeg; the input may fail, which cancels the job, or FFmpeg itself.
RunAcquired(p) ==
  /\ MergeAt(p, "run")
  /\ \/ /\ ~merge[p].cancelled /\ merge[p].made < setup.chunks /\ InputGiven(p)
        /\ MergeGoes(p, "write")
        /\ UNCHANGED <<setup, slots>>
     \/ /\ ~merge[p].cancelled /\ merge[p].made = setup.chunks /\ InputEnded(p)
        /\ MergeLeaves(p, TRUE)
        /\ UNCHANGED setup
     \/ /\ merge[p].cancelled \/ feed[p].end = "bad"
        /\ MergeLeaves(p, FALSE)
        /\ UNCHANGED setup
     \/ /\ Spend("faults")
        /\ MergeLeaves(p, FALSE)

WriteFails(p) ==
  /\ MergeAt(p, "write") /\ (merge[p].shut \/ merge[p].cancelled)
  /\ MergeLeaves(p, FALSE)
  /\ UNCHANGED setup

MergeStep(p) ==
  /\ MergeWaits(p) \/ OpenInputs(p) \/ Acquire(p) \/ RunAcquired(p) \/ WriteFails(p)
  /\ UNCHANGED <<loop, closer, handler, pipes, pump, stream, puller, pusher, ender, feed>>

\* Merges of other extensions.
OtherTakes ==
  /\ Free /\ Spend("others")
  /\ slots' = [slots EXCEPT !.others = @ + 1]
  /\ UNCHANGED <<loop, closer, handler, pipes, pump, stream, puller, pusher, ender, feed, merge>>

OtherGives ==
  /\ slots.others > 0
  /\ slots' = [slots EXCEPT !.others = @ - 1]
  /\ UNCHANGED <<setup, loop, closer, handler, pipes, pump, stream, puller, pusher, ender, feed,
                 merge>>

-----------------------------------------------------------------------------
(* Engine.Close, after the last handler has released the session.          *)

Closing == UNCHANGED <<setup, handler, pipes, puller, pusher, feed, slots>>

CloseBegins ==
  /\ closer = "none" /\ \A p \in Pipe : handler[p].pc \in {"idle", "gone"}
  /\ closer' = "all"
  /\ UNCHANGED <<loop, pump, stream, ender, merge>> /\ Closing

\* __gopeed_ffmpeg_close_all, on the loop.
CloseAll ==
  /\ closer = "all" /\ closer' = "jobs"
  /\ stream' = [p \in Pipe |-> IF stream[p] = "live" THEN "errored" ELSE stream[p]]
  /\ merge' = [p \in Pipe |-> IF stream[p] = "live" THEN Stopped(merge[p]) ELSE merge[p]]
  /\ LET waiting == {p \in Pipe : stream[p] = "live" /\ pump[p].pc = "read"}
     IN  /\ pump' = [p \in Pipe |-> IF p \in waiting THEN [pump[p] EXCEPT !.pc = "gone"]
                                    ELSE pump[p]]
         /\ ender' = [p \in Pipe |-> IF p \in waiting /\ ~pump[p].cancel
                                     THEN [pc |-> "look", says |-> Failure] ELSE ender[p]]
  /\ UNCHANGED loop /\ Closing

\* The jobs that are left.
StopJobs ==
  /\ closer = "jobs" /\ closer' = "end"
  /\ merge' = [p \in Pipe |-> IF merge[p].known THEN Stopped(merge[p]) ELSE merge[p]]
  /\ UNCHANGED <<loop, pump, stream, ender>> /\ Closing

Terminate ==
  /\ closer = "end" /\ closer' = "done"
  /\ loop' = "terminated"
  /\ UNCHANGED <<pump, stream, ender, merge>> /\ Closing

-----------------------------------------------------------------------------

Handler(p) ==
  OpenRuns(p) \/ WaitProduction(p) \/ Read(p) \/ Close(p) \/ CancelSource(p)
Script(p) == Timer(p) \/ Next1(p)
Pulling(p) == Pull(p) \/ PullSettles(p)
Pushing(p) == Push(p) \/ PushSettles(p)
Closer == CloseAll \/ StopJobs \/ Terminate
Next ==
  \/ \E p \in Pipe :
       \/ Open(p) \/ Drop(p) \/ Handler(p) \/ Script(p) \/ OpenerReturns(p) \/ Pulling(p)
       \/ Pushing(p) \/ End(p) \/ FeedReads(p) \/ FeedPushes(p) \/ MergeStep(p)
  \/ OtherTakes \/ OtherGives \/ CloseBegins \/ Closer

Spec == Init /\ [][Next]_vars

-----------------------------------------------------------------------------

\* A request gets the chunks of the merge in order, and the end only when it has them all:
\* an error of FFmpeg, of an input or of the engine is an error of the request and never
\* completes a partial download (Push, CloseWithError, the deferred calls of a job).
StreamsAreWhole ==
  \A p \in Pipe :
    /\ handler[p].heard = [i \in 1 .. Len(handler[p].heard) |-> i]
    /\ handler[p].end = "eof" => Len(handler[p].heard) = setup.chunks
=============================================================================
