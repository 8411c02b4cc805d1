---------------------------- MODULE BlobRegistry ----------------------------
(***************************************************************************)
(* Sources of data made by an extension's script and served to the         *)
(* downloader over a loopback HTTP server (internal/blob/registry.go), the *)
(* leases tasks hold on them (syncBlobTaskLease, releaseBlobTask) and the  *)
(* engine session that must outlive whoever reads from its script.         *)
(*                                                                         *)
(* One script and its session are modelled: every source the program makes *)
(* has one.  A lookup (get) reads the base URL, the map and revoked under  *)
(* three locks, but what is not available stays so, and the lookup is one  *)
(* step.  Session.Release, the last thing a call does with a source it has *)
(* closed, goes with the step that hands the session over.                 *)
(***************************************************************************)
EXTENDS Integers, FiniteSets

CONSTANTS Source,    \* the sources the script may make
          Task,
          Request,   \* HTTP requests under way at once
          Limit,     \* rangeSourceFailureLimit
          MaxCalls,  \* bound on the calls of tasks, requests, Revoke and Close
          None

ASSUME LimitAssumption == Limit \in Nat \ {0}
ASSUME MaxCallsAssumption == MaxCalls \in Nat
ASSUME NoneAssumption == None \notin Source
ASSUME FiniteAssumption == IsFiniteSet(Source) /\ IsFiniteSet(Task) /\ IsFiniteSet(Request)

VARIABLES
  sources,  \* Registry.sources
  state,    \* of each source; all but "none" and "open" are Source.revoked
  taskRefs,
  timer,    \* Source.unclaimed and its goroutine
  source,   \* what reading it has shown: rangeEnabled, readErr, rangeFailures
  session,  \* engineSession
  script,   \* the script that makes the sources, and the one it is making
  closing,  \* sources a Registry.Close has taken and not closed yet
  calls,    \* calls left
  lease,    \* task.blobURL
  sync,     \* the syncBlobTaskLease of each task, which holds blobRefLock
  release,  \* a Registry.Release each task has called
  request

srcVars  == <<sources, state, taskRefs, timer, source>>
taskVars == <<lease, sync, release>>
vars == <<srcVars, session, script, closing, calls, taskVars, request>>

States == {"none", "open", "released", "expired", "closed"}
Timers == {"none", "armed", "fired"}
Readings == [ranged : BOOLEAN, err : BOOLEAN, failures : 0 .. Limit - 1]
Sessions == [refs : Nat, closed : BOOLEAN]
Scripts == [running : BOOLEAN, makes : Source \cup {None}]
Syncs == [pc : {"idle", "acquire", "release"}, url : Source \cup {None}]
Releases == [pc : {"idle", "get", "drop"}, url : Source \cup {None}]
Requests == [pc : {"idle", "found", "admitted", "reading"}, url : Source \cup {None},
             ranged : BOOLEAN]

TypeOK ==
  /\ sources \subseteq Source /\ closing \subseteq Source /\ calls \in 0 .. MaxCalls
  /\ state \in [Source -> States] /\ taskRefs \in [Source -> Nat]
  /\ timer \in [Source -> Timers] /\ source \in [Source -> Readings]
  /\ session \in Sessions /\ script \in Scripts
  /\ lease \in [Task -> Source \cup {None}] /\ sync \in [Task -> Syncs]
  /\ release \in [Task -> Releases] /\ request \in [Request -> Requests]

Called == calls > 0 /\ calls' = calls - 1

IdleCall == [pc |-> "idle", url |-> None]
IdleRequest == [pc |-> "idle", url |-> None, ranged |-> FALSE]

Init ==
  /\ sources = {} /\ closing = {} /\ calls = MaxCalls
  /\ state = [s \in Source |-> "none"]
  /\ taskRefs = [s \in Source |-> 0]
  /\ timer = [s \in Source |-> "none"]
  /\ source = [s \in Source |-> [ranged |-> FALSE, err |-> FALSE, failures |-> 0]]
  /\ session = [refs |-> 0, closed |-> FALSE]
  /\ script = [running |-> TRUE, makes |-> None]
  /\ lease = [t \in Task |-> None]
  /\ sync = [t \in Task |-> IdleCall] /\ release = [t \in Task |-> IdleCall]
  /\ request = [r \in Request |-> IdleRequest]

-----------------------------------------------------------------------------
(* engineSession.                                                          *)

\* Retain is silently ignored by a closed session.
Retain(s) == IF s.closed THEN s ELSE [refs |-> s.refs + 1, closed |-> FALSE]

\* Mutant: closes one reference too early.
ReleaseEarly(s) ==
  [refs |-> IF s.refs > 0 THEN s.refs - 1 ELSE 0, closed |-> s.closed \/ s.refs <= 2]

\* Mutant: counts below zero the references a closed session did not take.
ReleaseUnchecked(s) == [refs |-> s.refs - 1, closed |-> s.closed \/ s.refs = 1]

Release(s) ==
  LET n == IF s.refs > 0 THEN s.refs - 1 ELSE 0
  IN  [refs |-> n, closed |-> s.closed \/ n = 0]

CloseIfIdle(s) == [refs |-> s.refs, closed |-> s.closed \/ s.refs = 0]

-----------------------------------------------------------------------------
(* The script and the timer.                                               *)

\* CreateOpener inserts the source and then arms its timer; the script has its
\* URL only after that.
Create(s, ranged) ==
  /\ script.running /\ script.makes = None /\ state[s] = "none"
  /\ sources' = sources \cup {s}
  /\ state' = [state EXCEPT ![s] = "open"]
  /\ source' = [source EXCEPT ![s] = [ranged |-> ranged, err |-> FALSE, failures |-> 0]]
  /\ session' = Retain(session)
  /\ script' = [running |-> TRUE, makes |-> s]
  /\ UNCHANGED <<taskRefs, timer, closing, calls, taskVars, request>>

ArmTimer ==
  /\ script.makes # None
  /\ timer' = IF state[script.makes] = "open"
              THEN [timer EXCEPT ![script.makes] = "armed"] ELSE timer
  /\ script' = [running |-> script.running, makes |-> None]
  /\ UNCHANGED <<sources, state, taskRefs, source, session, closing, calls, taskVars,
                 request>>

\* The call of the extension returns, with deferred CloseIfIdle.
ScriptEnds ==
  /\ script.running /\ script.makes = None
  /\ script' = [running |-> FALSE, makes |-> None]
  /\ session' = CloseIfIdle(session)
  /\ UNCHANGED <<srcVars, closing, calls, taskVars, request>>

TimerFires(s) ==
  /\ timer[s] = "armed"
  /\ timer' = [timer EXCEPT ![s] = "fired"]
  /\ UNCHANGED <<sources, state, taskRefs, source, session, script, closing, calls,
                 taskVars, request>>

\* A source stops being served, for the reason why, and gives up its session.
Ends(s, why) ==
  /\ state' = [state EXCEPT ![s] = why]
  /\ session' = Release(session)

\* Mutant: does not look for a lease taken meanwhile.
ExpiresLeased(s) ==
  /\ timer[s] = "fired"
  /\ timer' = [timer EXCEPT ![s] = "none"]
  /\ IF state[s] = "open"
     THEN Ends(s, "expired") /\ sources' = sources \ {s}
     ELSE UNCHANGED <<state, session, sources>>
  /\ UNCHANGED <<taskRefs, source, script, closing, calls, taskVars, request>>

\* expireUnclaimed, in the goroutine of the timer.
Expires(s) ==
  /\ timer[s] = "fired"
  /\ timer' = [timer EXCEPT ![s] = "none"]
  /\ IF state[s] = "open" /\ taskRefs[s] = 0
     THEN Ends(s, "expired") /\ sources' = sources \ {s}
     ELSE UNCHANGED <<state, session, sources>>
  /\ UNCHANGED <<taskRefs, source, script, closing, calls, taskVars, request>>

\* Stop of a timer that has fired does not take its goroutine back.
Stopped(s) == [timer EXCEPT ![s] = IF @ = "armed" THEN "none" ELSE @]

-----------------------------------------------------------------------------
(* Revoke and Close.                                                       *)

Available(s) == s \in sources /\ state[s] = "open"

Published(s) == state[s] # "none" /\ script.makes # s

\* Source.close, whoever calls it.
SourceCloses(s) ==
  /\ timer' = Stopped(s)
  /\ IF state[s] = "open" THEN Ends(s, "closed") ELSE UNCHANGED <<state, session>>

\* URL.revokeObjectURL of the script.
Revoke(s) ==
  /\ script.running /\ script.makes = None /\ Available(s)
  /\ SourceCloses(s)
  /\ sources' = sources \ {s}
  /\ Called
  /\ UNCHANGED <<taskRefs, source, script, closing, taskVars, request>>

\* Registry.Close empties the map under its locks and then closes one source
\* after the other.
Close ==
  /\ Called
  /\ closing' = closing \cup sources /\ sources' = {}
  /\ UNCHANGED <<state, taskRefs, timer, source, session, script, taskVars, request>>

CloseNext(s) ==
  /\ s \in closing /\ closing' = closing \ {s}
  /\ SourceCloses(s)
  /\ UNCHANGED <<sources, taskRefs, source, script, calls, taskVars, request>>

-----------------------------------------------------------------------------
(* The leases of tasks.                                                    *)

\* syncBlobTaskLease of a task whose URL is s: nothing to do if it has the
\* lease, and nothing to lease if the URL is no source any more.
SyncLooks(t, s) ==
  /\ sync[t].pc = "idle" /\ Published(s) /\ lease[t] # s
  /\ IF Available(s)
     THEN sync' = [sync EXCEPT ![t] = [pc |-> "acquire", url |-> s]] /\ UNCHANGED lease
     ELSE /\ sync' = [sync EXCEPT ![t] = [pc |-> "release", url |-> lease[t]]]
          /\ lease' = [lease EXCEPT ![t] = None]
  /\ Called
  /\ UNCHANGED <<srcVars, session, script, closing, release, request>>

\* The same of a task that is finished, or has moved on to a URL elsewhere.
SyncDrops(t) ==
  /\ sync[t].pc = "idle" /\ lease[t] # None
  /\ sync' = [sync EXCEPT ![t] = [pc |-> "release", url |-> lease[t]]]
  /\ lease' = [lease EXCEPT ![t] = None]
  /\ Called
  /\ UNCHANGED <<srcVars, session, script, closing, release, request>>

\* Registry.Acquire: what the lookup found may be revoked by now.
SyncAcquires(t) ==
  /\ sync[t].pc = "acquire"
  /\ LET s == sync[t].url
     IN  \/ /\ state[s] = "open"
            /\ taskRefs' = [taskRefs EXCEPT ![s] = @ + 1]
            /\ timer' = Stopped(s)
            /\ sync' = [sync EXCEPT ![t] = [pc |-> "release", url |-> lease[t]]]
            /\ lease' = [lease EXCEPT ![t] = s]
         \/ /\ ~Available(s)
            /\ sync' = [sync EXCEPT ![t] = IdleCall]
            /\ UNCHANGED <<taskRefs, timer, lease>>
  /\ UNCHANGED <<sources, state, source, session, script, closing, calls, release, request>>

\* The former lease is released with blobRefLock held ...
SyncReleases(t) ==
  /\ sync[t].pc = "release" /\ release[t].pc = "idle"
  /\ release' = [release EXCEPT ![t] = IF sync[t].url = None THEN IdleCall
                                       ELSE [pc |-> "get", url |-> sync[t].url]]
  /\ sync' = [sync EXCEPT ![t] = IdleCall]
  /\ UNCHANGED <<srcVars, session, script, closing, calls, lease, request>>

\* Mutant: the task keeps the URL it has released.
TaskReleasesTwice(t) ==
  /\ sync[t].pc = "idle" /\ release[t].pc = "idle" /\ lease[t] # None
  /\ release' = [release EXCEPT ![t] = [pc |-> "get", url |-> lease[t]]]
  /\ Called
  /\ UNCHANGED <<srcVars, session, script, closing, lease, sync, request>>

\* ... and releaseBlobTask, at the end of a task, releases it without.
TaskReleases(t) ==
  /\ sync[t].pc = "idle" /\ release[t].pc = "idle" /\ lease[t] # None
  /\ release' = [release EXCEPT ![t] = [pc |-> "get", url |-> lease[t]]]
  /\ lease' = [lease EXCEPT ![t] = None]
  /\ Called
  /\ UNCHANGED <<srcVars, session, script, closing, sync, request>>

ReleaseLooks(t) ==
  /\ release[t].pc = "get"
  /\ release' = [release EXCEPT ![t] = IF Available(release[t].url)
                                       THEN [pc |-> "drop", url |-> release[t].url]
                                       ELSE IdleCall]
  /\ UNCHANGED <<srcVars, session, script, closing, calls, lease, sync, request>>

\* Mutant: leaves it to the timer to revoke a source without references.
ReleaseDropsOnly(t) ==
  /\ release[t].pc = "drop"
  /\ LET s == release[t].url
     IN  taskRefs' = [taskRefs EXCEPT ![s] = IF @ > 0 THEN @ - 1 ELSE 0]
  /\ release' = [release EXCEPT ![t] = IdleCall]
  /\ UNCHANGED <<sources, state, timer, source, session, script, closing, calls, lease,
                 sync, request>>

\* releaseTask: the last reference revokes the source.
ReleaseDrops(t) ==
  /\ release[t].pc = "drop"
  /\ LET s == release[t].url
     IN  IF state[s] # "open" \/ taskRefs[s] = 0
         THEN UNCHANGED <<taskRefs, state, session, sources>>
         ELSE /\ taskRefs' = [taskRefs EXCEPT ![s] = @ - 1]
              /\ IF taskRefs[s] > 1
                 THEN UNCHANGED <<state, session, sources>>
                 ELSE Ends(s, "released") /\ sources' = sources \ {s}
  /\ release' = [release EXCEPT ![t] = IdleCall]
  /\ UNCHANGED <<timer, source, script, closing, calls, lease, sync, request>>

-----------------------------------------------------------------------------
(* ServeHTTP.                                                              *)

RequestBegins(r, s) ==
  /\ request[r].pc = "idle" /\ s \in sources /\ Published(s)
  /\ request' = [request EXCEPT ![r] = [pc |-> "found", url |-> s, ranged |-> FALSE]]
  /\ Called
  /\ UNCHANGED <<srcVars, session, script, closing, taskVars>>

\* Mutant: a reader relies on the reference of its source.
AdmitUnretained(r) ==
  /\ request[r].pc = "found"
  /\ LET s == request[r].url
     IN  request' = [request EXCEPT ![r] =
                       IF state[s] = "open"
                       THEN [pc |-> "admitted", url |-> s, ranged |-> source[s].ranged]
                       ELSE IdleRequest]
  /\ UNCHANGED <<srcVars, session, script, closing, calls, taskVars>>

\* acquireOpen: the reader retains the session for itself.
Admit(r) ==
  /\ request[r].pc = "found"
  /\ LET s == request[r].url
     IN  IF state[s] = "open"
         THEN /\ request' = [request EXCEPT ![r] = [pc |-> "admitted", url |-> s,
                                                   ranged |-> source[s].ranged]]
              /\ session' = Retain(session)
         ELSE request' = [request EXCEPT ![r] = IdleRequest] /\ UNCHANGED session
  /\ UNCHANGED <<srcVars, script, closing, calls, taskVars>>

RequestEnds(r) ==
  /\ request' = [request EXCEPT ![r] = IdleRequest]
  /\ session' = Release(session)
  /\ UNCHANGED <<sources, state, taskRefs, timer, script, closing, calls, taskVars>>

\* A source that can be read in ranges may fail Limit - 1 times in a row.
recordSourceError(s, ranged) ==
  LET again == ~source[s].err /\ ranged /\ source[s].failures + 1 < Limit
  IN  source' = [source EXCEPT ![s] =
        [ranged |-> source[s].ranged, err |-> ~again,
         failures |-> IF again THEN source[s].failures + 1 ELSE source[s].failures]]

recordSourceSuccess(s, ranged) ==
  source' = IF ranged /\ ~source[s].err
            THEN [source EXCEPT ![s] = [ranged |-> source[s].ranged, err |-> FALSE,
                                        failures |-> 0]]
            ELSE source

\* The source is known to be broken.
Refused(r) ==
  /\ request[r].pc = "admitted" /\ source[request[r].url].err
  /\ RequestEnds(r) /\ UNCHANGED source

\* The opener returns a reader; one that produces its output as it goes has no
\* size and serves no ranges.
Opens(r, produces) ==
  /\ request[r].pc = "admitted"
  /\ LET s == request[r].url
     IN  /\ request' = [request EXCEPT ![r] =
                          [pc |-> "reading", url |-> s,
                           ranged |-> request[r].ranged /\ ~produces]]
         /\ source' = [source EXCEPT ![s] =
                          [ranged |-> source[s].ranged /\ ~produces,
                           err |-> source[s].err, failures |-> source[s].failures]]
  /\ UNCHANGED <<sources, state, taskRefs, timer, session, script, closing, calls,
                 taskVars>>

\* The opener or the reader fails, and not because the client has gone.
Fails(r) ==
  /\ request[r].pc \in {"admitted", "reading"}
  /\ recordSourceError(request[r].url, request[r].ranged)
  /\ RequestEnds(r)

Completes(r) ==
  /\ request[r].pc = "reading"
  /\ recordSourceSuccess(request[r].url, request[r].ranged)
  /\ RequestEnds(r)

\* The client, or the server that is closed, cancels the request.
Cancels(r) ==
  /\ request[r].pc \in {"admitted", "reading"}
  /\ RequestEnds(r) /\ UNCHANGED source

-----------------------------------------------------------------------------

Expiry(s) == TimerFires(s) \/ Expires(s)
Sync(t) == SyncAcquires(t) \/ SyncReleases(t)
Releasing(t) == ReleaseLooks(t) \/ ReleaseDrops(t)
Serve(r) ==
  Admit(r) \/ Refused(r) \/ Fails(r) \/ Completes(r) \/ Cancels(r)
  \/ \E produces \in BOOLEAN : Opens(r, produces)

Next ==
  \/ \E s \in Source : \/ \E ranged \in BOOLEAN : Create(s, ranged)
                       \/ Revoke(s) \/ Expiry(s) \/ CloseNext(s)
                       \/ \E t \in Task : SyncLooks(t, s)
                       \/ \E r \in Request : RequestBegins(r, s)
  \/ ArmTimer \/ ScriptEnds \/ Close
  \/ \E t \in Task : SyncDrops(t) \/ Sync(t) \/ TaskReleases(t) \/ Releasing(t)
  \/ \E r \in Request : Serve(r)

Spec == Init /\ [][Next]_vars

-----------------------------------------------------------------------------

Open == {s \in Source : state[s] = "open"}
Readers == {r \in Request : request[r].pc \in {"admitted", "reading"}}

\* The session counts exactly its sources that are served and its readers:
\* releases by the last lease, the timer, a revocation, Close and the end of a
\* request never count twice nor get lost, in whatever order they come.
RefsMatchHolders ==
  ~session.closed => session.refs = Cardinality(Open) + Cardinality(Readers)

\* Who still owes source s a reference: the tasks that have leased it, and those about
\* to give a lease back, before and after Registry.Release is called.
Leasing(s) == {t \in Task : lease[t] = s}
Returning(s) == {t \in Task : sync[t].pc = "release" /\ sync[t].url = s}
GivingBack(s) == {t \in Task : release[t].pc # "idle" /\ release[t].url = s}

Owing(s) ==
  Cardinality(Leasing(s)) + Cardinality(Returning(s)) + Cardinality(GivingBack(s))

\* As long as a source is served, its references are the leases of tasks and
\* those about to be given back.
LeasesCounted == \A s \in Open \ closing : taskRefs[s] = Owing(s)

\* A source a task has leased is never taken away by the timer that was racing
\* with the lease, nor by another task that releases its own.
LeaseKeepsSource ==
  \A t \in Task : lease[t] # None => state[lease[t]] \notin {"released", "expired"}

\* The engine of the script is closed only when nothing is served from it.
ClosesWhenUnused ==
  [][ ~session.closed /\ session'.closed => (Open \cup Readers)' = {} ]_vars

\* A source nobody has a lease on, nor is about to give one back, still has its
\* timer: whatever raced with it, the source and its session end some day.
UnclaimedIsTimed ==
  \A s \in Open \ closing : script.makes # s /\ Owing(s) = 0 => timer[s] # "none"

\* The references of a source are the leases taken and not given back; no timer and no other
\* task ends a source that is leased, although its script may; and one that nobody leases
\* has a timer that is going to end it (acquireTask, releaseTask, expire).
SourcesAreKept == LeasesCounted /\ LeaseKeepsSource /\ UnclaimedIsTimed

-----------------------------------------------------------------------------

\* What makes the properties inductive.  A call or request under way has a source; a
\* source that is served is in the map, or a Close has taken it and is about to close it;
\* nothing knows a source that was not made; and while a Close is under way, which
\* releases no longer find the source, references are at most left over.
CallsHaveSource ==
  /\ \A t \in Task : /\ sync[t].pc = "acquire" => sync[t].url # None
                     /\ release[t].pc # "idle" => release[t].url # None
  /\ \A r \in Request : request[r].pc # "idle" => request[r].url # None

OpenIsHeld == Open \subseteq sources \cup closing

UnmadeIsUnknown ==
  \A s \in Source : state[s] = "none" =>
    /\ s \notin sources \cup closing /\ script.makes # s /\ taskRefs[s] = 0
    /\ \A t \in Task : lease[t] # s /\ sync[t].url # s /\ release[t].url # s

LeasesCovered == \A s \in Open : taskRefs[s] >= Owing(s)

IInv ==
  /\ TypeOK
  /\ CallsHaveSource
  /\ OpenIsHeld
  /\ UnmadeIsUnknown
  /\ RefsMatchHolders
  /\ LeasesCovered
  /\ LeasesCounted
  /\ LeaseKeepsSource
  /\ UnclaimedIsTimed
=============================================================================
