---------------------------- MODULE RangeFetcher ----------------------------
(***************************************************************************)
(* The HTTP fetcher in range mode (internal/protocol/http/fetcher.go): the *)
(* response of Resolve prefetching into a temporary file, downloadLoop     *)
(* with its slow-start controller, one worker goroutine per connection,    *)
(* completion, Pause, Start after a pause or an error, snapshots and       *)
(* process restarts.                                                       *)
(*                                                                         *)
(* What a connection downloads is the business of RangeChunks; here every  *)
(* change of a chunk has its place in the code that makes it.  The size is *)
(* known and the server keeps honouring Range: the sequential mode a 200   *)
(* response falls back to is not part of this module, except the takeover  *)
(* by the complete Resolve response.                                       *)
(***************************************************************************)
EXTENDS Chunks, FiniteSets

CONSTANTS MaxConns,  \* OptsExtra.Connections
          Budgets    \* what the environment may do in one behaviour

\* The failures a connection, the disk or the Resolve response may meet: a
\* network error, a status that is retried without being counted, one that is
\* counted, 403, a malformed response, a failed write, a broken prefetch.
FaultKind == {"net", "exempt", "counted", "forbidden", "terminal", "disk", "prefetch"}

\* Which failures, and how many; how many pauses and process deaths; and how
\* many bytes the Resolve response may deliver before Start; whether Start may
\* come between its last byte and its end; how often a connection is so slow that
\* another one helps it.
Budget == [kinds : SUBSET FaultKind, faults : Nat, pauses : Nat, restarts : Nat,
           prefix : 0 .. Size, early : BOOLEAN, help : {"no", "once", "always"}]

ASSUME MaxConnsAssumption == MaxConns \in Nat \ {0}
ASSUME BudgetsAssumption == Budgets \subseteq Budget

Conn == 0 .. MaxConns - 1
Primary == 0

VARIABLES
  state,    \* f.state
  loop,     \* where downloadLoop is
  toSplit,  \* connections the current expansion may still launch
  batch,    \* connections it has appended and not launched yet
  ss,       \* slowStartController; signal is expansionCh
  live,     \* f.connections
  conn,     \* their worker, State, failed, retryTimes, lastErr and Downloaded
  chunk,    \* their Chunk
  flight,   \* bytes between the two critical sections of a read
  put,      \* WriteAt of these bytes has returned
  written,  \* offsets of the target file that hold their content
  pre,      \* prefetchSize: bytes of Resolve's response in the temporary file
  preDone,  \* prefetchDone
  fallback, \* resolveFallback
  dataPos,  \* resolveDataPos
  range,    \* Res.Range
  doneCh,   \* the result buffered for Wait
  cancelled,\* f.ctx is cancelled: Pause is waiting
  saved,    \* the snapshot in bucketSave
  budget    \* what is left of the environment's budget

loopVars  == <<state, loop, toSplit, batch, live, doneCh, cancelled>>
preVars   == <<pre, preDone, fallback, dataPos, range>>
vars == <<loopVars, ss, conn, chunk, flight, put, written, preVars, saved, budget>>

-----------------------------------------------------------------------------

States == {"resolved", "slowStart", "steady", "paused", "done", "error"}
Worker == [pc : {"none", "request", "body", "fallback", "help", "sleep", "exit"},
           st : {"notStarted", "connecting", "downloading", "completed", "failed"},
           failed : BOOLEAN,
           retry : 0 .. 3,
           err : {"none", "net", "exempt", "counted", "forbidden", "terminal"},
           total : Nat]

NoWorker == [pc |-> "none", st |-> "notStarted", failed |-> FALSE, retry |-> 0,
             err |-> "none", total |-> 0]

TypeOK ==
  /\ state \in States
  /\ loop \in {"none", "start", "select", "split", "launch", "wait"}
  /\ toSplit \in 0 .. MaxConns
  /\ live \subseteq Conn /\ batch \subseteq live
  /\ ss \in [launched : Nat, pending : 0 .. MaxConns, ready : Nat,
             next : 1 .. MaxConns, signal : BOOLEAN]
  /\ conn \in [Conn -> Worker]
  /\ chunk \in [Conn -> Chunk]
  /\ flight \in [Conn -> 0 .. Buf]
  /\ put \in [Conn -> BOOLEAN]
  /\ written \subseteq Byte
  /\ {pre, dataPos} \subseteq 0 .. Size
  /\ {preDone, fallback, range, cancelled} \subseteq BOOLEAN
  /\ doneCh \in {"empty", "ok", "err"}
  /\ saved \in [live : SUBSET Conn, chunk : [Conn -> Chunk],
                total : [Conn -> Nat], completed : SUBSET Conn,
                range : BOOLEAN]
  /\ budget \in Budget

-----------------------------------------------------------------------------
(* The slow-start controller.  Its methods run under its own mutex.        *)

NewSlowStart == [launched |-> 0, pending |-> 0, ready |-> 0, next |-> 1,
                 signal |-> FALSE]

\* Mutant: waits for one connection more than the batch has.
onConnectSuccessLate(s) ==
  [s EXCEPT !.ready = @ + 1,
            !.signal = @ \/ s.ready + 1 > s.pending]

onConnectSuccess(s) ==
  [s EXCEPT !.ready = @ + 1,
            !.signal = @ \/ s.ready + 1 >= s.pending]

\* Mutant: a connection that fails twice is taken out of the batch twice.
onConnectFailedTwice(s) ==
  [s EXCEPT !.pending = @ - 1, !.signal = @ \/ s.pending - 1 = 0]

\* Mutant: nobody is told when the last one of a batch has failed.
onConnectFailedQuietly(s) ==
  [s EXCEPT !.pending = IF @ > 0 THEN @ - 1 ELSE 0]

onConnectFailed(s) ==
  LET p == IF s.pending > 0 THEN s.pending - 1 ELSE 0
  IN  [s EXCEPT !.pending = p, !.signal = @ \/ p = 0]

getNextBatchSize(s) ==
  IF s.launched >= MaxConns THEN 0
  ELSE SmallerOf(s.next, MaxConns - s.launched)

commitBatch(s, count) ==
  [s EXCEPT !.launched = @ + count,
            !.next = IF @ = 1 THEN SmallerOf(2, MaxConns)
                     ELSE IF @ > MaxConns \div @ THEN MaxConns ELSE @ * @,
            !.pending = count,
            !.ready = 0]

-----------------------------------------------------------------------------
(* Sums over the connections and completion.                               *)

\* The sum of f over connections, as the size of a set with f[c] elements for each c.
Sum(S, f) == Cardinality(UNION {{c} \X (1 .. f[c]) : c \in S})

totalDownloaded == Sum(live, [c \in Conn |-> conn[c].total])

needsMoreData(c) ==
  IF range THEN remain(chunk[c]) > 0 ELSE conn[c].total < Size

\* checkCompletion: everything downloaded, or no connection left to wait for.
checkCompletion ==
  \/ totalDownloaded >= Size
  \/ \A c \in live : conn[c].st \in {"completed", "failed"}

downloadComplete == totalDownloaded >= Size

\* onDownloadComplete skips a connection that was refused with 403.
allChunksComplete ==
  \A c \in live :
    \/ ~needsMoreData(c)
    \/ conn[c].st = "completed"
    \/ conn[c].st = "failed" /\ conn[c].failed /\ conn[c].err = "forbidden"

finalErr ==
  \/ \E c \in live : conn[c].st = "failed" /\ conn[c].failed /\ conn[c].err = "terminal"
  \/ /\ ~downloadComplete /\ ~allChunksComplete
     /\ \E c \in live :
          conn[c].st = "failed" /\ conn[c].failed /\ conn[c].err # "forbidden"

-----------------------------------------------------------------------------

Init ==
  /\ state = "resolved" /\ loop = "none" /\ toSplit = 0 /\ batch = {}
  /\ ss = NewSlowStart
  /\ live = {}
  /\ conn = [c \in Conn |-> NoWorker]
  /\ chunk = [c \in Conn |-> NoChunk]
  /\ flight = [c \in Conn |-> 0]
  /\ put = [c \in Conn |-> FALSE]
  /\ written = {}
  /\ pre = 0 /\ preDone = FALSE
  /\ fallback = TRUE /\ dataPos = 0 /\ range = TRUE
  /\ doneCh = "empty" /\ cancelled = FALSE
  /\ saved = [live |-> {}, chunk |-> chunk, total |-> [c \in Conn |-> 0],
              completed |-> {}, range |-> TRUE]
  /\ budget \in Budgets

Fault(kind) ==
  /\ kind \in budget.kinds /\ budget.faults > 0
  /\ budget' = [budget EXCEPT !.faults = @ - 1]

-----------------------------------------------------------------------------
(* asyncPrefetch.                                                          *)

PrefetchRead ==
  /\ ~preDone /\ pre < Size
  /\ state = "resolved" => pre < budget.prefix
  /\ pre' = pre + 1
  /\ UNCHANGED <<loopVars, ss, conn, chunk, flight, put, written, preDone,
                 fallback, dataPos, range, saved, budget>>

\* The response is read to its end, it breaks, or the stop signal is seen.
PrefetchEnds ==
  /\ ~preDone
  /\ \/ (pre = Size \/ cancelled) /\ UNCHANGED budget
     \/ pre < Size /\ Fault("prefetch")
  /\ preDone' = TRUE
  /\ UNCHANGED <<loopVars, ss, conn, chunk, flight, put, written, pre,
                 fallback, dataPos, range, saved>>

\* stopPrefetchAndCopyData: the prefix goes to the target file, the temporary
\* file is removed and its count reset.
CopyPrefix ==
  /\ written' = written \cup (0 .. pre - 1)
  /\ pre' = 0 /\ preDone' = TRUE /\ fallback' = FALSE

-----------------------------------------------------------------------------
(* Start and downloadLoop.                                                 *)

\* Start drains the result of a cycle that was paused or failed.
DrainedDoneCh == IF state \in {"paused", "error"} THEN "empty" ELSE doneCh

\* doStart.  A live Resolve response stays the fallback until the first range
\* response takes over; a finished or already stopped one is copied now.
Start ==
  /\ loop = "none" /\ ~cancelled
  /\ state \in {"resolved", "paused", "error"}
  /\ preDone \/ pre < Size \/ budget.early
  /\ doneCh' = DrainedDoneCh
  /\ conn' = IF state # "error" THEN conn
             ELSE [c \in Conn |->
                     IF c \notin live \/ conn[c].st = "completed" THEN conn[c]
                     ELSE [conn[c] EXCEPT !.st = "notStarted", !.failed = FALSE,
                                          !.retry = 0, !.err = "none"]]
  /\ dataPos' = IF range THEN pre ELSE dataPos
  /\ IF range /\ ~(fallback /\ ~(preDone /\ pre = Size))
     THEN CopyPrefix
     ELSE UNCHANGED <<written, pre, preDone, fallback>>
  /\ ss' = NewSlowStart
  /\ state' = "slowStart" /\ loop' = "start"
  /\ UNCHANGED <<toSplit, batch, live, cancelled, chunk, flight, put, range,
                 saved, budget>>

\* Launch a worker: go runConnection(conn).
Launched(w) == [w EXCEPT !.pc = "request", !.st = "connecting", !.failed = FALSE,
                         !.retry = 0]

\* Fresh start with everything prefetched: done without a connection.
LoopAlreadyDone ==
  /\ loop = "start" /\ live = {} /\ dataPos = Size
  /\ doneCh = "empty" /\ doneCh' = "ok"
  /\ state' = "done" /\ loop' = "none"
  /\ UNCHANGED <<toSplit, batch, live, cancelled, ss, conn, chunk, flight, put,
                 written, preVars, saved, budget>>

\* Fresh start: one connection for everything after the prefix.
LoopOpens ==
  /\ loop = "start" /\ live = {} /\ dataPos < Size
  /\ live' = {Primary}
  /\ chunk' = [chunk EXCEPT ![Primary] = NewChunk(dataPos, Size - 1)]
  /\ conn' = [conn EXCEPT ![Primary] = Launched([NoWorker EXCEPT !.total = dataPos])]
  /\ ss' = commitBatch(ss, 1)
  /\ loop' = "select"
  /\ UNCHANGED <<state, toSplit, batch, doneCh, cancelled, flight, put, written,
                 preVars, saved, budget>>

\* resumeConnections skips what is complete, refused or out of retries, and
\* the loop goes straight to waiting: a resumed download is not expanded.
LoopResumes ==
  /\ loop = "start" /\ live # {}
  /\ conn' = [c \in Conn |->
                IF \/ c \notin live \/ conn[c].st = "completed"
                   \/ /\ conn[c].st = "failed" /\ conn[c].failed
                      /\ conn[c].err = "forbidden" \/ conn[c].retry = 3
                THEN conn[c] ELSE Launched(conn[c])]
  /\ loop' = "wait"
  /\ UNCHANGED <<state, toSplit, batch, live, doneCh, cancelled, ss, chunk, flight,
                 put, written, preVars, saved, budget>>

\* The expansion signal.
LoopExpands ==
  /\ loop = "select" /\ ss.signal
  /\ ss' = [ss EXCEPT !.signal = FALSE]
  /\ LET n == getNextBatchSize(ss)
     IN  \/ /\ ~range
            /\ loop' = IF conn[Primary].pc = "exit" THEN "wait" ELSE "select"
            /\ UNCHANGED <<state, toSplit>>
         \/ /\ range /\ checkCompletion
            /\ loop' = "wait"
            /\ UNCHANGED <<state, toSplit>>
         \/ /\ range /\ ~checkCompletion /\ n = 0
            /\ state' = "steady" /\ loop' = "wait"
            /\ UNCHANGED toSplit
         \/ /\ range /\ ~checkCompletion /\ n > 0
            /\ toSplit' = n /\ loop' = "split"
            /\ UNCHANGED state
  /\ UNCHANGED <<batch, live, doneCh, cancelled, conn, chunk, flight, put, written,
                 preVars, saved, budget>>

LoopCancelled ==
  /\ loop = "select" /\ cancelled
  /\ loop' = "none"
  /\ UNCHANGED <<state, toSplit, batch, live, doneCh, cancelled, ss, conn, chunk,
                 flight, put, written, preVars, saved, budget>>

Splittable ==
  {c \in live : /\ conn[c].st \notin {"completed", "failed"}
                /\ remain(chunk[c]) > 2 * MinSteal}

\* The first connection with the most work left.
IsMaxRemainConn(c) ==
  /\ c \in Splittable
  /\ \A d \in Splittable : \/ remain(chunk[c]) > remain(chunk[d])
                           \/ remain(chunk[c]) = remain(chunk[d]) /\ c <= d

\* One turn of the loop of expandConnections, which holds connMu throughout.
LoopSplits ==
  /\ loop = "split" /\ toSplit > 0
  /\ LET n == Cardinality(live)
     IN  /\ \E v \in live : IsMaxRemainConn(v) /\ chunk' = SplitChunks(chunk, v, n)
         /\ live' = live \cup {n} /\ batch' = batch \cup {n}
         /\ conn' = [conn EXCEPT ![n] = NoWorker]
  /\ toSplit' = toSplit - 1
  /\ UNCHANGED <<state, loop, doneCh, cancelled, ss, flight, put, written, preVars,
                 saved, budget>>

LoopUnlocks ==
  /\ loop = "split" /\ (toSplit = 0 \/ Splittable = {})
  /\ toSplit' = 0
  /\ IF batch = {} THEN state' = "steady" /\ loop' = "wait"
                   ELSE loop' = "launch" /\ UNCHANGED state
  /\ UNCHANGED <<batch, live, doneCh, cancelled, ss, conn, chunk, flight, put,
                 written, preVars, saved, budget>>

LoopLaunches ==
  /\ loop = "launch"
  /\ ss' = commitBatch(ss, Cardinality(batch))
  /\ conn' = [c \in Conn |-> IF c \in batch THEN Launched(conn[c]) ELSE conn[c]]
  /\ batch' = {} /\ loop' = "select"
  /\ UNCHANGED <<state, toSplit, live, doneCh, cancelled, chunk, flight, put,
                 written, preVars, saved, budget>>

WorkersGone == \A c \in live : conn[c].pc \in {"none", "exit"}

\* waitForCompletion and onDownloadComplete.
LoopCompletes ==
  /\ loop = "wait" /\ WorkersGone
  /\ loop' = "none"
  /\ IF cancelled
     THEN UNCHANGED <<state, doneCh>>
     ELSE /\ state' = IF finalErr THEN "error" ELSE "done"
          /\ doneCh' = IF doneCh # "empty" THEN doneCh
                       ELSE IF finalErr THEN "err" ELSE "ok"
  /\ UNCHANGED <<toSplit, batch, live, cancelled, ss, conn, chunk, flight, put,
                 written, preVars, saved, budget>>

\* The watching goroutine of the downloader receives the result.
WaitReturns ==
  /\ doneCh # "empty" /\ doneCh' = "empty"
  /\ UNCHANGED <<state, loop, toSplit, batch, live, cancelled, ss, conn, chunk,
                 flight, put, written, preVars, saved, budget>>

-----------------------------------------------------------------------------
(* runConnection and downloadChunkOnce, for connection c.                  *)

\* connMu can be taken: no expansion is in its loop.
connMuFree == loop # "split"

Become(c, w) == conn' = [conn EXCEPT ![c] = w]

\* Mutant: a request under way does not notice that its context is cancelled.
CancelledReading(c) ==
  /\ cancelled /\ conn[c].pc = "body" /\ flight[c] = 0
  /\ Become(c, [conn[c] EXCEPT !.pc = "exit"])
  /\ UNCHANGED <<loopVars, ss, chunk, flight, put, written, preVars, saved, budget>>

Cancelled(c) ==
  /\ cancelled /\ conn[c].pc \in {"request", "body"} /\ flight[c] = 0
  /\ Become(c, [conn[c] EXCEPT !.pc = "exit"])
  /\ UNCHANGED <<loopVars, ss, chunk, flight, put, written, preVars, saved, budget>>

\* A chunk that others emptied, or that was complete when its body broke.
NothingLeft(c) ==
  /\ connMuFree
  /\ conn[c].pc \in {"request", "body"} /\ flight[c] = 0
  /\ remain(chunk[c]) <= 0
  /\ Become(c, [conn[c] EXCEPT !.pc = "help"])
  /\ UNCHANGED <<loopVars, ss, chunk, flight, put, written, preVars, saved, budget>>

\* How far the prefix reaches into the chunk its takeover belongs to.
Overlap(c) == pre - Offset(chunk[c])

\* What the primary has downloaded once it took over: all of the prefix.
TakenOver == pre

\* A valid 206.  The first one of the primary takes over from Resolve: the
\* prefix is copied and what overlaps it is discarded from this response.  (An
\* answer that races with Pause counts as one that came before it.)
ResponseOk(c) ==
  /\ connMuFree /\ ~cancelled
  /\ conn[c].pc = "request" /\ remain(chunk[c]) > 0
  /\ LET takeover == c = Primary /\ fallback
         ready == [conn[c] EXCEPT !.pc = "body", !.st = "downloading", !.failed = FALSE]
     IN  IF takeover
         THEN /\ CopyPrefix
              /\ dataPos' = pre
              /\ chunk' = [chunk EXCEPT ![c].dl = Overlap(c)]
              /\ Become(c, [ready EXCEPT !.total = TakenOver])
         ELSE /\ Become(c, ready)
              /\ UNCHANGED <<chunk, written, pre, preDone, fallback, dataPos>>
  /\ ss' = onConnectSuccess(ss)
  /\ UNCHANGED <<loopVars, flight, put, range, saved, budget>>

\* What runConnection does with an error it does not recover from.
Failed(c, kind) ==
  LET w == [conn[c] EXCEPT !.st = "failed", !.err = kind]
  IN  CASE kind \in {"net", "exempt"} ->
             Become(c, [w EXCEPT !.pc = "sleep"]) /\ UNCHANGED ss
        [] kind = "counted" ->
             /\ Become(c, [w EXCEPT !.failed = TRUE, !.retry = @ + 1,
                                    !.pc = IF w.retry = 2 THEN "exit" ELSE "sleep"])
             /\ ss' = onConnectFailed(ss)
        [] kind \in {"forbidden", "terminal"} ->
             /\ Become(c, [w EXCEPT !.failed = TRUE, !.pc = "exit"])
             /\ ss' = onConnectFailed(ss)

\* The request of c fails with an error of this kind.  The primary keeps the
\* Resolve response as its way out, except from an overload status.
RequestFails(c, kind) ==
  /\ ~cancelled /\ conn[c].pc = "request" /\ remain(chunk[c]) > 0
  /\ kind \in {"net", "exempt", "counted", "forbidden", "terminal"} /\ Fault(kind)
  /\ IF kind # "exempt" /\ c = Primary /\ fallback
     THEN /\ fallback' = FALSE
          /\ Become(c, [conn[c] EXCEPT !.pc = "fallback", !.err = kind])
          /\ UNCHANGED ss
     ELSE Failed(c, kind) /\ UNCHANGED fallback
  /\ UNCHANGED <<loopVars, chunk, flight, put, written, pre, preDone, dataPos,
                 range, saved>>

\* Mutant: the failure of the request is reported although the fallback worked.
FallbackStillFails(c) ==
  /\ conn[c].pc = "fallback" /\ preDone /\ pre = Size
  /\ written' = written \cup (0 .. pre - 1)
  /\ pre' = 0 /\ dataPos' = pre /\ range' = FALSE
  /\ chunk' = [chunk EXCEPT ![c] = [begin |-> 0, end |-> pre - 1, dl |-> pre]]
  /\ Become(c, [conn[c] EXCEPT !.pc = "exit", !.st = "failed", !.failed = TRUE])
  /\ ss' = [ss EXCEPT !.signal = TRUE]
  /\ UNCHANGED <<loopVars, flight, put, preDone, fallback, saved, budget>>

\* completeFromResolveFallback: the Resolve response was read to its end and
\* becomes the whole, sequential, download.  The loop is woken on exit.
FallbackCompletes(c) ==
  /\ conn[c].pc = "fallback" /\ preDone /\ pre = Size
  /\ written' = written \cup (0 .. pre - 1)
  /\ pre' = 0 /\ dataPos' = pre /\ range' = FALSE
  /\ chunk' = [chunk EXCEPT ![c] = [begin |-> 0, end |-> pre - 1, dl |-> pre]]
  /\ Become(c, [conn[c] EXCEPT !.pc = "exit", !.st = "completed", !.failed = FALSE,
                               !.err = "none", !.total = pre])
  /\ ss' = [ss EXCEPT !.signal = TRUE]
  /\ UNCHANGED <<loopVars, flight, put, preDone, fallback, saved, budget>>

\* It broke before its end: the temporary file is dropped, and the error of
\* the request is handled after all.
FallbackFails(c) ==
  /\ conn[c].pc = "fallback" /\ preDone /\ pre < Size
  /\ pre' = 0
  /\ Failed(c, conn[c].err)
  /\ UNCHANGED <<loopVars, chunk, flight, put, written, preDone, fallback, dataPos,
                 range, saved, budget>>

FallbackCancelled(c) ==
  /\ conn[c].pc = "fallback" /\ ~preDone /\ cancelled
  /\ Failed(c, conn[c].err)
  /\ UNCHANGED <<loopVars, chunk, flight, put, written, preVars, saved, budget>>

\* time.Sleep(retryDelay) is over.
WakeUp(c) ==
  /\ conn[c].pc = "sleep"
  /\ Become(c, [conn[c] EXCEPT !.pc = "request"])
  /\ UNCHANGED <<loopVars, ss, chunk, flight, put, written, preVars, saved, budget>>

\* A read returned n bytes; under connMu they are clipped to the chunk.
Claim(c, n) ==
  /\ connMuFree
  /\ conn[c].pc = "body" /\ flight[c] = 0 /\ remain(chunk[c]) > 0
  /\ flight' = [flight EXCEPT ![c] = SmallerOf(n, remain(chunk[c]))]
  /\ UNCHANGED <<loopVars, ss, conn, chunk, put, written, preVars, saved, budget>>

InFlight(c) == Offset(chunk[c]) .. Offset(chunk[c]) + flight[c] - 1

\* WriteAt needs only fileMu.
Put(c) ==
  /\ flight[c] > 0 /\ ~put[c]
  /\ written' = written \cup InFlight(c)
  /\ put' = [put EXCEPT ![c] = TRUE]
  /\ UNCHANGED <<loopVars, ss, conn, chunk, flight, preVars, saved, budget>>

\* WriteAt stores k of the bytes and fails.
PutFails(c, k) ==
  /\ k < flight[c] /\ ~put[c] /\ Fault("disk")
  /\ written' = written \cup (Offset(chunk[c]) .. Offset(chunk[c]) + k - 1)
  /\ flight' = [flight EXCEPT ![c] = 0]
  /\ Failed(c, "net")
  /\ UNCHANGED <<loopVars, chunk, put, preVars, saved>>

\* Back under connMu: Chunk.Downloaded and connection.Downloaded.
Count(c) ==
  /\ connMuFree /\ put[c]
  /\ chunk' = [chunk EXCEPT ![c].dl = @ + flight[c]]
  /\ Become(c, [conn[c] EXCEPT !.total = @ + flight[c]])
  /\ flight' = [flight EXCEPT ![c] = 0]
  /\ put' = [put EXCEPT ![c] = FALSE]
  /\ UNCHANGED <<loopVars, ss, written, preVars, saved, budget>>

\* The body breaks, or ends before its announced length.
BodyBreaks(c) ==
  /\ conn[c].pc = "body" /\ flight[c] = 0 /\ remain(chunk[c]) > 0
  /\ Fault("net")
  /\ Failed(c, "net")
  /\ UNCHANGED <<loopVars, chunk, flight, put, written, preVars, saved>>

\* Another connection is much slower than the one that looks for work.
Slow ==
  /\ budget.help # "no"
  /\ budget' = IF budget.help = "once" THEN [budget EXCEPT !.help = "no"] ELSE budget

\* Mutant: any chunk that is not exhausted is worth stealing from.
HelpsAny(c, v) ==
  /\ connMuFree /\ conn[c].pc = "help" /\ range /\ Slow
  /\ v \in live \ {c} /\ conn[v].st \notin {"completed", "failed"}
  /\ remain(chunk[v]) > 0
  /\ chunk' = StealChunks(chunk, c, v)
  /\ Become(c, [conn[c] EXCEPT !.pc = "request", !.retry = 0])
  /\ UNCHANGED <<loopVars, ss, flight, put, written, preVars, saved>>

\* helpOtherConnection found connection v slow enough; which one that is
\* depends on speeds the model does not keep.
Helps(c, v) ==
  /\ connMuFree /\ conn[c].pc = "help" /\ range /\ Slow
  /\ v \in live \ {c} /\ conn[v].st \notin {"completed", "failed"}
  /\ remain(chunk[v]) >= MinSteal
  /\ chunk' = StealChunks(chunk, c, v)
  /\ Become(c, [conn[c] EXCEPT !.pc = "request", !.retry = 0])
  /\ UNCHANGED <<loopVars, ss, flight, put, written, preVars, saved>>

\* Nobody needs help: the connection is complete and its goroutine exits.
Completes(c) ==
  /\ connMuFree /\ conn[c].pc = "help"
  /\ Become(c, [conn[c] EXCEPT !.pc = "exit", !.st = "completed"])
  /\ UNCHANGED <<loopVars, ss, chunk, flight, put, written, preVars, saved, budget>>

-----------------------------------------------------------------------------
(* Pause, snapshots and restarts.                                          *)

\* Pause cancels the contexts and the prefetch, then waits.
PauseBegins ==
  /\ ~cancelled /\ state # "paused" /\ budget.pauses > 0
  /\ cancelled' = TRUE
  /\ budget' = [budget EXCEPT !.pauses = @ - 1]
  /\ UNCHANGED <<state, loop, toSplit, batch, live, doneCh, ss, conn, chunk, flight,
                 put, written, preVars, saved>>

\* The prefix Pause copies, if Start opened a target file.
PauseCopies == IF range /\ state \in {"slowStart", "steady"} THEN 0 .. pre - 1 ELSE {}

\* Loop, connections and prefetch have ended.  A prefix still in its temporary
\* file goes to the target file, if Start opened one, and a primary that is
\* still alone continues after it.
PauseEnds ==
  /\ cancelled /\ loop = "none" /\ WorkersGone /\ preDone
  /\ written' = written \cup PauseCopies
  /\ IF range /\ pre > 0 /\ live = {Primary} /\ conn[Primary].st # "completed"
     THEN /\ chunk' = [chunk EXCEPT ![Primary] = NewChunk(pre, Size - 1)]
          /\ Become(Primary, [conn[Primary] EXCEPT !.total = pre])
     ELSE UNCHANGED <<chunk, conn>>
  /\ dataPos' = IF range /\ pre > 0 THEN pre ELSE dataPos
  /\ pre' = 0 /\ fallback' = FALSE
  /\ state' = "paused" /\ cancelled' = FALSE
  /\ UNCHANGED <<loop, toSplit, batch, live, doneCh, ss, flight, put, preDone, range,
                 saved, budget>>

\* Mutant: the snapshot counts bytes that have not reached the file.
SnapshotChunksEarly == [c \in Conn |-> [chunk[c] EXCEPT !.dl = @ + flight[c]]]

SnapshotChunks == chunk

\* saveTask: Store copies the connections and Res.Range under connMu.  A
\* snapshot nobody will read again is not worth its states.
Save ==
  /\ connMuFree /\ budget.restarts > 0
  /\ saved' = [live |-> live, chunk |-> SnapshotChunks, range |-> range,
               total |-> [c \in Conn |-> conn[c].total],
               completed |-> {c \in live : conn[c].st = "completed"}]
  /\ UNCHANGED <<loopVars, ss, conn, chunk, flight, put, written, preVars, budget>>

\* The process dies and the task is restored: the target file and the
\* snapshot survive, the temporary file and everything in memory do not.
Restart ==
  /\ budget.restarts > 0
  /\ budget' = [budget EXCEPT !.restarts = @ - 1]
  /\ state' = "resolved" /\ loop' = "none" /\ toSplit' = 0 /\ batch' = {}
  /\ doneCh' = "empty" /\ cancelled' = FALSE
  /\ ss' = NewSlowStart
  /\ live' = saved.live /\ chunk' = saved.chunk /\ range' = saved.range
  /\ conn' = [c \in Conn |->
                [NoWorker EXCEPT !.total = saved.total[c],
                   !.st = IF c \in saved.completed THEN "completed" ELSE "notStarted"]]
  /\ flight' = [c \in Conn |-> 0] /\ put' = [c \in Conn |-> FALSE]
  /\ pre' = 0 /\ preDone' = TRUE /\ fallback' = FALSE /\ dataPos' = 0
  /\ UNCHANGED <<written, saved>>

-----------------------------------------------------------------------------

Loop ==
  \/ LoopAlreadyDone \/ LoopOpens \/ LoopResumes \/ LoopExpands \/ LoopCancelled
  \/ LoopSplits \/ LoopUnlocks \/ LoopLaunches \/ LoopCompletes

\* The steps of connection c that no failure causes.
Work(c) ==
  \/ Cancelled(c) \/ NothingLeft(c) \/ ResponseOk(c)
  \/ FallbackCompletes(c) \/ FallbackFails(c) \/ FallbackCancelled(c)
  \/ WakeUp(c) \/ (\E n \in 1 .. Buf : Claim(c, n)) \/ Put(c) \/ Count(c)
  \/ (\E v \in Conn : Helps(c, v)) \/ Completes(c)

Fails(c) ==
  \/ \E kind \in FaultKind : RequestFails(c, kind)
  \/ \E k \in 0 .. Buf : PutFails(c, k)
  \/ BodyBreaks(c)

Next ==
  \/ PrefetchRead \/ PrefetchEnds
  \/ Start \/ Loop \/ WaitReturns
  \/ \E c \in Conn : Work(c) \/ Fails(c)
  \/ PauseBegins \/ PauseEnds \/ Save \/ Restart

Spec == Init /\ [][Next]_vars

\* The goroutines run: the loop, every connection, the prefetch and a pause
\* that waits for them.  Nothing makes a user call Start.
Fairness ==
  /\ WF_vars(Loop) /\ WF_vars(PauseEnds)
  /\ WF_vars(PrefetchRead) /\ WF_vars(PrefetchEnds)
  /\ \A c \in Conn : WF_vars(Work(c))

FairSpec == Spec /\ Fairness

-----------------------------------------------------------------------------

\* A download reported as done is whole: every byte of the resource is in the
\* target file, whatever was split, stolen, retried, paused or restarted.
DoneMeansWhole == state = "done" => written = Byte

\* An error is never reported for a file no connection has anything left to
\* fetch of; only a malformed response may condemn one.
ErrorMeansUnfinished ==
  state = "error" =>
    \E c \in live : remain(chunk[c]) > 0 \/ conn[c].err = "terminal"

\* The progress counters of the connections, which decide about completion,
\* agree with their chunks: every byte is counted once, as downloaded or as
\* remaining, also after steals, takeovers, pauses and restores.
CountersMatchChunks ==
  live # {} => totalDownloaded + Sum(live, [c \in Conn |-> remain(chunk[c])]) = Size

\* The Resolve response can be taken over only as long as the primary is alone:
\* a takeover never overwrites a chunk that was already split.
TakeoverIsAlone ==
  (fallback \/ \E c \in live : conn[c].pc = "fallback") => live \subseteq {Primary}

\* A download cycle never starts with the result of an earlier one in doneCh,
\* which would end the new cycle's Wait at once.
OwnResult == loop # "none" => doneCh = "empty"

\* What the fetcher keeps about itself is true at every moment: an error is about bytes
\* that are missing, counters agree with chunks, a takeover finds the table it was made
\* for, and the buffered result is that of this cycle.
FetcherIsConsistent ==
  ErrorMeansUnfinished /\ CountersMatchChunks /\ TakeoverIsAlone /\ OwnResult

\* All goroutines have gone and the loop waits for a signal: of its last batch one member
\* was refused after another one had its response, and onConnectFailed, which looks for
\* zero, has told nobody.
LastOneRefused ==
  /\ loop = "select" /\ ~ss.signal /\ WorkersGone
  /\ 0 < ss.pending /\ ss.pending <= ss.ready
  /\ \E c \in live : conn[c].st = "failed" /\ conn[c].failed

\* The download loop returns, whatever became of the members of its batches and in which
\* order: it waits for a signal nobody will send only after the one failure for which
\* the code has none (onConnectSuccess, onConnectFailed, downloadLoop).
LoopEnds == (loop # "none") ~> (loop = "none" \/ LastOneRefused)

\* Pause returns.
PauseReturns == cancelled ~> ~cancelled

-----------------------------------------------------------------------------

\* A prefix no connection is going to fetch any more counts as written while
\* the temporary file still holds it.
Prefix ==
  IF pre > 0 /\ live = {Primary} THEN 0 .. chunk[Primary].begin - 1 ELSE {}

RC == INSTANCE RangeChunks WITH
        Conn <- Conn, Primary <- Primary,
        written <- written \cup Prefix,
        saved <- [live |-> saved.live, chunk |-> saved.chunk]

\* The fetcher moves bytes between connections only as RangeChunks allows, so
\* what is proved of RangeChunks holds of it.
ImplementsRangeChunks == RC!Spec
-----------------------------------------------------------------------------

\* What makes the properties inductive.

\* A budget under which no byte is lost: of a prefix in the temporary file, no death, and
\* no failure or interruption of the fallback, takes what the chunks leave out.
KeepsPrefix(b) ==
  b.prefix > 0 =>
    /\ b.restarts = 0 /\ "prefetch" \notin b.kinds
    /\ b.kinds \subseteq {"exempt", "disk"} \/ b.pauses = 0

\* And one under which done is reported of nothing but a whole file.
KeepsDone(b) == KeepsPrefix(b) /\ ~b.early /\ "forbidden" \notin b.kinds

\* Connections are numbered as they are appended, and a batch fits in what is left.
InOrder(lv) == \A c \in Conn : c \in lv <=> c < Cardinality(lv)

Expanding == loop \in {"select", "split", "launch"}

ConnsInOrder ==
  /\ InOrder(live) /\ InOrder(saved.live)
  /\ loop \notin {"none", "start"} => live # {}
  /\ batch # {} => loop \in {"split", "launch"}
  /\ Expanding => ss.launched + Cardinality(batch) = Cardinality(live)
  /\ loop = "split" => Cardinality(live) + toSplit <= MaxConns

\* A worker belongs to a launched connection, and only one that reads has bytes in flight.
Active(c) == conn[c].pc \notin {"none", "exit"}

WorkersAreSound ==
  /\ \A c \in Conn : Active(c) => c \in live \ batch /\ conn[c].retry < 3
  /\ \A c \in batch : conn[c].st = "notStarted"
  /\ \A c \in Conn : flight[c] > 0 => conn[c].pc = "body"
  /\ \A c \in live : conn[c].pc = "help" \/ conn[c].st = "completed" => remain(chunk[c]) = 0
  /\ \A c \in live : conn[c].st = "completed" => ~Active(c)
  /\ \A c \in Conn : conn[c].pc = "fallback" =>
       c = Primary /\ conn[c].err \in {"net", "counted", "forbidden", "terminal"}
  /\ saved.completed \subseteq saved.live
  /\ \A c \in saved.completed : remain(saved.chunk[c]) = 0

\* At rest nobody works; the loop has not ended otherwise unless Pause waits for it.
Resting == state \in {"resolved", "paused", "done", "error"}

LoopIsSound ==
  /\ Resting => loop = "none"
  /\ loop = "none" => Resting \/ cancelled
  /\ Resting \/ loop = "start" => WorkersGone
  /\ loop = "start" => state = "slowStart" /\ ss = NewSlowStart
  /\ state = "resolved" => doneCh = "empty"

\* While the loop runs and nobody has cancelled it, a worker goes only when its chunk is
\* exhausted or it has failed for good.
GoneIsOver ==
  loop \notin {"none", "start"} /\ ~cancelled =>
    \A c \in live \ batch :
      \/ Active(c)
      \/ conn[c].st = "completed"
      \/ conn[c].st = "failed" /\ conn[c].failed

\* Whoever became the whole, sequential, download is the only connection, and complete.
RangeIsKept ==
  /\ ~range => /\ live = {Primary} /\ conn[Primary].st = "completed"
               /\ conn[Primary].total = Size
  /\ ~saved.range => /\ saved.live = {Primary} /\ Primary \in saved.completed
                     /\ saved.total[Primary] = Size

\* The response of Resolve is still there, or a prefix nobody has copied, or the primary
\* is about to ask for it.
Held == fallback \/ ~preDone \/ pre > 0 \/ conn[Primary].pc = "fallback"

\* Then the primary is alone and has fetched nothing: it waits for its first answer, takes
\* the fallback, or has given up under a Pause; and the loop has had no signal before that.
PrimaryWaits ==
  /\ live = {Primary} /\ range /\ state = "slowStart"
  /\ chunk[Primary] = NewChunk(dataPos, Size - 1) /\ dataPos < Size /\ dataPos <= pre
  /\ conn[Primary].total = dataPos /\ flight[Primary] = 0 /\ batch = {}
  /\ conn[Primary].pc \in {"request", "sleep", "fallback", "exit"}
  /\ loop \in {"select", "wait", "none"}
  /\ conn[Primary].st # "completed"
  /\ IF fallback \/ conn[Primary].pc = "fallback"
     THEN loop # "wait" /\ ~ss.signal
     ELSE cancelled /\ conn[Primary].st = "failed"
  /\ ~(fallback /\ conn[Primary].pc = "fallback")

HeldByPrimary ==
  /\ Held /\ live # {} => PrimaryWaits
  /\ state = "paused" => ~Held

\* Before there is a connection: what Start has copied is in the file.
CopiedBeforeOpen ==
  loop = "start" /\ live = {} =>
    \/ fallback /\ dataPos <= pre /\ (dataPos = Size => budget.early)
    \/ ~fallback /\ pre = 0 /\ preDone /\ 0 .. dataPos - 1 \subseteq written

\* What a budget of KeepsPrefix excludes does not happen.
PrefixIsKept ==
  /\ KeepsPrefix(budget)
  /\ budget.prefix = 0 /\ Held => dataPos = 0 /\ (state = "resolved" => pre = 0)
  /\ budget.prefix > 0 =>
       \/ budget.kinds \subseteq {"exempt", "disk"} /\ conn[Primary].pc # "fallback"
       \/ /\ ~cancelled /\ budget.pauses = 0
          /\ fallback \/ conn[Primary].pc = "fallback" => (preDone => pre = Size)

NobodyIsForbidden ==
  "forbidden" \notin budget.kinds => \A c \in Conn : conn[c].err # "forbidden"

SavedCountersMatch ==
  saved.live # {} =>
    Sum(saved.live, saved.total)
      + Sum(saved.live, [c \in Conn |-> remain(saved.chunk[c])]) = Size

FInv ==
  /\ TypeOK
  /\ ConnsInOrder
  /\ WorkersAreSound
  /\ LoopIsSound
  /\ GoneIsOver
  /\ RangeIsKept
  /\ HeldByPrimary
  /\ CopiedBeforeOpen
  /\ NobodyIsForbidden
  /\ SavedCountersMatch
  /\ FetcherIsConsistent
=============================================================================
