------------------------- MODULE SequentialFetcher -------------------------
(***************************************************************************)
(* One connection of the HTTP fetcher when the origin may not honour Range *)
(* (internal/protocol/http/fetcher.go): the response of Resolve consumed   *)
(* as it is, requests without Range, the fallback from a ranged request    *)
(* that is answered with 200, and the guarded probe (If-Range) by which a  *)
(* kept prefix returns to range mode.  Pause, retries, snapshots and the   *)
(* death of the process come between any two critical sections.            *)
(*                                                                         *)
(* The origin is external.  It serves versions of one resource; a cell of  *)
(* the target file is <<version, offset>>, so that the file shows which    *)
(* bytes of which version it holds.  Connections = 1: several connections  *)
(* are the business of RangeFetcher.                                       *)
(***************************************************************************)
EXTENDS Integers, Sequences

CONSTANTS
  Len_,    \* the length of each version, Len_ \in Seq(Nat \ {0})
  Setups   \* origin and budgets: [origin, faults, kinds, changes, starts, pauses, saves,
           \*                      crashes, settled, fresh, late]

VARIABLES
  setup,
  origin,  \* [ver, ranges, tells, validates]: what a request meets now
  state,   \* f.state: "resolved", "running", "paused", "done", "error"
  loop,    \* downloadLoop: "none", "select" (on expansionCh), "wait" (for the connection)
  signal,  \* expansionCh
  res,     \* Res.Range, Res.Size and the flags that decide how a request resumes
  conn,    \* the connection: Chunk.Downloaded (got) and how its goroutine stands
  resp,    \* the request sent and the response read
  disk,    \* the target file
  saved    \* the snapshot in bucketSave

vars == <<setup, origin, state, loop, signal, res, conn, resp, disk, saved>>

Version == 1 .. Len(Len_)
None == 0
Hole == <<0, 0>>
Whole(v) == [i \in 1 .. Len_[v] |-> <<v, i>>]

\* kind: who reads the body; probe, intentional and from as in downloadChunkOnce.
Nothing == [kind |-> "none", ver |-> None, next |-> 0, read |-> 0, tells |-> FALSE,
            expected |-> -1, ranged |-> FALSE, probe |-> FALSE, intentional |-> FALSE,
            ifRange |-> None]

NoConn == [here |-> FALSE, got |-> 0, pc |-> "gone", st |-> "notStarted", failed |-> FALSE,
           retry |-> 0, err |-> "none"]

TypeOK ==
  /\ origin \in [ver : Version, ranges : BOOLEAN, tells : BOOLEAN, validates : BOOLEAN]
  /\ state \in {"resolved", "running", "paused", "done", "error"}
  /\ loop \in {"none", "select", "wait"} /\ signal \in BOOLEAN
  /\ res \in [range : BOOLEAN, size : Nat, eligible : BOOLEAN, pinned : BOOLEAN,
              unknown : BOOLEAN, ifRange : Version \cup {None}]
  /\ conn \in [here : BOOLEAN, got : Nat, retry : 0 .. 3, failed : BOOLEAN,
               pc : {"gone", "resolve", "request", "sent", "admit", "body", "fallback",
                     "fallbackBody"},
               st : {"notStarted", "connecting", "downloading", "completed", "failed"},
               err : {"none", "net", "exempt", "counted", "forbidden", "terminal"}]
  /\ resp.ver \in Version \cup {None} /\ resp.read \in Nat
  /\ disk.there \in BOOLEAN /\ DOMAIN disk.cells = 1 .. Len(disk.cells)
  /\ saved \in [res : [range : BOOLEAN, size : Nat, eligible : BOOLEAN, pinned : BOOLEAN,
                       unknown : BOOLEAN, ifRange : Version \cup {None}],
                here : BOOLEAN, got : Nat, completed : BOOLEAN]

Spend(what) == setup[what] > 0 /\ setup' = [setup EXCEPT ![what] = @ - 1]

validator(o) == IF o.validates THEN o.ver ELSE None

\* Resolve: an unranged request, whose body the first Start of a resource without Range
\* consumes.  For one with Range the body fills the prefetch file, which RangeFetcher has;
\* here a pause or a restart has dropped it, as it has in the case without a body.
Init ==
  /\ setup \in Setups
  /\ origin = setup.origin
  /\ state = "resolved" /\ loop = "none" /\ signal = FALSE
  /\ res = [range |-> origin.ranges, size |-> IF origin.tells THEN Len_[origin.ver] ELSE 0,
            eligible |-> FALSE, pinned |-> FALSE, unknown |-> FALSE,
            ifRange |-> validator(origin)]
  /\ conn = NoConn
  /\ resp = IF res.range THEN Nothing
            ELSE [Nothing EXCEPT !.kind = "resolve", !.ver = origin.ver, !.next = 1,
                                 !.tells = origin.tells]
  /\ disk = [there |-> FALSE, cells |-> <<>>]
  /\ saved = [res |-> res, here |-> FALSE, got |-> 0, completed |-> FALSE]

-----------------------------------------------------------------------------
(* The prefix of a sequential download.                                    *)

completed == conn.st = "completed"

hasSequentialPrefix(r, got) ==
  ~r.range /\ r.eligible /\ r.size > 0 /\ got > 0 /\ got < r.size

canProbeSequentialResume(r, got) ==
  ~r.unknown /\ r.ifRange # None /\ hasSequentialPrefix(r, got)

\* Without range support a new request starts from byte 0.
resetConnectionForRestart(r, c) ==
  IF r.range THEN c ELSE [c EXCEPT !.got = 0]

resetWithoutPrefix(r, c) ==
  IF hasSequentialPrefix(r, c.got) THEN c ELSE resetConnectionForRestart(r, c)

truncated(cells, n) ==
  [i \in 1 .. n |-> IF i <= Len(cells) THEN cells[i] ELSE Hole]

writeAt(cells, off, cell) ==
  [i \in 1 .. (IF off > Len(cells) THEN off ELSE Len(cells)) |->
     IF i = off THEN cell ELSE IF i <= Len(cells) THEN cells[i] ELSE Hole]

-----------------------------------------------------------------------------
(* Start and the download loop.                                            *)

\* resumeConnections leaves a connection alone that has given up.
Skipped(c) == c.st = "failed" /\ c.failed /\ (c.err = "forbidden" \/ c.retry >= 3)

Start ==
  /\ state \in {"resolved", "paused", "error"}
  /\ Spend("starts")
  /\ disk' = IF disk.there THEN disk
             ELSE [there |-> TRUE, cells |-> truncated(<<>>, res.size)]
  /\ LET c == IF state = "error" /\ ~completed
              THEN [resetWithoutPrefix(res, conn) EXCEPT
                      !.st = "notStarted", !.failed = FALSE, !.retry = 0, !.err = "none"]
              ELSE conn
     IN IF ~conn.here
        THEN /\ conn' = [NoConn EXCEPT !.here = TRUE,
                           !.pc = IF res.range THEN "request"
                                  ELSE IF resp.kind = "resolve" THEN "resolve" ELSE "fallback"]
             /\ loop' = IF res.range THEN "select" ELSE "wait"
        ELSE /\ conn' = IF completed \/ Skipped(c) THEN c
                        ELSE [resetWithoutPrefix(res, c) EXCEPT
                                !.pc = "request", !.st = "notStarted", !.failed = FALSE,
                                !.retry = 0]
             /\ loop' = IF hasSequentialPrefix(res, c.got) THEN "select" ELSE "wait"
  /\ state' = "running" /\ signal' = FALSE
  /\ UNCHANGED <<origin, res, resp, saved>>

needsMoreData ==
  IF res.range THEN res.size = 0 \/ conn.got < res.size
  ELSE IF res.size > 0 THEN conn.got < res.size
  ELSE ~completed

\* onDownloadComplete: an integrity error wins over the count, a refusal with 403 is
\* never an error.
FinalError ==
  /\ conn.st = "failed" /\ conn.failed
  /\ \/ conn.err = "terminal"
     \/ /\ ~(res.size > 0 /\ conn.got >= res.size)
        /\ needsMoreData /\ conn.err # "forbidden"

onDownloadComplete ==
  /\ loop = "wait" /\ conn.pc = "gone"
  /\ state' = IF FinalError THEN "error" ELSE "done"
  /\ loop' = "none"
  /\ UNCHANGED <<setup, origin, signal, res, conn, resp, disk, saved>>

SequentialExited == conn.pc = "gone"

\* With one connection an expansion in range mode is the end of the slow start.
downloadLoopSignalled ==
  /\ loop = "select" /\ signal
  /\ signal' = FALSE
  /\ loop' = IF res.range \/ SequentialExited THEN "wait" ELSE "select"
  /\ UNCHANGED <<setup, origin, state, res, conn, resp, disk, saved>>

-----------------------------------------------------------------------------
(* The ends of a connection.                                               *)

\* The deferred signal of runConnection, for a connection that ends as c.
Exit(c) ==
  /\ conn' = [c EXCEPT !.pc = "gone"]
  /\ signal' = (signal \/ c.st = "failed"
                       \/ (~res'.range /\ (res'.eligible \/ c.st = "completed")))
  /\ resp' = Nothing

Failing(c, kind, to) ==
  LET counted == kind = "counted"
      f == [c EXCEPT !.st = "failed", !.err = kind, !.pc = to,
                     !.retry = IF counted THEN @ + 1 ELSE @,
                     !.failed = IF counted \/ kind \in {"terminal", "forbidden"} THEN TRUE ELSE @]
  IN IF kind \in {"terminal", "forbidden"} \/ f.retry >= 3
     THEN Exit(f)
     ELSE conn' = f /\ resp' = Nothing /\ signal' = (signal \/ counted)

-----------------------------------------------------------------------------
(* runConnectionWithResolveResp and runConnectionFallback.                 *)

\* One byte is read and written at Chunk.Downloaded.
TakeByte ==
  /\ resp.next <= Len_[resp.ver]
  /\ disk' = [disk EXCEPT !.cells = writeAt(@, conn.got + 1, <<resp.ver, resp.next>>)]
  /\ conn' = [conn EXCEPT !.got = @ + 1, !.st = "downloading", !.failed = FALSE]
  /\ resp' = [resp EXCEPT !.next = @ + 1, !.read = @ + 1]

AtEnd == resp.next > Len_[resp.ver]

\* The end of the body gives an unknown size its value; the response of Resolve cannot be
\* resumed, so a broken body ends the connection.
readResolveResp ==
  /\ conn.pc = "resolve"
  /\ \/ TakeByte /\ UNCHANGED <<setup, signal, res>>
     \/ /\ AtEnd
        /\ res' = [res EXCEPT !.size = IF @ = 0 THEN conn.got ELSE @]
        /\ Exit([conn EXCEPT !.st = "completed"])
        /\ UNCHANGED <<setup, disk>>
     \/ /\ ~AtEnd /\ "net" \in setup.kinds /\ Spend("faults")
        /\ conn' = [conn EXCEPT !.st = "failed", !.failed = TRUE, !.err = "net", !.pc = "gone"]
        /\ resp' = Nothing
        /\ UNCHANGED <<signal, res, disk>>
  /\ UNCHANGED <<origin, state, loop, saved>>

\* Any 200 is taken as it comes.
fallbackRequest ==
  /\ conn.pc = "fallback"
  /\ \/ /\ conn' = [conn EXCEPT !.pc = "fallbackBody", !.st = "downloading", !.failed = FALSE]
        /\ resp' = [Nothing EXCEPT !.kind = "fallback", !.ver = origin.ver, !.next = 1,
                                   !.tells = origin.tells]
        /\ UNCHANGED <<setup, signal, res>>
     \/ /\ Spend("faults")
        /\ res' = res
        /\ \E k \in setup.kinds : Failing(conn, k, "fallback")
  /\ UNCHANGED <<origin, state, loop, disk, saved>>

\* A retry appends to what a broken body has left (setup.settled: bodies break only before
\* their first byte).
readFallback ==
  /\ conn.pc = "fallbackBody"
  /\ \/ TakeByte /\ UNCHANGED <<setup, signal, res>>
     \/ /\ AtEnd
        /\ res' = res
        /\ Exit([conn EXCEPT !.st = "completed"])
        /\ UNCHANGED <<setup, disk>>
     \/ /\ ~AtEnd /\ (conn.got > 0 => ~setup.settled)
        /\ "net" \in setup.kinds /\ Spend("faults")
        /\ res' = res
        /\ Failing(conn, "net", "fallback")
        /\ UNCHANGED disk
  /\ UNCHANGED <<origin, state, loop, saved>>

-----------------------------------------------------------------------------
(* downloadChunkOnce.                                                      *)


\* A prefix without a safe validator is dropped before the request is built.
RestartsFromZero(r, got) ==
  r.unknown \/ (hasSequentialPrefix(r, got) /\ ~canProbeSequentialResume(r, got))

\* The first critical section: what is left to do, and which headers the request has.
SendRequest ==
  /\ conn.pc = "request"
  /\ LET c == resetWithoutPrefix(res, conn)
         restarts == RestartsFromZero(res, c.got)
         probe == canProbeSequentialResume(res, c.got)
         d == IF restarts THEN resetConnectionForRestart(res, c) ELSE c
     IN IF res.range /\ res.size > 0 /\ d.got >= res.size
        THEN /\ res' = res
             /\ Exit([d EXCEPT !.st = "completed"])
        ELSE /\ res' = IF restarts THEN [res EXCEPT !.pinned = FALSE] ELSE res
             /\ conn' = [d EXCEPT !.pc = "sent", !.st = "connecting"]
             /\ resp' = [Nothing EXCEPT !.kind = "chunk", !.ranged = res.range \/ probe,
                          !.probe = probe, !.intentional = restarts,
                          !.ifRange = IF probe \/ (res.range /\ res.pinned)
                                      THEN res.ifRange ELSE None]
             /\ UNCHANGED signal
  /\ UNCHANGED <<setup, origin, state, loop, disk, saved>>

\* The origin honours Range, and If-Range when there is one.
Partial ==
  /\ resp.ranged /\ origin.ranges /\ conn.got < Len_[origin.ver]
  /\ resp.ifRange # None => origin.validates /\ resp.ifRange = origin.ver

validateRangeResponse == res.size = 0 \/ res.size = Len_[origin.ver]

\* 206: an unknown size is discovered, and a probe that succeeds turns the prefix into the
\* beginning of a ranged chunk, pinned to its validator.
AnsweredPartial ==
  IF ~validateRangeResponse
  THEN res' = res /\ disk' = disk /\ Failing(conn, "terminal", "gone")
  ELSE /\ disk' = IF res.size = 0
                  THEN [disk EXCEPT !.cells = truncated(@, Len_[origin.ver])] ELSE disk
       /\ res' = IF resp.probe
                 THEN [res EXCEPT !.range = TRUE, !.eligible = FALSE, !.pinned = TRUE,
                                  !.unknown = FALSE]
                 ELSE [res EXCEPT !.size = IF @ = 0 THEN Len_[origin.ver] ELSE @]
       /\ conn' = [conn EXCEPT !.pc = "body", !.st = "downloading", !.failed = FALSE]
       /\ resp' = [resp EXCEPT !.ver = origin.ver, !.next = conn.got + 1, !.tells = TRUE,
                               !.expected = Len_[origin.ver] - conn.got]
       /\ signal' = TRUE

\* fallbackToSequentialDownload and restartSequentialDownload.
FallsBack(c) == [c EXCEPT !.got = 0]

\* 200: the complete current representation.  To a request with Range it is a fallback or
\* a restart; an eligible download binds later probes to it in any case.
AnsweredWhole ==
  /\ res' = IF resp.ranged
            THEN [res EXCEPT !.range = FALSE, !.eligible = TRUE, !.pinned = FALSE,
                             !.ifRange = validator(origin)]
            ELSE [res EXCEPT !.ifRange = IF res.eligible THEN validator(origin) ELSE @]
  /\ conn' = [(IF resp.ranged THEN FallsBack(conn) ELSE conn) EXCEPT !.pc = "admit"]
  /\ resp' = [resp EXCEPT !.ver = origin.ver, !.next = 1, !.tells = origin.tells,
                          !.intentional = @ \/ resp.ranged]
  /\ UNCHANGED <<disk, signal>>

Answer ==
  /\ conn.pc = "sent"
  /\ \/ /\ IF Partial THEN AnsweredPartial ELSE AnsweredWhole
        /\ UNCHANGED setup
     \/ /\ Spend("faults")
        /\ \E k \in setup.kinds : Failing(conn, k, "request")
        /\ UNCHANGED <<res, disk>>
  /\ UNCHANGED <<origin, state, loop, saved>>

\* resizeSequentialResource, on the file.
resized(d, n) == [d EXCEPT !.cells = truncated(@, n)]

\* The file and its recovery metadata change in one critical section: a restart makes the
\* new length authoritative, or unknown; any other response must have the known length.
Admit ==
  /\ conn.pc = "admit"
  /\ LET n == Len_[resp.ver]
         reading == [conn EXCEPT !.pc = "body", !.st = "downloading", !.failed = FALSE]
     IN \/ /\ resp.intentional /\ resp.tells
           /\ res' = [res EXCEPT !.size = n, !.unknown = FALSE]
           /\ disk' = resized(disk, n)
           /\ conn' = reading /\ resp' = [resp EXCEPT !.expected = n]
           /\ signal' = TRUE
        \/ /\ resp.intentional /\ ~resp.tells
           /\ res' = [res EXCEPT !.size = 0, !.unknown = TRUE, !.ifRange = None,
                                 !.pinned = FALSE]
           /\ disk' = [disk EXCEPT !.cells = <<>>]
           /\ conn' = reading /\ resp' = resp
           /\ signal' = TRUE
        \/ /\ ~resp.intentional
           /\ res' = res /\ disk' = disk
           /\ IF res.size > 0 /\ resp.tells /\ n # res.size
              THEN Failing(conn, "terminal", "gone")
              ELSE /\ conn' = reading
                   /\ resp' = [resp EXCEPT !.expected = IF res.size > 0 THEN res.size ELSE -1]
                   /\ signal' = TRUE
  /\ UNCHANGED <<setup, origin, state, loop, saved>>

TooLong == resp.expected >= 0 /\ resp.read >= resp.expected
TooShort == resp.expected >= 0 /\ resp.read < resp.expected

readBody ==
  /\ conn.pc = "body"
  /\ \/ ~AtEnd /\ ~TooLong /\ TakeByte /\ UNCHANGED <<setup, signal, res>>
     \/ ~AtEnd /\ TooLong /\ res' = res /\ Failing(conn, "terminal", "gone")
        /\ UNCHANGED <<setup, disk>>
     \/ /\ AtEnd /\ TooShort
        /\ res' = res /\ Failing(conn, "terminal", "gone")
        /\ UNCHANGED <<setup, disk>>
     \/ /\ AtEnd /\ ~TooShort
        /\ IF resp.intentional /\ ~resp.tells
           THEN /\ res' = [res EXCEPT !.size = resp.read, !.unknown = FALSE]
                /\ disk' = resized(disk, resp.read)
           ELSE UNCHANGED <<res, disk>>
        /\ Exit([conn EXCEPT !.st = "completed"])
        /\ UNCHANGED setup
     \/ /\ ~AtEnd /\ "net" \in setup.kinds /\ Spend("faults")
        /\ res' = res /\ Failing(conn, "net", "request")
        /\ UNCHANGED disk
  /\ UNCHANGED <<origin, state, loop, saved>>

-----------------------------------------------------------------------------
(* Pause, snapshots, the death of the process, and the origin.             *)

\* Pause waits for the loop and the connection; the response of Resolve goes with it.
\* setup.late: it may come when the connection has given up and the loop has not ended, or
\* when its error has not been heard of.
Pause ==
  /\ \/ state \in {"resolved", "running"} /\ (setup.late \/ ~Skipped(conn))
     \/ state = "error" /\ setup.late
  /\ Spend("pauses")
  /\ state' = "paused" /\ loop' = "none"
  /\ conn' = [conn EXCEPT !.pc = "gone"]
  /\ resp' = Nothing
  /\ UNCHANGED <<origin, signal, res, disk, saved>>

\* FetcherManager.Store, under connMu.
Store ==
  /\ Spend("saves")
  /\ saved' = [res |-> res, here |-> conn.here, got |-> conn.got, completed |-> completed]
  /\ UNCHANGED <<origin, state, loop, signal, res, conn, resp, disk>>

\* The process dies; Restore and Setup.  setup.fresh: the snapshot is not older than the
\* last restart, whose truncation of the file it does not know of.
Crash ==
  /\ state # "done"
  /\ setup.fresh => /\ res.size = saved.res.size
                    /\ saved.got > 0 => res = saved.res
  /\ Spend("crashes")
  /\ state' = "resolved" /\ loop' = "none" /\ signal' = FALSE
  /\ res' = saved.res
  /\ conn' = [NoConn EXCEPT !.here = saved.here, !.got = saved.got,
                            !.st = IF saved.completed THEN "completed" ELSE "notStarted"]
  /\ resp' = Nothing
  /\ UNCHANGED <<origin, disk, saved>>

\* setup.settled: the origin keeps the representation while the fetcher has no means to
\* see a change: a body appended by the fallback, a size nobody knows, a range mode that
\* is not pinned.
SeesChanges ==
  /\ conn.pc \notin {"fallback", "fallbackBody"} /\ (conn.here \/ resp.kind = "resolve")
  /\ res.size > 0 \/ res.unknown
  /\ res.range => res.pinned \/ (conn.got = 0 /\ conn.pc # "body")
  /\ saved.here /\ (saved.res.range => saved.res.pinned \/ saved.got = 0)

OriginChanges ==
  /\ state # "done"
  /\ Spend("changes")
  /\ origin' \in [ver : Version, ranges : BOOLEAN, tells : BOOLEAN,
                  validates : {origin.validates}]
  /\ origin'.ver # origin.ver => (setup.settled => SeesChanges)
  /\ UNCHANGED <<state, loop, signal, res, conn, resp, disk, saved>>

Connection ==
  readResolveResp \/ fallbackRequest \/ readFallback
    \/ SendRequest \/ Answer \/ Admit \/ readBody
Loop == downloadLoopSignalled \/ onDownloadComplete

Next == Start \/ Connection \/ Loop \/ Pause \/ Store \/ Crash \/ OriginChanges

Spec == Init /\ [][Next]_vars

\* The goroutines of a running download go on; nothing obliges the user or the origin.
FairSpec == Spec /\ WF_vars(Connection) /\ WF_vars(Loop)

-----------------------------------------------------------------------------

\* A file is done only when it is one version of the resource from its first byte to its
\* last: no stale tail, no hole, no second beginning, whatever broke, changed or died on
\* the way (downloadChunkOnce, resizeSequentialResource, beginUnknownSizeSequentialResource).
DoneMeansOneVersion == state = "done" => \E v \in Version : disk.cells = Whole(v)

\* The prefix a probe would resume belongs to the version its validator names, as long as
\* the origin would accept the validator (restartSequentialDownload, Store).
PrefixIsOfItsValidator ==
  canProbeSequentialResume(res, conn.got) /\ res.ifRange = origin.ver =>
    \A i \in 1 .. conn.got : i <= Len(disk.cells) /\ disk.cells[i] = <<res.ifRange, i>>

\* A download that runs ends, is paused or dies: its loop hears of its connection's exit
\* in whatever mode it was when the signal was given (runConnection, downloadLoop).
LoopEnds == state = "running" ~> state # "running"
=============================================================================
