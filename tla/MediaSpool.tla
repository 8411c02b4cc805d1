----------------------------- MODULE MediaSpool -----------------------------
(***************************************************************************)
(* The input of an FFmpeg job that is downloaded ahead into temporary      *)
(* blocks (pkg/download/engine/ffmpeg: http_spool.go, spool.go and the     *)
(* requests of input.go).                                                  *)
(*                                                                         *)
(* One goroutine (pre) fetches the whole source in order, FetchBlocks      *)
(* blocks at a time.  FFmpeg reads behind it and seeks; a block it has     *)
(* read past is removed from disk, and a read that meets bytes which are   *)
(* not there asks the second goroutine (dem) for them.  A source without   *)
(* Range is copied by pre and read as a stream.                            *)
(*                                                                         *)
(* A cell is one byte; it holds the version of the source it came from,    *)
(* or Hole.  Sections under the spool's mutex are atomic.                  *)
(***************************************************************************)
EXTENDS Integers

CONSTANTS
  Size,        \* bytes of the source, the same for every version; positive
  BlockLen,    \* SpoolBlockSize; positive
  FirstBytes,  \* bytes of the response that opened a source with Range, at most a block
  Setups       \* [ranged, tells, faults, changes, seeks, closes, forward]

VARIABLES
  setup,
  origin,   \* the version a request meets
  cells,    \* what the blocks on disk hold
  err,      \* spool.err
  ended,    \* spool.ended
  closed,   \* spool.closed
  demand,   \* the channel demand: a position, or NoDemand
  network,  \* who holds h.network
  fetcher,  \* [pre, dem]: each with its pc, offset, end of the fetch, end of the response
  ver,      \* the version the response of a fetcher comes from
  reader,   \* FFmpeg: [pc, pos, woken, answer]; woken: its wake channel is closed
  heard,    \* versions of the bytes FFmpeg has got
  cancelled \* the context is done

vars == <<setup, origin, cells, err, ended, closed, demand, network, fetcher, ver, reader,
          heard, cancelled>>

FetchBlocks == 3   \* of one request
Hole == 0
NoDemand == -1
Cell == 0 .. Size - 1
F == {"pre", "dem"}
Block(o) == {c \in Cell : c \div BlockLen = o \div BlockLen}
Least(a, b) == IF a < b THEN a ELSE b

\* How the source is, and what may still happen to it and be asked of the spool.
Setup == [ranged : BOOLEAN, tells : BOOLEAN, faults : Nat, changes : Nat, seeks : Nat,
          closes : Nat, forward : BOOLEAN]

\* What the constants are; a block and the source have a byte.
Admissible ==
  /\ Size \in Nat \ {0} /\ BlockLen \in Nat \ {0} /\ FirstBytes \in Nat
  /\ Setups \subseteq Setup

Fetcher == [pc : {"next", "copy", "idle", "probe", "lock", "fetch", "request", "body", "fail",
                  "gone"},
            from : Nat, off : Nat, end : 0 .. Size, last : 0 .. Size]
Reader == [pc : {"idle", "read", "ended", "demand", "wait"}, pos : Nat, woken : BOOLEAN,
           answer : {"none", "eof", "error"}]

TypeOK ==
  /\ cells \in [Cell -> {Hole, 1, 2}]
  /\ {err, ended, closed, cancelled} \subseteq BOOLEAN
  /\ demand \in Cell \cup {NoDemand} /\ network \in F \cup {"free"}
  /\ fetcher \in [F -> Fetcher] /\ reader \in Reader

Spend(what) == setup[what] > 0 /\ setup' = [setup EXCEPT ![what] = @ - 1]

\* The response that opens the source is the first piece of the first block, or the body
\* of a source without Range.
Init ==
  /\ setup \in Setups
  /\ origin = 1
  /\ cells = [c \in Cell |-> IF setup.ranged /\ c < FirstBytes THEN 1 ELSE Hole]
  /\ err = FALSE /\ ended = FALSE /\ closed = FALSE /\ cancelled = FALSE
  /\ demand = NoDemand /\ network = "free"
  /\ fetcher = [f \in F |-> [pc |-> IF f = "dem" THEN "idle"
                                    ELSE IF setup.ranged THEN "next" ELSE "copy",
                             from |-> 0, off |-> 0, end |-> 0, last |-> 0]]
  /\ ver = [f \in F |-> 1]
  /\ reader = [pc |-> "idle", pos |-> 0, woken |-> FALSE, answer |-> "none"]
  /\ heard = {}

-----------------------------------------------------------------------------
(* The spool.                                                              *)

\* The wake channel is closed and replaced.
Notified(r) == [r EXCEPT !.woken = r.pc \in {"ended", "demand", "wait"}]

Broken == closed \/ err

Present(o) == o < Size /\ cells[o] # Hole

\* Bytes a read at o can return: those of its block that follow without a gap.
Readable(o) ==
  {n \in 1 .. BlockLen : \A k \in 0 .. n - 1 : Present(o + k) /\ o + k \in Block(o)}

\* The end of the span o is in, within its block.
SpanEnd(o) == CHOOSE e \in Cell \cup {Size} :
  /\ e > o /\ e - o \in Readable(o) /\ e - o + 1 \notin Readable(o)

\* WriteAt, of one byte.
WriteAt(o, v) ==
  /\ cells' = [cells EXCEPT ![o] = v]
  /\ reader' = Notified(reader)

\* A read that crosses into another block removes the one it leaves.
Discarded(from, to) ==
  [c \in Cell |-> IF c \in Block(from) /\ to \div BlockLen > from \div BlockLen
                  THEN Hole ELSE cells[c]]

\* Mutant: nobody is told that the source has ended.
EndQuietly(r) == r

EndNotifies(r) == Notified(r)

\* end: the first error stays.
End(failed) ==
  /\ ended' = TRUE
  /\ err' = (err \/ failed)
  /\ reader' = EndNotifies(reader)

-----------------------------------------------------------------------------
(* The goroutines that fetch.                                              *)

At(f, pc) == fetcher[f].pc = pc
Goes(f, pc) == fetcher' = [fetcher EXCEPT ![f].pc = pc]
\* Leaves a fetch, or the loop.
Leaves(f, pc, from) ==
  fetcher' = [fetcher EXCEPT ![f] = [pc |-> pc, from |-> from, off |-> 0, end |-> 0, last |-> 0]]
Begins(f, off) ==
  fetcher' = [fetcher EXCEPT ![f].pc = "lock", ![f].off = off,
                             ![f].end = Least(off + FetchBlocks * BlockLen, Size)]

\* The loop of the goroutine that downloads ahead.
Ahead ==
  /\ At("pre", "next")
  /\ IF fetcher["pre"].from < Size
     THEN /\ Begins("pre", fetcher["pre"].from)
          /\ UNCHANGED <<ended, err, reader>>
     ELSE Leaves("pre", "gone", 0) /\ End(FALSE)
  /\ UNCHANGED <<setup, origin, cells, closed, demand, network, ver, heard, cancelled>>

\* io.CopyBuffer from a source without Range to DiskInput.Write.
Copy ==
  /\ At("pre", "copy")
  /\ LET o == fetcher["pre"].off
     IN \/ /\ o < Size /\ ~cancelled /\ ~ended /\ ~Broken
           /\ WriteAt(o, ver["pre"])
           /\ fetcher' = [fetcher EXCEPT !["pre"].off = o + 1]
           /\ UNCHANGED <<setup, err, ended>>
        \/ /\ o < Size /\ (cancelled \/ Broken)
           /\ Leaves("pre", "fail", 0)
           /\ UNCHANGED <<setup, cells, err, ended, reader>>
        \/ /\ o < Size /\ Spend("faults")
           /\ Leaves("pre", "fail", 0)
           /\ UNCHANGED <<cells, err, ended, reader>>
        \/ /\ o = Size
           /\ Leaves("pre", "gone", 0) /\ End(FALSE)
           /\ UNCHANGED <<setup, cells>>
  /\ UNCHANGED <<origin, closed, demand, network, ver, heard, cancelled>>

\* The goroutine that answers demands.
TakeDemand ==
  /\ At("dem", "idle")
  /\ \/ /\ demand # NoDemand
        /\ fetcher' = [fetcher EXCEPT !["dem"].pc = "probe", !["dem"].off = demand]
        /\ demand' = NoDemand
     \/ /\ cancelled
        /\ Goes("dem", "gone")
        /\ UNCHANGED demand
  /\ UNCHANGED <<setup, origin, cells, err, ended, closed, network, ver, reader, heard,
                 cancelled>>

\* A demand that the other goroutine has met is dropped, and nobody is told.
Probe ==
  /\ At("dem", "probe")
  /\ LET o == fetcher["dem"].off
     IN IF Present(o) \/ Broken THEN Leaves("dem", "idle", 0)
        ELSE Begins("dem", o - (o % BlockLen))
  /\ UNCHANGED <<setup, origin, cells, err, ended, closed, demand, network, ver, reader,
                 heard, cancelled>>

\* fetch: one at a time.
LockNetwork(f) ==
  /\ At(f, "lock") /\ network = "free"
  /\ IF cancelled THEN Leaves(f, "fail", 0) /\ UNCHANGED network
     ELSE Goes(f, "fetch") /\ network' = f
  /\ UNCHANGED <<setup, origin, cells, err, ended, closed, demand, ver, reader, heard,
                 cancelled>>

Fails(f) == Leaves(f, "fail", 0) /\ network' = "free"

\* What is on disk is skipped; the first byte that is not there is requested.
FetchLoop(f) ==
  /\ At(f, "fetch")
  /\ LET o == fetcher[f].off
     IN IF o >= fetcher[f].end
        THEN /\ network' = "free"
             /\ IF f = "dem" THEN Leaves(f, "idle", 0)
                ELSE Leaves(f, "next", fetcher[f].from + FetchBlocks * BlockLen)
        ELSE IF Broken THEN Fails(f)
        ELSE /\ network' = network
             /\ IF Present(o)
                THEN fetcher' = [fetcher EXCEPT ![f].off = Least(SpanEnd(o), fetcher[f].end)]
                ELSE Goes(f, "request")
  /\ UNCHANGED <<setup, origin, cells, err, ended, closed, demand, ver, reader, heard,
                 cancelled>>

\* Mutant: a partial response is taken whoever sent it.
AnyVersion == TRUE

\* The validators of the response, against those of the one that opened the source.
SameVersion == setup.tells => origin = 1

\* 206 for the range asked for, or for its first byte alone, unless the source changed: the
\* origin may ignore If-Range, and the validators are compared again.
Request(f) ==
  /\ At(f, "request")
  /\ \/ /\ ~cancelled /\ SameVersion
        /\ \/ /\ fetcher' = [fetcher EXCEPT ![f].pc = "body", ![f].last = fetcher[f].end]
              /\ UNCHANGED setup
           \/ /\ fetcher' = [fetcher EXCEPT ![f].pc = "body", ![f].last = fetcher[f].off + 1]
              /\ Spend("faults")
        /\ ver' = [ver EXCEPT ![f] = origin]
        /\ UNCHANGED network
     \/ /\ cancelled \/ ~SameVersion
        /\ Fails(f)
        /\ UNCHANGED <<setup, ver>>
     \/ /\ Spend("faults")
        /\ Fails(f)
        /\ UNCHANGED ver
  /\ UNCHANGED <<origin, cells, err, ended, closed, demand, reader, heard, cancelled>>

\* The body, byte by byte; at its end the loop looks again.
Body(f) ==
  /\ At(f, "body")
  /\ LET o == fetcher[f].off
     IN \/ /\ o < fetcher[f].last /\ ~Broken
           /\ WriteAt(o, ver[f])
           /\ fetcher' = [fetcher EXCEPT ![f].off = o + 1]
           /\ UNCHANGED <<setup, network>>
        \/ /\ o < fetcher[f].last /\ (Broken \/ cancelled)
           /\ Fails(f)
           /\ UNCHANGED <<setup, cells, reader>>
        \/ /\ o < fetcher[f].last /\ Spend("faults")
           /\ Fails(f)
           /\ UNCHANGED <<cells, reader>>
        \/ /\ o = fetcher[f].last
           /\ Goes(f, "fetch")
           /\ UNCHANGED <<setup, cells, network, reader>>
  /\ UNCHANGED <<origin, err, ended, closed, demand, ver, heard, cancelled>>

\* Either goroutine ends the input with its error and leaves.
Gives(f) ==
  /\ At(f, "fail")
  /\ Goes(f, "gone")
  /\ End(TRUE)
  /\ UNCHANGED <<setup, origin, cells, closed, demand, network, ver, heard, cancelled>>

-----------------------------------------------------------------------------
(* FFmpeg: Read and Seek.                                                  *)

Answers(a) == reader' = [reader EXCEPT !.pc = "idle", !.answer = a, !.woken = FALSE]

Read ==
  /\ reader.pc = "idle" /\ reader.answer \notin {"error", "eof"} /\ ~closed
  /\ reader' = [reader EXCEPT !.pc = "read"]
  /\ UNCHANGED <<setup, origin, cells, err, ended, closed, demand, network, fetcher, ver,
                 heard, cancelled>>

Seek ==
  /\ reader.pc = "idle" /\ reader.answer # "error" /\ ~closed
  /\ setup.ranged /\ Spend("seeks")
  /\ \E o \in Cell : reader' = [reader EXCEPT !.pos = o, !.answer = "none"]
  /\ UNCHANGED <<origin, cells, err, ended, closed, demand, network, fetcher, ver, heard,
                 cancelled>>

Deliver ==
  \E n \in Readable(reader.pos) :
    /\ heard' = heard \cup {cells[reader.pos + k] : k \in 0 .. n - 1}
    /\ cells' = Discarded(reader.pos, reader.pos + n)
    /\ reader' = [reader EXCEPT !.pc = "idle", !.pos = @ + n]

AtEnd ==
  /\ Answers("eof")
  /\ cells' = [c \in Cell |-> IF c \in Block(Least(reader.pos, Size - 1)) THEN Hole ELSE cells[c]]
  /\ heard' = heard

\* HTTPSpool.Read, and DiskInput.Read for a source without Range: one look at the disk.
\* The wake channel is read with it.
ReadAt ==
  /\ reader.pc = "read"
  /\ \/ /\ setup.ranged /\ reader.pos >= Size
        /\ AtEnd
     \/ /\ ~(setup.ranged /\ reader.pos >= Size) /\ (cancelled \/ Broken)
        /\ Answers("error")
        /\ UNCHANGED <<cells, heard>>
     \/ /\ ~cancelled /\ ~Broken /\ Readable(reader.pos) # {}
        /\ Deliver
     \/ /\ ~(setup.ranged /\ reader.pos >= Size) /\ ~cancelled /\ ~Broken
        /\ Readable(reader.pos) = {}
        /\ reader' = [reader EXCEPT !.pc = IF setup.ranged THEN "demand" ELSE "ended",
                                    !.woken = FALSE]
        /\ UNCHANGED <<cells, heard>>
  /\ UNCHANGED <<setup, origin, err, ended, closed, demand, network, fetcher, ver, cancelled>>

\* Mutant: what was found before the stream ended is believed after it.
BelievesOldLook == TRUE

NothingLeft == Readable(reader.pos) = {}

\* DiskInput.Read when it found nothing: the end of the stream may have come since, and
\* bytes before it.
CheckEnded ==
  /\ reader.pc = "ended"
  /\ \/ /\ ~ended
        /\ reader' = [reader EXCEPT !.pc = "wait"]
        /\ UNCHANGED <<cells, heard>>
     \/ /\ ended /\ Broken
        /\ Answers("error")
        /\ UNCHANGED <<cells, heard>>
     \/ /\ ended /\ ~Broken /\ NothingLeft
        /\ AtEnd
     \/ /\ ended /\ ~Broken /\ ~NothingLeft
        /\ reader' = [reader EXCEPT !.pc = "read", !.woken = FALSE]
        /\ UNCHANGED <<cells, heard>>
  /\ UNCHANGED <<setup, origin, err, ended, closed, demand, network, fetcher, ver, cancelled>>

\* The channel holds one demand; another one is dropped.
SendDemand ==
  /\ reader.pc = "demand"
  /\ demand' = IF demand = NoDemand THEN reader.pos ELSE demand
  /\ reader' = [reader EXCEPT !.pc = "wait"]
  /\ UNCHANGED <<setup, origin, cells, err, ended, closed, network, fetcher, ver, heard,
                 cancelled>>

Wake ==
  /\ reader.pc = "wait"
  /\ \/ reader.woken /\ reader' = [reader EXCEPT !.pc = "read", !.woken = FALSE]
     \/ cancelled /\ Answers("error")
  /\ UNCHANGED <<setup, origin, cells, err, ended, closed, demand, network, fetcher, ver,
                 heard, cancelled>>

-----------------------------------------------------------------------------
(* The end of the job, and the origin.                                     *)

\* Close cancels, waits for both goroutines and removes the blocks.
CloseBegins ==
  /\ ~cancelled /\ Spend("closes")
  /\ cancelled' = TRUE
  /\ UNCHANGED <<origin, cells, err, ended, closed, demand, network, fetcher, ver, reader,
                 heard>>

CloseEnds ==
  /\ cancelled /\ ~closed /\ \A f \in F : At(f, "gone")
  /\ closed' = TRUE
  /\ cells' = [c \in Cell |-> Hole]
  /\ reader' = Notified(reader)
  /\ UNCHANGED <<setup, origin, err, ended, demand, network, fetcher, ver, heard, cancelled>>

SourceChanges ==
  /\ Spend("changes")
  /\ origin' = 2
  /\ UNCHANGED <<cells, err, ended, closed, demand, network, fetcher, ver, reader, heard,
                 cancelled>>

Fetch(f) == LockNetwork(f) \/ FetchLoop(f) \/ Request(f) \/ Body(f) \/ Gives(f)
Prefetcher == Ahead \/ Copy \/ Fetch("pre")
Demander == TakeDemand \/ Probe \/ Fetch("dem")
Reading == ReadAt \/ CheckEnded \/ SendDemand \/ Wake

Next ==
  Prefetcher \/ Demander \/ Reading \/ Read \/ Seek \/ CloseBegins \/ CloseEnds \/ SourceChanges

Spec == Init /\ [][Next]_vars

-----------------------------------------------------------------------------

\* Once the input is closed nothing of it is on disk and nobody writes any more
\* (HTTPSpool.Close).
ClosedIsEmpty == closed => \A c \in Cell : cells[c] = Hole

\* FFmpeg gets bytes of the version that was opened and never a hole of a sparse block,
\* and an end of file only at the end of the source (readAt, fetch, DiskInput.Read), and
\* nothing is left of an input that is closed.
ReadsAreOfOneVersion ==
  /\ TypeOK
  /\ heard \subseteq {1}
  /\ reader.answer = "eof" => reader.pos >= Size
  /\ ClosedIsEmpty
=============================================================================
