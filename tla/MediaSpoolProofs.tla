--------------------------- MODULE MediaSpoolProofs ---------------------------
(***************************************************************************)
(* Proofs about MediaSpool, for a source of any length, blocks of any      *)
(* length, and any number of seeks, faults and changes of the source.      *)
(***************************************************************************)
EXTENDS MediaSpool, FiniteSetTheorems, WellFoundedInduction, TLAPS

-----------------------------------------------------------------------------
(* Blocks and spans.                                                       *)

\* A block is a range: no offset behind another one is in an earlier block.
LEMMA BlocksAreOrdered ==
  ASSUME NEW n \in Nat \ {0}, NEW a \in Nat, NEW b \in Nat, a <= b
  PROVE  a \div n <= b \div n
<1> DEFINE p == a \div n
           q == b \div n
<1>1. p \in Int /\ n * p <= a /\ a < n * p + n
  OBVIOUS
<1>2. q \in Int /\ n * q <= b /\ b < n * q + n
  OBVIOUS
<1>3. SUFFICES ASSUME q < p
               PROVE  FALSE
  BY <1>1, <1>2
<1> HIDE DEF p, q
<1>4. n * (q + 1) <= n * p
  BY <1>1, <1>2, <1>3
<1> QED BY <1>1, <1>2, <1>4

LEMMA BlockStarts ==
  ASSUME NEW n \in Nat \ {0}, NEW o \in Nat
  PROVE  o - (o % n) \in Nat
<1> DEFINE q == o \div n
           r == o % n
<1>1. q \in Int /\ r \in 0 .. n - 1 /\ o = n * q + r
  OBVIOUS
<1> HIDE DEF q, r
<1>2. q >= 0
  BY <1>1
<1>3. n * q >= 0
  BY <1>1, <1>2
<1> QED BY <1>1, <1>3 DEF q, r

LEMMA OneIsReadable ==
  ASSUME Admissible, NEW o \in Nat, Present(o)
  PROVE  1 \in Readable(o)
<1>1. o \in Cell
  BY DEF Present, Cell, Admissible
<1>2. \A k \in 0 .. 1 - 1 : o + k = o
  OBVIOUS
<1>3. o \in Block(o)
  BY <1>1 DEF Block
<1>4. 1 \in 1 .. BlockLen
  BY DEF Admissible
<1> QED BY <1>2, <1>3, <1>4 DEF Readable

\* A byte that is there begins a span, which ends in its block: SpanEnd has a value.
LEMMA SpanEnds ==
  ASSUME Admissible, NEW o \in Nat, Present(o)
  PROVE  SpanEnd(o) \in Cell \cup {Size} /\ SpanEnd(o) > o
<1> USE DEF Admissible
<1> DEFINE R == Readable(o)
           Rest(n) == n + 1 .. BlockLen
           T == {Rest(n) : n \in R}
<1>1. o \in Cell /\ 1 \in R
  BY OneIsReadable DEF Present, Cell
<1>2. \A n \in R : n \in 1 .. BlockLen /\ o + (n - 1) < Size
  <2> TAKE n \in R
  <2>1. n \in 1 .. BlockLen /\ \A k \in 0 .. n - 1 : Present(o + k)
    BY DEF Readable
  <2> QED BY <2>1 DEF Present
<1>3. PICK x \in T : \A y \in T : ~(<<y, x>> \in StrictSubsetOrdering(Nat))
  <2>1. T \subseteq FiniteSubsetsOf(Nat)
    <3> SUFFICES ASSUME NEW n \in R
                 PROVE  Rest(n) \in FiniteSubsetsOf(Nat)
      OBVIOUS
    <3>1. n + 1 \in Int /\ BlockLen \in Int /\ Rest(n) \subseteq Nat
      BY <1>2
    <3>2. IsFiniteSet(Rest(n))
      BY <3>1, FS_Interval
    <3> QED BY <3>1, <3>2 DEF FiniteSubsetsOf
  <2>2. T # {}
    BY <1>1
  <2> HIDE DEF T
  <2> QED BY <2>1, <2>2, FS_StrictSubsetOrderingWellFounded, WFMin
<1>4. PICK n \in R : x = Rest(n)
  OBVIOUS
<1>5. n + 1 \notin R
  <2> SUFFICES ASSUME n + 1 \in R
               PROVE  FALSE
    OBVIOUS
  <2>1. n \in 1 .. BlockLen /\ n + 1 \in 1 .. BlockLen
    BY <1>2
  <2>2. Rest(n + 1) \subseteq Rest(n) /\ n + 1 \in Rest(n) /\ n + 1 \notin Rest(n + 1)
    BY <2>1
  <2>3. Rest(n) \subseteq Nat /\ Rest(n + 1) \in T
    BY <2>1
  <2> HIDE DEF Rest, T
  <2>4. <<Rest(n + 1), Rest(n)>> \in StrictSubsetOrdering(Nat)
    BY <2>2, <2>3 DEF StrictSubsetOrdering
  <2> QED BY <1>3, <1>4, <2>3, <2>4
<1>6. n \in 1 .. BlockLen /\ o + (n - 1) < Size
  BY <1>2
<1>7. o + n \in Cell \cup {Size} /\ o + n > o /\ (o + n) - o = n /\ (o + n) - o + 1 = n + 1
  BY <1>6 DEF Cell
<1> HIDE DEF R
<1>8. \E e \in Cell \cup {Size} : e > o /\ e - o \in R /\ e - o + 1 \notin R
  BY <1>5, <1>7
<1> QED BY <1>8 DEF SpanEnd, R

-----------------------------------------------------------------------------
(* Types.                                                                  *)

\* What a reader gets is of some version, never a hole; what is requested is to be fetched,
\* and what is demanded is in the source.
TypeInv ==
  /\ setup \in Setup /\ origin \in {1, 2} /\ ver \in [F -> {1, 2}] /\ heard \subseteq {1, 2}
  /\ TypeOK
  /\ \A f \in F : At(f, "request") => fetcher[f].off < fetcher[f].end
  /\ reader.pc = "demand" => reader.pos < Size

\* What a setup says of the source stays; what may still happen becomes less.
LEMMA Spending ==
  ASSUME setup \in Setup, NEW what \in {"faults", "changes", "seeks", "closes"}, Spend(what)
  PROVE  /\ setup' \in Setup /\ setup'.ranged = setup.ranged /\ setup'.tells = setup.tells
         /\ setup'.changes <= setup.changes
<1>1. CASE what = "faults"
  BY <1>1 DEF Spend, Setup
<1>2. CASE what = "changes"
  BY <1>2 DEF Spend, Setup
<1>3. CASE what = "seeks"
  BY <1>3 DEF Spend, Setup
<1>4. CASE what = "closes"
  BY <1>4 DEF Spend, Setup
<1> QED BY <1>1, <1>2, <1>3, <1>4

SetupShrinks ==
  /\ setup' \in Setup /\ setup'.ranged = setup.ranged /\ setup'.tells = setup.tells
  /\ setup'.changes <= setup.changes

LEMMA SetupStep ==
  ASSUME setup \in Setup, [Next]_vars
  PROVE  SetupShrinks
<1>0. UNCHANGED setup => SetupShrinks
  BY DEF SetupShrinks, Setup
<1>1. CASE Copy
  BY <1>1, <1>0, Spending DEF Copy, SetupShrinks
<1>2. ASSUME NEW f \in F, Request(f)
      PROVE  SetupShrinks
  BY <1>2, <1>0, Spending DEF Request, SetupShrinks
<1>3. ASSUME NEW f \in F, Body(f)
      PROVE  SetupShrinks
  BY <1>3, <1>0, Spending DEF Body, SetupShrinks
<1>4. CASE Seek
  BY <1>4, Spending DEF Seek, SetupShrinks
<1>5. CASE CloseBegins
  BY <1>5, Spending DEF CloseBegins, SetupShrinks
<1>6. CASE SourceChanges
  BY <1>6, Spending DEF SourceChanges, SetupShrinks
<1>7. ASSUME NEW f \in F, LockNetwork(f) \/ FetchLoop(f) \/ Gives(f)
      PROVE  SetupShrinks
  BY <1>7, <1>0 DEF LockNetwork, FetchLoop, Gives
<1>8. CASE \/ Ahead \/ TakeDemand \/ Probe \/ ReadAt \/ CheckEnded \/ SendDemand \/ Wake \/ Read
           \/ CloseEnds \/ UNCHANGED vars
  BY <1>8, <1>0 DEF Ahead, TakeDemand, Probe, ReadAt, CheckEnded, SendDemand, Wake, Read,
     CloseEnds, vars
<1> QED BY <1>1, <1>2, <1>3, <1>4, <1>5, <1>6, <1>7, <1>8
   DEF Next, Prefetcher, Demander, Reading, Fetch, F

\* What a step leaves of a fetcher is one.
LEMMA Going ==
  ASSUME fetcher \in [F -> Fetcher], NEW f \in F,
         NEW pc \in {"next", "copy", "idle", "probe", "lock", "fetch", "request", "body", "fail",
                     "gone"}, Goes(f, pc)
  PROVE  fetcher' \in [F -> Fetcher]
BY DEF Goes, Fetcher

LEMMA Leaving ==
  ASSUME Admissible, fetcher \in [F -> Fetcher], NEW f \in F, NEW from \in Nat,
         NEW pc \in {"next", "copy", "idle", "probe", "lock", "fetch", "request", "body", "fail",
                     "gone"}, Leaves(f, pc, from)
  PROVE  fetcher' \in [F -> Fetcher]
<1>1. 0 \in 0 .. Size
  BY DEF Admissible
<1> QED BY <1>1 DEF Leaves, Fetcher

LEMMA Beginning ==
  ASSUME Admissible, fetcher \in [F -> Fetcher], NEW f \in F, NEW off \in Nat, Begins(f, off)
  PROVE  fetcher' \in [F -> Fetcher]
<1>1. Least(off + FetchBlocks * BlockLen, Size) \in 0 .. Size
  BY DEF Least, FetchBlocks, Admissible
<1> DEFINE end == Least(off + FetchBlocks * BlockLen, Size)
           r == [fetcher[f] EXCEPT !.pc = "lock", !.off = off, !.end = end]
<1>2. r \in Fetcher
  <2>1. fetcher[f] \in Fetcher /\ end \in 0 .. Size
    BY <1>1
  <2> HIDE DEF end
  <2> QED BY <2>1 DEF Fetcher
<1>3. fetcher' = [fetcher EXCEPT ![f] = r]
  BY DEF Begins
<1> HIDE DEF r
<1> QED BY <1>2, <1>3

LEMMA FetcherStep ==
  ASSUME Admissible, TypeInv, [Next]_vars
  PROVE  fetcher' \in [F -> Fetcher]
<1>0. fetcher \in [F -> Fetcher] /\ "pre" \in F /\ "dem" \in F
  BY DEF TypeInv, TypeOK, F
<1>a. \A f \in F : /\ fetcher[f].from \in Nat /\ fetcher[f].off \in Nat
                   /\ fetcher[f].end \in 0 .. Size /\ fetcher[f].last \in 0 .. Size
  BY <1>0 DEF Fetcher
<1>1. CASE Ahead
  BY <1>1, <1>0, <1>a, Leaving, Beginning DEF Ahead
<1>2. CASE Copy
  <2>1. CASE fetcher' = [fetcher EXCEPT !["pre"].off = fetcher["pre"].off + 1]
    BY <2>1, <1>0, <1>a DEF Fetcher
  <2>2. CASE Leaves("pre", "fail", 0) \/ Leaves("pre", "gone", 0)
    BY <2>2, <1>0, Leaving
  <2> QED BY <1>2, <2>1, <2>2 DEF Copy
<1>3. CASE TakeDemand
  <2>1. CASE demand # NoDemand /\ fetcher' = [fetcher EXCEPT !["dem"].pc = "probe", !["dem"].off = demand]
    <3> DEFINE r == [fetcher["dem"] EXCEPT !.pc = "probe", !.off = demand]
    <3>1. demand \in Nat
      BY <2>1 DEF TypeInv, TypeOK, Cell
    <3>2. r \in Fetcher
      BY <1>0, <3>1 DEF Fetcher
    <3>3. fetcher' = [fetcher EXCEPT !["dem"] = r]
      BY <2>1
    <3> HIDE DEF r
    <3> QED BY <1>0, <3>2, <3>3
  <2>2. CASE Goes("dem", "gone")
    BY <2>2, <1>0, Going
  <2> QED BY <1>3, <2>1, <2>2 DEF TakeDemand
<1>4. CASE Probe
  <2>1. fetcher["dem"].off - (fetcher["dem"].off % BlockLen) \in Nat
    BY <1>0, <1>a, BlockStarts DEF Admissible
  <2> QED BY <1>4, <2>1, <1>0, Leaving, Beginning DEF Probe
<1>5. ASSUME NEW f \in F, LockNetwork(f)
      PROVE  fetcher' \in [F -> Fetcher]
  BY <1>5, <1>0, Leaving, Going DEF LockNetwork
<1>6. ASSUME NEW f \in F, FetchLoop(f)
      PROVE  fetcher' \in [F -> Fetcher]
  <2>1. CASE Leaves(f, "idle", 0) \/ Fails(f)
    BY <2>1, <1>0, Leaving DEF Fails
  <2>2. CASE Leaves(f, "next", fetcher[f].from + FetchBlocks * BlockLen)
    <3>1. fetcher[f].from + FetchBlocks * BlockLen \in Nat
      BY <1>a DEF FetchBlocks, Admissible
    <3> QED BY <2>2, <3>1, <1>0, Leaving
  <2>3. CASE Goes(f, "request")
    BY <2>3, <1>0, Going
  <2>4. CASE /\ Present(fetcher[f].off)
             /\ fetcher' = [fetcher EXCEPT ![f].off = Least(SpanEnd(fetcher[f].off), fetcher[f].end)]
    <3>1. SpanEnd(fetcher[f].off) \in Nat
      BY <2>4, <1>a, SpanEnds DEF Cell, Admissible
    <3>2. Least(SpanEnd(fetcher[f].off), fetcher[f].end) \in Nat
      BY <3>1, <1>a DEF Least
    <3> QED BY <2>4, <3>2, <1>0 DEF Fetcher
  <2> QED BY <1>6, <2>1, <2>2, <2>3, <2>4 DEF FetchLoop
<1>7. ASSUME NEW f \in F, Request(f)
      PROVE  fetcher' \in [F -> Fetcher]
  <2>1. CASE Fails(f)
    BY <2>1, <1>0, Leaving DEF Fails
  <2>2. ASSUME NEW last \in 0 .. Size,
               fetcher' = [fetcher EXCEPT ![f].pc = "body", ![f].last = last]
        PROVE  fetcher' \in [F -> Fetcher]
    <3> DEFINE r == [fetcher[f] EXCEPT !.pc = "body", !.last = last]
    <3>1. r \in Fetcher
      BY <1>0 DEF Fetcher
    <3>2. fetcher' = [fetcher EXCEPT ![f] = r]
      BY <2>2
    <3> HIDE DEF r
    <3> QED BY <1>0, <3>1, <3>2
  <2>3. fetcher[f].end \in 0 .. Size /\ fetcher[f].off + 1 \in 0 .. Size
    <3>1. fetcher[f].off < fetcher[f].end
      BY <1>7 DEF Request, TypeInv
    <3> QED BY <1>a, <3>1 DEF Admissible
  <2> QED BY <1>7, <2>1, <2>2, <2>3 DEF Request
<1>8. ASSUME NEW f \in F, Body(f)
      PROVE  fetcher' \in [F -> Fetcher]
  <2>1. CASE Fails(f) \/ Goes(f, "fetch")
    BY <2>1, <1>0, Leaving, Going DEF Fails
  <2>2. CASE fetcher' = [fetcher EXCEPT ![f].off = fetcher[f].off + 1]
    BY <2>2, <1>0, <1>a DEF Fetcher
  <2> QED BY <1>8, <2>1, <2>2 DEF Body
<1>9. ASSUME NEW f \in F, Gives(f)
      PROVE  fetcher' \in [F -> Fetcher]
  BY <1>9, <1>0, Going DEF Gives
<1>10. CASE \/ Read \/ Seek \/ ReadAt \/ CheckEnded \/ SendDemand \/ Wake \/ CloseBegins
            \/ CloseEnds \/ SourceChanges \/ UNCHANGED vars
  BY <1>10, <1>0 DEF Read, Seek, ReadAt, CheckEnded, SendDemand, Wake, CloseBegins, CloseEnds,
     SourceChanges, vars
<1> QED BY <1>0, <1>1, <1>2, <1>3, <1>4, <1>5, <1>6, <1>7, <1>8, <1>9, <1>10
   DEF Next, Prefetcher, Demander, Reading, Fetch

\* Where a fetcher is then; the other one stays.
LEMMA Moving ==
  ASSUME fetcher \in [F -> Fetcher], NEW f \in F, NEW pc, NEW from, NEW off
  PROVE  /\ Goes(f, pc) => /\ fetcher'[f].pc = pc /\ fetcher'[f].off = fetcher[f].off
                           /\ fetcher'[f].end = fetcher[f].end
         /\ Leaves(f, pc, from) => fetcher'[f].pc = pc
         /\ Begins(f, off) => fetcher'[f].pc = "lock"
         /\ Goes(f, pc) \/ Leaves(f, pc, from) \/ Begins(f, off) =>
              \A g \in F : g # f => fetcher'[g] = fetcher[g]
<1>1. Goes(f, pc) => /\ fetcher'[f].pc = pc /\ fetcher'[f].off = fetcher[f].off
                     /\ fetcher'[f].end = fetcher[f].end
  BY DEF Goes, Fetcher
<1>2. Leaves(f, pc, from) => fetcher'[f].pc = pc
  BY DEF Leaves
<1>3. Begins(f, off) => fetcher'[f].pc = "lock"
  BY DEF Begins, Fetcher
<1>4. Goes(f, pc) \/ Leaves(f, pc, from) \/ Begins(f, off) =>
        \A g \in F : g # f => fetcher'[g] = fetcher[g]
  BY DEF Goes, Leaves, Begins
<1> QED BY <1>1, <1>2, <1>3, <1>4

\* A fetcher that requests has a byte to fetch.
LEMMA RequestStep ==
  ASSUME TypeInv, fetcher' \in [F -> Fetcher], [Next]_vars, NEW f \in F, At(f, "request")'
  PROVE  fetcher'[f].off < fetcher'[f].end
<1>0. fetcher \in [F -> Fetcher] /\ (At(f, "request") => fetcher[f].off < fetcher[f].end)
  BY DEF TypeInv, TypeOK
<1>1. fetcher'[f].pc = "request"
  BY DEF At
<1>2. CASE fetcher'[f] = fetcher[f]
  BY <1>0, <1>1, <1>2 DEF At
<1>3. ASSUME NEW g \in F, FetchLoop(g)
      PROVE  fetcher'[f].off < fetcher'[f].end
  <2>1. CASE f # g
    <3>1. fetcher'[f] = fetcher[f]
      BY <1>3, <2>1, <1>0 DEF FetchLoop, Leaves, Fails, Goes
    <3> QED BY <3>1, <1>2
  <2>2. CASE f = g
    <3>1. fetcher[f].pc = "fetch"
      BY <1>3, <2>2 DEF FetchLoop, At
    <3>2. fetcher[f].off \in Nat /\ fetcher[f].end \in Nat
      BY <1>0 DEF Fetcher
    <3>3. Goes(f, "request") /\ ~(fetcher[f].off >= fetcher[f].end)
      <4>1. CASE Leaves(f, "idle", 0) \/ Leaves(f, "next", fetcher[f].from + FetchBlocks * BlockLen)
        BY <4>1, <1>0, <1>1, Moving
      <4>2. CASE Fails(f)
        BY <4>2, <1>0, <1>1, Moving DEF Fails
      <4>3. CASE fetcher' = [fetcher EXCEPT ![f].off =
                               Least(SpanEnd(fetcher[f].off), fetcher[f].end)]
        BY <4>3, <1>0, <1>1, <3>1 DEF Fetcher
      <4> QED BY <1>3, <2>2, <4>1, <4>2, <4>3 DEF FetchLoop
    <3>4. fetcher'[f].off = fetcher[f].off /\ fetcher'[f].end = fetcher[f].end
      BY <3>3, <1>0 DEF Goes, Fetcher
    <3> QED BY <3>2, <3>3, <3>4
  <2> QED BY <2>1, <2>2
<1>4. ASSUME NEW g \in F, LockNetwork(g) \/ Request(g) \/ Body(g) \/ Gives(g)
      PROVE  fetcher'[f] = fetcher[f]
  <2>1. fetcher'[g].pc # "request" /\ (f # g => fetcher'[f] = fetcher[f])
    <3>1. CASE LockNetwork(g)
      BY <3>1, <1>0 DEF LockNetwork, Leaves, Goes, Fetcher
    <3>2. CASE Request(g)
      BY <3>2, <1>0 DEF Request, Fails, Leaves, Fetcher
    <3>3. CASE Body(g)
      BY <3>3, <1>0 DEF Body, Fails, Leaves, Goes, Fetcher, At
    <3>4. CASE Gives(g)
      BY <3>4, <1>0 DEF Gives, Goes, Fetcher
    <3> QED BY <1>4, <3>1, <3>2, <3>3, <3>4
  <2> QED BY <2>1, <1>1
<1>5. CASE Ahead \/ Copy \/ TakeDemand \/ Probe
  <2>a. "pre" \in F /\ "dem" \in F
    BY DEF F
  <2>1. CASE Ahead
    <3>1. fetcher'["pre"].pc # "request" /\ (f # "pre" => fetcher'[f] = fetcher[f])
      <4>1. CASE Begins("pre", fetcher["pre"].from)
        BY <4>1, <2>a, <1>0 DEF Begins, Fetcher
      <4>2. CASE Leaves("pre", "gone", 0)
        BY <4>2, <2>a, <1>0 DEF Leaves
      <4> QED BY <2>1, <4>1, <4>2 DEF Ahead
    <3> QED BY <3>1, <1>1, <1>2
  <2>2. CASE Copy
    <3>1. fetcher'["pre"].pc # "request" /\ (f # "pre" => fetcher'[f] = fetcher[f])
      <4>1. fetcher["pre"].pc = "copy"
        BY <2>2 DEF Copy, At
      <4>2. CASE fetcher' = [fetcher EXCEPT !["pre"].off = fetcher["pre"].off + 1]
        BY <4>1, <4>2, <2>a, <1>0 DEF Fetcher
      <4>3. CASE Leaves("pre", "fail", 0) \/ Leaves("pre", "gone", 0)
        BY <4>3, <2>a, <1>0, Moving
      <4> QED BY <2>2, <4>2, <4>3 DEF Copy
    <3> QED BY <3>1, <1>1, <1>2
  <2>3. CASE TakeDemand
    <3>1. fetcher'["dem"].pc # "request" /\ (f # "dem" => fetcher'[f] = fetcher[f])
      BY <2>3, <2>a, <1>0 DEF TakeDemand, Goes, Fetcher
    <3> QED BY <3>1, <1>1, <1>2
  <2>4. CASE Probe
    <3>1. fetcher'["dem"].pc # "request" /\ (f # "dem" => fetcher'[f] = fetcher[f])
      BY <2>4, <2>a, <1>0 DEF Probe, Leaves, Begins, Fetcher
    <3> QED BY <3>1, <1>1, <1>2
  <2> QED BY <1>5, <2>1, <2>2, <2>3, <2>4
<1>6. CASE \/ Read \/ Seek \/ ReadAt \/ CheckEnded \/ SendDemand \/ Wake \/ CloseBegins
           \/ CloseEnds \/ SourceChanges \/ UNCHANGED vars
  <2>1. UNCHANGED fetcher
    BY <1>6 DEF Read, Seek, ReadAt, CheckEnded, SendDemand, Wake, CloseBegins, CloseEnds,
     SourceChanges, vars
  <2> QED BY <2>1, <1>2
<1> QED BY <1>2, <1>3, <1>4, <1>5, <1>6 DEF Next, Prefetcher, Demander, Reading, Fetch, F

\* FFmpeg's end, whoever wakes it.
LEMMA Notifying ==
  ASSUME NEW r \in Reader
  PROVE  Notified(r) \in Reader
<1>1. (r.pc \in {"ended", "demand", "wait"}) \in BOOLEAN
  OBVIOUS
<1> QED BY <1>1 DEF Notified, Reader

\* Who moves FFmpeg's end.
LEMMA ReaderMoves ==
  ASSUME TypeInv, [Next]_vars
  PROVE  \/ UNCHANGED reader \/ reader' = Notified(reader)
         \/ Read \/ Seek \/ ReadAt \/ CheckEnded \/ SendDemand \/ Wake
<1>1. CASE Ahead \/ Copy
  BY <1>1 DEF Ahead, Copy, End, EndNotifies, WriteAt
<1>2. ASSUME NEW f \in F, Fetch(f)
      PROVE  UNCHANGED reader \/ reader' = Notified(reader)
  BY <1>2 DEF Fetch, LockNetwork, FetchLoop, Request, Body, Gives, End, EndNotifies, WriteAt
<1>3. CASE TakeDemand \/ Probe \/ CloseBegins \/ CloseEnds \/ SourceChanges \/ UNCHANGED vars
  BY <1>3 DEF TakeDemand, Probe, CloseBegins, CloseEnds, SourceChanges, vars
<1> QED BY <1>1, <1>2, <1>3 DEF Next, Prefetcher, Demander, Reading, F

LEMMA ReaderStep ==
  ASSUME Admissible, TypeInv, [Next]_vars
  PROVE  reader' \in Reader
<1>0. reader \in Reader
  BY DEF TypeInv, TypeOK
<1>1. CASE \/ UNCHANGED reader \/ reader' = Notified(reader)
  BY <1>1, <1>0, Notifying
<1>2. ASSUME NEW a \in {"none", "eof", "error"}, Answers(a)
      PROVE  reader' \in Reader
  BY <1>2, <1>0 DEF Answers, Reader
<1>6. CASE Read
  BY <1>6, <1>0 DEF Read, Reader
<1>7. CASE Seek
  <2>1. PICK o \in Cell : reader' = [reader EXCEPT !.pos = o, !.answer = "none"]
    BY <1>7 DEF Seek
  <2>2. o \in Nat
    BY DEF Cell
  <2> QED BY <2>1, <2>2, <1>0 DEF Reader
<1>8. CASE ReadAt
  <2>1. CASE AtEnd \/ Answers("error")
    BY <2>1, <1>2 DEF AtEnd
  <2>2. CASE Deliver
    <3>1. PICK n \in Readable(reader.pos) : reader' = [reader EXCEPT !.pc = "idle", !.pos = reader.pos + n]
      BY <2>2 DEF Deliver
    <3>2. reader.pos + n \in Nat
      BY <1>0 DEF Reader, Readable
    <3> QED BY <3>1, <3>2, <1>0 DEF Reader
  <2>3. CASE reader' = [reader EXCEPT !.pc = IF setup.ranged THEN "demand" ELSE "ended",
                                      !.woken = FALSE]
    BY <2>3, <1>0 DEF Reader
  <2> QED BY <1>8, <2>1, <2>2, <2>3 DEF ReadAt
<1>9. CASE CheckEnded
  <2>1. CASE AtEnd \/ Answers("error")
    BY <2>1, <1>2 DEF AtEnd
  <2>2. CASE reader' = [reader EXCEPT !.pc = "wait"]
    BY <2>2, <1>0 DEF Reader
  <2>3. CASE reader' = [reader EXCEPT !.pc = "read", !.woken = FALSE]
    BY <2>3, <1>0 DEF Reader
  <2> QED BY <1>9, <2>1, <2>2, <2>3 DEF CheckEnded
<1>10. CASE SendDemand
  BY <1>10, <1>0 DEF SendDemand, Reader
<1>11. CASE Wake
  <2>1. CASE Answers("error")
    BY <2>1, <1>2
  <2>2. CASE reader' = [reader EXCEPT !.pc = "read", !.woken = FALSE]
    BY <2>2, <1>0 DEF Reader
  <2> QED BY <1>11, <2>1, <2>2 DEF Wake
<1> QED BY <1>1, <1>6, <1>7, <1>8, <1>9, <1>10, <1>11, ReaderMoves

\* A reader that demands is not at the end.
LEMMA DemandStep ==
  ASSUME Admissible, TypeInv, [Next]_vars, reader'.pc = "demand"
  PROVE  reader'.pos < Size
<1>0. reader \in Reader /\ (reader.pc = "demand" => reader.pos < Size)
  BY DEF TypeInv, TypeOK
<1>1. CASE reader'.pc = reader.pc /\ reader'.pos = reader.pos
  BY <1>0, <1>1
<1>a. Notified(reader).pc = reader.pc /\ Notified(reader).pos = reader.pos
  BY <1>0 DEF Notified, Reader
<1>2. CASE \/ UNCHANGED reader \/ reader' = Notified(reader)
  BY <1>1, <1>2, <1>a
<1>6. CASE Read \/ SendDemand \/ Wake
  <2>1. reader'.pc # "demand"
    BY <1>6, <1>0 DEF Read, SendDemand, Wake, Answers, Reader
  <2> QED BY <2>1
<1>7. CASE Seek \/ CheckEnded
  <2>1. reader'.pc # "demand"
    BY <1>7, <1>0 DEF Seek, CheckEnded, Answers, AtEnd, Reader
  <2> QED BY <2>1
<1>8. CASE ReadAt
  <2>1. /\ ~(setup.ranged /\ reader.pos >= Size) /\ setup.ranged
        /\ reader'.pos = reader.pos
    BY <1>8, <1>0 DEF ReadAt, AtEnd, Answers, Deliver, Reader
  <2> QED BY <2>1, <1>0 DEF Reader, Admissible
<1> QED BY <1>2, <1>6, <1>7, <1>8, ReaderMoves

\* A byte that is written is one of a version a response came from; one that is removed
\* leaves a hole.
CellsStay == \A c \in Cell : cells'[c] \in {cells[c], Hole}
Writes(f) ==
  /\ f \in F /\ fetcher[f].off < Size /\ cells' = [cells EXCEPT ![fetcher[f].off] = ver[f]]

LEMMA CellsChange ==
  ASSUME Admissible, TypeInv, [Next]_vars
  PROVE  \/ UNCHANGED cells
         \/ Copy /\ ~cancelled /\ ~ended /\ ~Broken /\ Writes("pre")
         \/ \E f \in F : Body(f) /\ ~Broken /\ Writes(f)
         \/ ReadAt \/ CheckEnded \/ CloseEnds
<1>0. fetcher \in [F -> Fetcher] /\ "pre" \in F
  BY DEF TypeInv, TypeOK, F
<1>1. CASE Copy
  BY <1>1, <1>0 DEF Copy, WriteAt, Writes
<1>2. ASSUME NEW f \in F, Body(f)
      PROVE  UNCHANGED cells \/ (~Broken /\ Writes(f))
  <2>1. fetcher[f].off \in Nat /\ fetcher[f].last \in 0 .. Size
    BY <1>0 DEF Fetcher
  <2>2. fetcher[f].off < fetcher[f].last => fetcher[f].off < Size
    BY <2>1 DEF Admissible
  <2>3. CASE UNCHANGED cells
    BY <2>3
  <2>4. CASE fetcher[f].off < fetcher[f].last /\ ~Broken /\ WriteAt(fetcher[f].off, ver[f])
    BY <2>2, <2>4 DEF WriteAt, Writes
  <2> QED BY <1>2, <2>3, <2>4 DEF Body
<1>3. ASSUME NEW f \in F, LockNetwork(f) \/ FetchLoop(f) \/ Request(f) \/ Gives(f)
      PROVE  UNCHANGED cells
  BY <1>3 DEF LockNetwork, FetchLoop, Request, Gives
<1>4. CASE \/ Ahead \/ TakeDemand \/ Probe \/ Read \/ Seek \/ SendDemand \/ Wake \/ CloseBegins
           \/ SourceChanges \/ UNCHANGED vars
  BY <1>4 DEF Ahead, TakeDemand, Probe, Read, Seek, SendDemand, Wake, CloseBegins, SourceChanges,
     vars
<1> QED BY <1>1, <1>2, <1>3, <1>4 DEF Next, Prefetcher, Demander, Reading, Fetch, F

\* Reading and closing write nothing.
LEMMA CellsAreRemoved ==
  ASSUME TypeInv, ReadAt \/ CheckEnded \/ CloseEnds
  PROVE  cells' \in [Cell -> {Hole, 1, 2}] /\ CellsStay
<1>0. cells \in [Cell -> {Hole, 1, 2}]
  BY DEF TypeInv, TypeOK
<1>1. CASE UNCHANGED cells
  BY <1>1, <1>0 DEF CellsStay
<1>2. ASSUME NEW S, cells' = [c \in Cell |-> IF c \in S THEN Hole ELSE cells[c]]
      PROVE  cells' \in [Cell -> {Hole, 1, 2}] /\ CellsStay
  BY <1>2, <1>0 DEF CellsStay
<1>3. CASE AtEnd
  BY <1>3, <1>2 DEF AtEnd
<1>4. CASE Deliver
  <2>1. PICK n \in Readable(reader.pos) : cells' = Discarded(reader.pos, reader.pos + n)
    BY <1>4 DEF Deliver
  <2>2. PICK S : S = {c \in Cell : /\ c \in Block(reader.pos)
                                   /\ (reader.pos + n) \div BlockLen > reader.pos \div BlockLen}
    OBVIOUS
  <2>3. cells' = [c \in Cell |-> IF c \in S THEN Hole ELSE cells[c]]
    BY <2>1, <2>2 DEF Discarded
  <2> QED BY <2>3, <1>2
<1>5. CASE ReadAt
  BY <1>5, <1>1, <1>3, <1>4 DEF ReadAt
<1>6. CASE CheckEnded
  BY <1>6, <1>1, <1>3 DEF CheckEnded
<1>7. CASE CloseEnds
  BY <1>7, <1>0 DEF CloseEnds, CellsStay
<1> QED BY <1>5, <1>6, <1>7

LEMMA CellsStep ==
  ASSUME Admissible, TypeInv, [Next]_vars
  PROVE  cells' \in [Cell -> {Hole, 1, 2}]
<1>0. cells \in [Cell -> {Hole, 1, 2}] /\ ver \in [F -> {1, 2}] /\ fetcher \in [F -> Fetcher]
  BY DEF TypeInv, TypeOK
<1>1. ASSUME NEW f \in F, Writes(f)
      PROVE  cells' \in [Cell -> {Hole, 1, 2}]
  <2>1. ver[f] \in {1, 2}
    BY <1>0
  <2> QED BY <1>0, <1>1, <2>1 DEF Writes
<1> QED BY <1>0, <1>1, CellsChange, CellsAreRemoved DEF Writes

\* What FFmpeg hears are bytes that are there.
LEMMA HeardStep ==
  ASSUME TypeInv, [Next]_vars
  PROVE  \A v \in heard' : v \in heard \/ (v # Hole /\ \E c \in Cell : v = cells[c])
<1>1. CASE UNCHANGED heard
  BY <1>1
<1>2. CASE Deliver
  <2>1. PICK n \in Readable(reader.pos) :
          heard' = heard \cup {cells[reader.pos + k] : k \in 0 .. n - 1}
    BY <1>2 DEF Deliver
  <2>2. reader.pos \in Nat
    BY DEF TypeInv, TypeOK, Reader
  <2>3. \A k \in 0 .. n - 1 : cells[reader.pos + k] # Hole /\ reader.pos + k \in Cell
    BY <2>2 DEF Readable, Present, Block
  <2> QED BY <2>1, <2>3
<1>3. CASE Reading
  BY <1>1, <1>2, <1>3 DEF Reading, ReadAt, CheckEnded, SendDemand, Wake, AtEnd
<1>4. ASSUME NEW f \in F, Fetch(f)
      PROVE  UNCHANGED heard
  BY <1>4 DEF Fetch, LockNetwork, FetchLoop, Request, Body, Gives
<1>5. CASE \/ Ahead \/ Copy \/ TakeDemand \/ Probe \/ Read \/ Seek \/ CloseBegins \/ CloseEnds
           \/ SourceChanges \/ UNCHANGED vars
  BY <1>1, <1>5 DEF Ahead, Copy, TakeDemand, Probe, Read, Seek, CloseBegins, CloseEnds,
     SourceChanges, vars
<1> QED BY <1>1, <1>3, <1>4, <1>5 DEF Next, Prefetcher, Demander, F

\* A response is of the version its request met.
LEMMA VersionStep ==
  ASSUME TypeInv, [Next]_vars
  PROVE  /\ origin' = origin \/ (origin' = 2 /\ SourceChanges)
         /\ \/ ver' = ver
            \/ \E f \in F : ver' = [ver EXCEPT ![f] = origin] /\ SameVersion
<1>1. ASSUME NEW f \in F, Request(f)
      PROVE  /\ origin' = origin
             /\ ver' = ver \/ (ver' = [ver EXCEPT ![f] = origin] /\ SameVersion)
  BY <1>1 DEF Request
<1>2. ASSUME NEW f \in F, LockNetwork(f) \/ FetchLoop(f) \/ Body(f) \/ Gives(f)
      PROVE  UNCHANGED <<origin, ver>>
  BY <1>2 DEF LockNetwork, FetchLoop, Body, Gives
<1>3. CASE SourceChanges
  BY <1>3 DEF SourceChanges
<1>4. CASE \/ Ahead \/ Copy \/ TakeDemand \/ Probe \/ Read \/ Seek \/ ReadAt \/ CheckEnded
           \/ SendDemand \/ Wake \/ CloseBegins \/ CloseEnds \/ UNCHANGED vars
  BY <1>4 DEF Ahead, Copy, TakeDemand, Probe, Read, Seek, ReadAt, CheckEnded, SendDemand, Wake,
     CloseBegins, CloseEnds, vars
<1> QED BY <1>1, <1>2, <1>3, <1>4 DEF Next, Prefetcher, Demander, Reading, Fetch, F

\* The end, the error, the demand and the network.
LEMMA FlagsStep ==
  ASSUME Admissible, TypeInv, [Next]_vars
  PROVE  /\ {err, ended, closed, cancelled}' \subseteq BOOLEAN
         /\ demand' \in Cell \cup {NoDemand} /\ network' \in F \cup {"free"}
<1>0. /\ err \in BOOLEAN /\ ended \in BOOLEAN /\ closed \in BOOLEAN /\ cancelled \in BOOLEAN
      /\ demand \in Cell \cup {NoDemand} /\ network \in F \cup {"free"}
  BY DEF TypeInv, TypeOK
<1> DEFINE Flags == err' \in BOOLEAN /\ ended' \in BOOLEAN /\ closed' \in BOOLEAN
                    /\ cancelled' \in BOOLEAN
           Rest == demand' \in Cell \cup {NoDemand} /\ network' \in F \cup {"free"}
<1>a. UNCHANGED <<err, ended, closed, cancelled>> => Flags
  BY <1>0
<1>b. UNCHANGED <<demand, network>> => Rest
  BY <1>0
<1>c. (\E b \in BOOLEAN : End(b)) /\ UNCHANGED <<closed, cancelled>> => Flags
  BY <1>0 DEF End
<1> SUFFICES Flags /\ Rest
  OBVIOUS
<1> HIDE DEF Flags, Rest
<1>1. CASE Ahead
  BY <1>1, <1>a, <1>b, <1>c DEF Ahead
<1>2. CASE Copy
  BY <1>2, <1>a, <1>b, <1>c DEF Copy
<1>3. CASE TakeDemand
  <2>1. Rest
    BY <1>3, <1>0 DEF TakeDemand, Rest
  <2> QED BY <1>3, <2>1, <1>a DEF TakeDemand
<1>4. CASE Probe \/ Read \/ Seek \/ ReadAt \/ CheckEnded \/ Wake \/ SourceChanges
  BY <1>4, <1>a, <1>b DEF Probe, Read, Seek, ReadAt, CheckEnded, Wake, SourceChanges
<1>5. ASSUME NEW f \in F, LockNetwork(f) \/ FetchLoop(f) \/ Request(f) \/ Body(f)
      PROVE  Flags /\ Rest
  <2>1. UNCHANGED demand /\ network' \in {network, f, "free"}
    BY <1>5 DEF LockNetwork, FetchLoop, Request, Body, Fails
  <2>2. Rest
    BY <2>1, <1>0 DEF Rest
  <2>3. UNCHANGED <<err, ended, closed, cancelled>>
    BY <1>5 DEF LockNetwork, FetchLoop, Request, Body
  <2> QED BY <2>2, <2>3, <1>a
<1>6. ASSUME NEW f \in F, Gives(f)
      PROVE  Flags /\ Rest
  BY <1>6, <1>b, <1>c DEF Gives
<1>7. CASE SendDemand
  <2>1. reader.pos \in Cell
    BY <1>7 DEF SendDemand, TypeInv, TypeOK, Reader, Cell, Admissible
  <2>2. Rest
    BY <1>7, <2>1, <1>0 DEF SendDemand, Rest
  <2> QED BY <1>7, <2>2, <1>a DEF SendDemand
<1>8. CASE CloseBegins
  <2>1. Flags
    BY <1>8, <1>0 DEF CloseBegins, Flags
  <2> QED BY <1>8, <2>1, <1>b DEF CloseBegins
<1>9. CASE CloseEnds
  <2>1. Flags
    BY <1>9, <1>0 DEF CloseEnds, Flags
  <2> QED BY <1>9, <2>1, <1>b DEF CloseEnds
<1>10. CASE UNCHANGED vars
  BY <1>10, <1>a, <1>b DEF vars
<1> QED BY <1>1, <1>2, <1>3, <1>4, <1>5, <1>6, <1>7, <1>8, <1>9, <1>10
   DEF Next, Prefetcher, Demander, Reading, Fetch, F

LEMMA InitType == Admissible /\ Init => TypeInv
<1> SUFFICES ASSUME Admissible, Init
             PROVE  TypeInv
  OBVIOUS
<1>1. setup \in Setup /\ origin \in {1, 2} /\ ver \in [F -> {1, 2}] /\ heard \subseteq {1, 2}
  BY DEF Init, Admissible
<1>2. cells \in [Cell -> {Hole, 1, 2}]
  BY DEF Init
<1>3. 0 \in 0 .. Size
  BY DEF Admissible
<1>4. fetcher \in [F -> Fetcher] /\ \A f \in F : ~At(f, "request")
  BY <1>3 DEF Init, Fetcher, At
<1>5. reader \in Reader /\ reader.pc = "idle"
  BY DEF Init, Reader
<1>6. /\ {err, ended, closed, cancelled} \subseteq BOOLEAN
      /\ demand \in Cell \cup {NoDemand} /\ network \in F \cup {"free"}
  BY DEF Init
<1> QED BY <1>1, <1>2, <1>4, <1>5, <1>6 DEF TypeInv, TypeOK

LEMMA TypeStep == Admissible /\ TypeInv /\ [Next]_vars => TypeInv'
<1> SUFFICES ASSUME Admissible, TypeInv, [Next]_vars
             PROVE  TypeInv'
  OBVIOUS
<1>0. /\ origin \in {1, 2} /\ ver \in [F -> {1, 2}] /\ heard \subseteq {1, 2} /\ setup \in Setup
      /\ cells \in [Cell -> {Hole, 1, 2}]
  BY DEF TypeInv, TypeOK
<1>1. setup' \in Setup
  BY <1>0, SetupStep DEF SetupShrinks
<1>2. origin' \in {1, 2} /\ ver' \in [F -> {1, 2}]
  BY <1>0, VersionStep
<1>3. heard' \subseteq {1, 2}
  <2> SUFFICES ASSUME NEW v \in heard'
               PROVE  v \in {1, 2}
    OBVIOUS
  <2>1. v \in heard \/ (v # Hole /\ \E c \in Cell : v = cells[c])
    BY HeardStep
  <2> QED BY <2>1, <1>0
<1>4. TypeOK'
  BY CellsStep, FlagsStep, FetcherStep, ReaderStep DEF TypeOK
<1>5. \A f \in F : At(f, "request")' => fetcher'[f].off < fetcher'[f].end
  BY FetcherStep, RequestStep
<1>6. reader'.pc = "demand" => reader'.pos < Size
  BY DemandStep
<1> QED BY <1>1, <1>2, <1>3, <1>4, <1>5, <1>6 DEF TypeInv

-----------------------------------------------------------------------------
(* One version.                                                            *)

\* The source tells its version, or has only one.
OneVersion == setup.tells \/ setup.changes = 0

OneVersionInv ==
  /\ setup.tells \/ (setup.changes = 0 /\ origin = 1)
  /\ \A f \in F : ver[f] = 1
  /\ \A c \in Cell : cells[c] \in {Hole, 1}
  /\ heard \subseteq {1}

LEMMA OneVersionStep == Admissible /\ TypeInv /\ OneVersionInv /\ [Next]_vars => OneVersionInv'
<1> SUFFICES ASSUME Admissible, TypeInv, OneVersionInv, [Next]_vars
             PROVE  OneVersionInv'
  OBVIOUS
<1>0. /\ setup \in Setup /\ ver \in [F -> {1, 2}] /\ cells \in [Cell -> {Hole, 1, 2}]
      /\ fetcher \in [F -> Fetcher]
  BY DEF TypeInv, TypeOK
<1>1. setup'.tells \/ (setup'.changes = 0 /\ origin' = 1)
  <2>1. SetupShrinks
    BY <1>0, SetupStep
  <2>2. CASE setup.tells
    BY <2>1, <2>2 DEF SetupShrinks
  <2>3. CASE setup.changes = 0 /\ origin = 1
    <3>1. ~SourceChanges
      BY <2>3 DEF SourceChanges, Spend
    <3>2. setup'.changes = 0
      BY <2>1, <2>3 DEF SetupShrinks, Setup
    <3> QED BY <3>1, <3>2, <2>3, VersionStep
  <2> QED BY <2>2, <2>3 DEF OneVersionInv
<1>2. \A f \in F : ver'[f] = 1
  <2>1. SameVersion => origin = 1
    BY DEF SameVersion, OneVersionInv
  <2> QED BY <2>1, <1>0, VersionStep DEF OneVersionInv
<1>3. \A c \in Cell : cells'[c] \in {Hole, 1}
  <2>1. ASSUME NEW f \in F, Writes(f)
        PROVE  \A c \in Cell : cells'[c] \in {Hole, 1}
    BY <2>1, <1>0 DEF Writes, OneVersionInv
  <2>2. CASE CellsStay
    BY <2>2 DEF CellsStay, OneVersionInv
  <2> QED BY <2>1, <2>2, CellsChange, CellsAreRemoved DEF OneVersionInv, Writes
<1>4. heard' \subseteq {1}
  BY HeardStep DEF OneVersionInv
<1> QED BY <1>1, <1>2, <1>3, <1>4 DEF OneVersionInv

-----------------------------------------------------------------------------
(* The end of a closed input, and of the source.                           *)

\* Close has waited for both goroutines, and nobody writes any more.
ClosedInv == closed => (\A f \in F : At(f, "gone")) /\ ClosedIsEmpty

LEMMA ClosedStep == Admissible /\ TypeInv /\ ClosedInv /\ [Next]_vars => ClosedInv'
<1> SUFFICES ASSUME Admissible, TypeInv, ClosedInv, [Next]_vars, closed'
             PROVE  (\A f \in F : At(f, "gone")') /\ ClosedIsEmpty'
  BY DEF ClosedInv
<1>0. "pre" \in F /\ "dem" \in F /\ fetcher \in [F -> Fetcher] /\ cells \in [Cell -> {Hole, 1, 2}]
  BY DEF F, TypeInv, TypeOK
<1>1. CASE CloseEnds
  BY <1>1 DEF CloseEnds, At, ClosedIsEmpty
<1>2. CASE ~CloseEnds
  <2>1. closed
    BY <1>2 DEF Next, Prefetcher, Demander, Reading, Fetch, Ahead, Copy, TakeDemand, Probe,
       LockNetwork, FetchLoop, Request, Body, Gives, ReadAt, CheckEnded, SendDemand, Wake, Read,
       Seek, CloseBegins, SourceChanges, vars
  <2>2. /\ \A f \in F, pc \in {"next", "copy", "idle", "probe", "lock", "fetch", "request",
                               "body", "fail"} : ~At(f, pc)
        /\ \A c \in Cell : cells[c] = Hole
    BY <2>1 DEF ClosedInv, ClosedIsEmpty, At
  <2>3. ~Prefetcher /\ ~Demander
    BY <2>2, <1>0 DEF Prefetcher, Demander, Fetch, Ahead, Copy, TakeDemand, Probe, LockNetwork,
       FetchLoop, Request, Body, Gives
  <2>4. UNCHANGED fetcher
    BY <1>2, <2>3 DEF Next, Reading, ReadAt, CheckEnded, SendDemand, Wake, Read, Seek,
       CloseBegins, SourceChanges, vars
  <2>5. \A f \in F : ~Writes(f) \/ ~Body(f)
    BY <2>2 DEF Body
  <2>6. UNCHANGED cells \/ CellsStay
    BY <1>2, <2>3, <2>5, CellsChange, CellsAreRemoved DEF Prefetcher
  <2>7. \A c \in Cell : cells'[c] = Hole
    BY <2>2, <2>6 DEF CellsStay
  <2> QED BY <2>1, <2>4, <2>7 DEF ClosedIsEmpty, ClosedInv, At
<1> QED BY <1>1, <1>2

\* FFmpeg is told of the end only when it asks, and asks no more then; only a source
\* without Range is read to an end that was announced.
EndIsAnswered ==
  /\ reader.pc # "idle" => reader.answer = "none"
  /\ reader.pc = "ended" => ~setup.ranged
  /\ reader.answer = "eof" => reader.pos >= Size

\* A source without Range is copied in order and nobody demands bytes of it: everything
\* between FFmpeg and the copy is there, and everything behind FFmpeg once the copy has
\* ended without an error.
StreamIsInOrder ==
  /\ demand = NoDemand /\ reader.pc # "demand"
  /\ fetcher["dem"].pc \in {"idle", "gone"} /\ fetcher["pre"].pc \in {"copy", "fail", "gone"}
  /\ ended <=> fetcher["pre"].pc = "gone"
  /\ fetcher["pre"].pc = "copy" =>
       \A c \in Cell : reader.pos <= c /\ c < fetcher["pre"].off => cells[c] # Hole
  /\ fetcher["pre"].pc = "gone" /\ ~Broken => \A c \in Cell : reader.pos <= c => cells[c] # Hole

EndInv == EndIsAnswered /\ (~setup.ranged => StreamIsInOrder)

\* The end FFmpeg is told of is that of the source.
LEMMA AtEndOfSource ==
  ASSUME Admissible, TypeInv, EndInv, AtEnd, ReadAt \/ CheckEnded
  PROVE  reader.pos >= Size
<1>1. reader.pos \in Nat /\ Size \in Nat /\ reader \in Reader
  BY DEF TypeInv, TypeOK, Reader, Admissible
<1>2. CASE ReadAt
  <2>1. reader'.answer = "eof" /\ reader'.pc = "idle" /\ reader'.pos = reader.pos
    BY <1>1 DEF AtEnd, Answers, Reader
  <2>2. reader.answer = "none"
    BY <1>2 DEF ReadAt, EndInv, EndIsAnswered
  <2>3. setup.ranged /\ reader.pos >= Size
    BY <1>2, <1>1, <2>1, <2>2 DEF ReadAt, Answers, Deliver, Reader
  <2> QED BY <2>3
<1>3. CASE CheckEnded
  <2>1. reader'.answer = "eof" /\ reader.answer = "none"
    BY <1>1, <1>3 DEF AtEnd, Answers, Reader, CheckEnded, EndInv, EndIsAnswered
  <2>2. ended /\ ~Broken /\ NothingLeft
    BY <1>1, <1>3, <2>1 DEF CheckEnded, Answers, Reader
  <2>3. StreamIsInOrder
    BY <1>3 DEF CheckEnded, EndInv, EndIsAnswered
  <2>4. \A c \in Cell : reader.pos <= c => cells[c] # Hole
    BY <2>2, <2>3 DEF StreamIsInOrder
  <2>5. reader.pos < Size => Present(reader.pos)
    BY <1>1, <2>4 DEF Present, Cell
  <2> QED BY <1>1, <2>2, <2>5, OneIsReadable DEF NothingLeft
<1> QED BY <1>2, <1>3

\* A read goes on behind the bytes it returns, and removes none that it has still to return.
LEMMA ReadingKeeps ==
  ASSUME Admissible, TypeInv, EndInv, ReadAt \/ CheckEnded
  PROVE  /\ reader.pos <= reader'.pos
         /\ \A c \in Cell : reader'.pos <= c => cells'[c] = cells[c]
<1>1. reader.pos \in Nat /\ Size \in Nat /\ reader \in Reader /\ BlockLen \in Nat \ {0}
      /\ cells \in [Cell -> {Hole, 1, 2}]
  BY DEF TypeInv, TypeOK, Reader, Admissible
<1>2. CASE AtEnd
  <2>1. reader'.pos = reader.pos /\ reader.pos >= Size
    BY <1>1, <1>2, AtEndOfSource DEF AtEnd, Answers, Reader
  <2>2. \A c \in Cell : ~(reader'.pos <= c)
    BY <1>1, <2>1 DEF Cell
  <2> QED BY <1>1, <2>1, <2>2
<1>3. CASE Deliver
  <2>1. PICK n \in Readable(reader.pos) :
          /\ cells' = Discarded(reader.pos, reader.pos + n)
          /\ reader' = [reader EXCEPT !.pc = "idle", !.pos = reader.pos + n]
    BY <1>3 DEF Deliver
  <2>2. n \in Nat /\ reader'.pos = reader.pos + n
    BY <1>1, <2>1 DEF Readable, Reader
  <2>3. ASSUME NEW c \in Cell, reader'.pos <= c
        PROVE  cells'[c] = cells[c]
    <3>1. c \in Nat /\ reader.pos + n \in Nat /\ reader.pos + n <= c
      BY <1>1, <2>2, <2>3 DEF Cell
    <3>2. (reader.pos + n) \div BlockLen <= c \div BlockLen
      BY <1>1, <3>1, BlocksAreOrdered
    <3>3. /\ (reader.pos + n) \div BlockLen \in Int /\ c \div BlockLen \in Int
          /\ reader.pos \div BlockLen \in Int
      BY <1>1, <3>1
    <3>4. (reader.pos + n) \div BlockLen > reader.pos \div BlockLen => c \notin Block(reader.pos)
      BY <3>2, <3>3 DEF Block
    <3> QED BY <2>1, <3>4 DEF Discarded
  <2> QED BY <1>1, <2>2, <2>3
<1>4. CASE UNCHANGED cells /\ reader'.pos = reader.pos
  BY <1>1, <1>4
<1>5. CASE ReadAt
  BY <1>1, <1>2, <1>3, <1>4, <1>5 DEF ReadAt, Answers, Reader
<1>6. CASE CheckEnded
  BY <1>1, <1>2, <1>4, <1>6 DEF CheckEnded, Answers, Reader
<1> QED BY <1>5, <1>6

LEMMA AnswerStep ==
  ASSUME Admissible, TypeInv, EndInv, [Next]_vars
  PROVE  EndIsAnswered'
<1>0. /\ reader \in Reader /\ EndIsAnswered /\ setup'.ranged = setup.ranged
      /\ reader.pos \in Nat /\ Size \in Nat
  BY SetupStep DEF TypeInv, TypeOK, EndInv, SetupShrinks, Reader, Admissible
<1>a. /\ Notified(reader).pc = reader.pc /\ Notified(reader).pos = reader.pos
      /\ Notified(reader).answer = reader.answer
  BY <1>0 DEF Notified, Reader
<1>b. ASSUME NEW a \in {"none", "error"}, Answers(a)
      PROVE  EndIsAnswered'
  BY <1>b, <1>0 DEF Answers, EndIsAnswered, Reader
<1>1. CASE UNCHANGED reader \/ reader' = Notified(reader)
  BY <1>1, <1>0, <1>a DEF EndIsAnswered
<1>2. CASE Read
  BY <1>2, <1>0 DEF Read, EndIsAnswered, Reader
<1>3. CASE Seek
  <2>1. reader'.pc = "idle" /\ reader'.answer = "none"
    BY <1>3, <1>0 DEF Seek, Reader
  <2> QED BY <2>1 DEF EndIsAnswered
<1>4. CASE AtEnd /\ (ReadAt \/ CheckEnded)
  <2>1. reader'.pc = "idle" /\ reader'.pos = reader.pos /\ reader.pos >= Size
    BY <1>0, <1>4, AtEndOfSource DEF AtEnd, Answers, Reader
  <2> QED BY <2>1, <1>0 DEF EndIsAnswered
<1>5. CASE ReadAt
  <2>0. reader.answer = "none"
    BY <1>0, <1>5 DEF ReadAt, EndIsAnswered
  <2>1. CASE Deliver
    BY <2>0, <2>1, <1>0 DEF Deliver, EndIsAnswered, Reader
  <2>2. CASE reader' = [reader EXCEPT !.pc = IF setup.ranged THEN "demand" ELSE "ended",
                                      !.woken = FALSE]
    BY <2>0, <2>2, <1>0 DEF EndIsAnswered, Reader
  <2> QED BY <1>4, <1>5, <1>b, <2>1, <2>2 DEF ReadAt
<1>6. CASE CheckEnded
  <2>0. reader.answer = "none"
    BY <1>0, <1>6 DEF CheckEnded, EndIsAnswered
  <2>1. CASE reader' = [reader EXCEPT !.pc = "wait"]
    BY <2>0, <2>1, <1>0 DEF EndIsAnswered, Reader
  <2>2. CASE reader' = [reader EXCEPT !.pc = "read", !.woken = FALSE]
    BY <2>0, <2>2, <1>0 DEF EndIsAnswered, Reader
  <2> QED BY <1>4, <1>6, <1>b, <2>1, <2>2 DEF CheckEnded
<1>7. CASE SendDemand
  BY <1>7, <1>0 DEF SendDemand, EndIsAnswered, Reader
<1>8. CASE Wake
  <2>1. CASE reader' = [reader EXCEPT !.pc = "read", !.woken = FALSE]
    BY <1>8, <2>1, <1>0 DEF Wake, EndIsAnswered, Reader
  <2> QED BY <1>8, <1>b, <2>1 DEF Wake
<1> QED BY <1>1, <1>2, <1>3, <1>5, <1>6, <1>7, <1>8, ReaderMoves

LEMMA StreamStep ==
  ASSUME Admissible, TypeInv, EndInv, ~setup.ranged, [Next]_vars
  PROVE  StreamIsInOrder'
<1>0. /\ fetcher \in [F -> Fetcher] /\ "pre" \in F /\ "dem" \in F /\ reader \in Reader
      /\ cells \in [Cell -> {Hole, 1, 2}] /\ ver["pre"] # Hole /\ reader.pos \in Nat
      /\ fetcher["pre"].off \in Nat
  BY DEF TypeInv, TypeOK, F, Reader, Fetcher, Hole
<1>1. StreamIsInOrder
  BY DEF EndInv
<1>2. /\ demand = NoDemand /\ reader.pc # "demand"
      /\ fetcher["dem"].pc \in {"idle", "gone"} /\ fetcher["pre"].pc \in {"copy", "fail", "gone"}
      /\ ended <=> fetcher["pre"].pc = "gone"
  BY <1>1 DEF StreamIsInOrder
<1>a. /\ Notified(reader).pc = reader.pc /\ Notified(reader).pos = reader.pos
  BY <1>0 DEF Notified, Reader
<1> DEFINE Same == UNCHANGED <<demand, fetcher, ended, err, closed>>
<1>3. ASSUME Same, reader'.pc # "demand", reader'.pos >= reader.pos, reader'.pos \in Nat,
             \A c \in Cell : reader'.pos <= c => cells'[c] = cells[c]
      PROVE  StreamIsInOrder'
  <2>1. \A c \in Cell : reader'.pos <= c => reader.pos <= c
    BY <1>0, <1>3 DEF Cell
  <2> QED BY <1>1, <1>3, <2>1 DEF StreamIsInOrder, Broken
<1>4. CASE Same /\ UNCHANGED cells /\ reader'.pc # "demand" /\ reader'.pos = reader.pos
  BY <1>0, <1>3, <1>4
<1>5. CASE Copy
  <2>0. /\ fetcher["pre"].pc = "copy" /\ UNCHANGED demand
        /\ \A c \in Cell : reader.pos <= c /\ c < fetcher["pre"].off => cells[c] # Hole
    BY <1>1, <1>5 DEF Copy, At, StreamIsInOrder
  <2>1. reader'.pc = reader.pc /\ reader'.pos = reader.pos
    BY <1>5, <1>a DEF Copy, WriteAt, End, EndNotifies
  <2>2. CASE /\ fetcher["pre"].off < Size /\ cells' = [cells EXCEPT ![fetcher["pre"].off] = ver["pre"]]
             /\ fetcher' = [fetcher EXCEPT !["pre"].off = fetcher["pre"].off + 1]
             /\ UNCHANGED ended
    <3>1. /\ fetcher'["dem"] = fetcher["dem"] /\ fetcher'["pre"].pc = "copy"
          /\ fetcher'["pre"].off = fetcher["pre"].off + 1
      BY <2>0, <2>2, <1>0 DEF Fetcher
    <3>2. ASSUME NEW c \in Cell, reader.pos <= c, c < fetcher["pre"].off + 1
          PROVE  cells'[c] # Hole
      <4>1. CASE c = fetcher["pre"].off
        BY <1>0, <2>2, <4>1
      <4>2. CASE c # fetcher["pre"].off
        <5>1. c < fetcher["pre"].off
          BY <1>0, <3>2, <4>2 DEF Cell
        <5> QED BY <1>0, <2>0, <2>2, <3>2, <4>2, <5>1
      <4> QED BY <4>1, <4>2
    <3> QED BY <1>2, <2>0, <2>1, <2>2, <3>1, <3>2 DEF StreamIsInOrder
  <2>3. CASE Leaves("pre", "fail", 0) /\ UNCHANGED ended
    <3>1. fetcher'["dem"] = fetcher["dem"] /\ fetcher'["pre"].pc = "fail"
      BY <2>3, <1>0 DEF Leaves
    <3> QED BY <1>2, <2>0, <2>1, <2>3, <3>1 DEF StreamIsInOrder
  <2>4. CASE /\ fetcher["pre"].off = Size /\ Leaves("pre", "gone", 0) /\ ended' = TRUE
             /\ UNCHANGED cells
    <3>1. fetcher'["dem"] = fetcher["dem"] /\ fetcher'["pre"].pc = "gone"
      BY <2>4, <1>0 DEF Leaves
    <3>2. \A c \in Cell : reader.pos <= c => cells[c] # Hole
      BY <2>0, <2>4 DEF Cell, Admissible
    <3> QED BY <1>2, <2>0, <2>1, <2>4, <3>1, <3>2 DEF StreamIsInOrder
  <2> QED BY <1>5, <2>2, <2>3, <2>4 DEF Copy, WriteAt, End
<1>6. CASE Gives("pre")
  <2>1. fetcher'["dem"] = fetcher["dem"] /\ fetcher'["pre"].pc = "gone"
    BY <1>0, <1>6 DEF Gives, Goes, Fetcher
  <2>2. ended' /\ err' /\ UNCHANGED demand /\ reader'.pc = reader.pc
    BY <1>6, <1>a DEF Gives, End, EndNotifies
  <2> QED BY <1>2, <2>1, <2>2 DEF StreamIsInOrder, Broken
<1>7. CASE TakeDemand
  <2>1. Goes("dem", "gone") /\ UNCHANGED <<demand, cells, reader, ended, err, closed>>
    BY <1>2, <1>7 DEF TakeDemand
  <2>2. fetcher'["dem"].pc = "gone" /\ fetcher'["pre"] = fetcher["pre"]
    BY <1>0, <2>1 DEF Goes, Fetcher
  <2> QED BY <1>1, <2>1, <2>2 DEF StreamIsInOrder, Broken
<1>8. CASE ReadAt \/ CheckEnded
  <2>1. Same
    BY <1>8 DEF ReadAt, CheckEnded
  <2>2. reader'.pc # "demand"
    BY <1>0, <1>8 DEF ReadAt, CheckEnded, Answers, AtEnd, Deliver, Reader
  <2>3. reader'.pos \in Nat
    BY ReaderStep DEF Reader
  <2> QED BY <1>0, <1>3, <1>8, <2>1, <2>2, <2>3, ReadingKeeps
<1>9. CASE CloseEnds
  <2>1. fetcher["pre"].pc = "gone" /\ closed' /\ reader'.pc = reader.pc
        /\ UNCHANGED <<demand, fetcher, ended>>
    BY <1>0, <1>9, <1>a DEF CloseEnds, At
  <2> QED BY <1>2, <2>1 DEF StreamIsInOrder, Broken
<1>10. CASE Read \/ Wake
  <2>1. Same /\ UNCHANGED cells
    BY <1>10 DEF Read, Wake
  <2>2. reader'.pc # "demand" /\ reader'.pos = reader.pos
    BY <1>0, <1>10 DEF Read, Wake, Answers, Reader
  <2> QED BY <1>4, <2>1, <2>2
<1>11. CASE CloseBegins \/ SourceChanges \/ UNCHANGED vars
  BY <1>2, <1>4, <1>11 DEF CloseBegins, SourceChanges, vars
<1>12. ~Ahead /\ ~Probe /\ ~Seek /\ ~SendDemand
  BY <1>2 DEF Ahead, Probe, Seek, SendDemand, At
<1>13. \A f \in F : ~LockNetwork(f) /\ ~FetchLoop(f) /\ ~Request(f) /\ ~Body(f)
  BY <1>2 DEF F, LockNetwork, FetchLoop, Request, Body, At
<1>14. ~Gives("dem")
  BY <1>2 DEF Gives, At
<1> QED BY <1>0, <1>5, <1>6, <1>7, <1>8, <1>9, <1>10, <1>11, <1>12, <1>13, <1>14
   DEF Next, Prefetcher, Demander, Reading, Fetch

LEMMA EndStep == Admissible /\ TypeInv /\ EndInv /\ [Next]_vars => EndInv'
<1> SUFFICES ASSUME Admissible, TypeInv, EndInv, [Next]_vars
             PROVE  EndInv'
  OBVIOUS
<1>1. setup'.ranged = setup.ranged
  BY SetupStep DEF TypeInv, SetupShrinks
<1> QED BY <1>1, AnswerStep, StreamStep DEF EndInv

-----------------------------------------------------------------------------
(* What is established of every behaviour.                                 *)

LEMMA InitInv ==
  ASSUME Admissible, Init
  PROVE  ClosedInv /\ EndInv /\ (OneVersion => OneVersionInv)
<1>1. ClosedInv
  BY DEF Init, ClosedInv
<1>2. EndIsAnswered
  BY DEF Init, EndIsAnswered
<1>3. ASSUME ~setup.ranged
      PROVE  StreamIsInOrder
  <2>1. fetcher["dem"].pc = "idle" /\ fetcher["pre"].pc = "copy" /\ fetcher["pre"].off = 0
    BY <1>3 DEF Init, F
  <2>2. \A c \in Cell : ~(c < 0)
    BY DEF Cell
  <2> QED BY <2>1, <2>2 DEF Init, StreamIsInOrder
<1>4. ASSUME OneVersion
      PROVE  OneVersionInv
  BY <1>4 DEF Init, OneVersion, OneVersionInv
<1> QED BY <1>1, <1>2, <1>3, <1>4 DEF EndInv

\* Every variable keeps its type.  A read returns no hole (heard never has one), a request is
\* made only for bytes of the source that are still to be fetched, and FFmpeg demands no
\* position behind the source (HTTPSpool.fetch, HTTPSpool.Read, spool.readAt).
THEOREM TypeCorrect == ASSUME Admissible PROVE Spec => []TypeInv
<1>1. Init => TypeInv
  BY InitType
<1>2. TypeInv /\ [Next]_vars => TypeInv'
  BY TypeStep
<1> QED BY <1>1, <1>2, PTL DEF Spec

\* Of a source that tells its version, or does not change, FFmpeg reads bytes of the version
\* that was opened and no others, and is told of the end only at the end, however the two
\* goroutines, seeks, faults and Close interleave; nothing is left of a closed input
\* (readAt, fetch, DiskInput.Read, blockSpool.Close).
THEOREM ReadsStayOfOneVersion ==
  ASSUME Admissible PROVE Spec /\ OneVersion => []ReadsAreOfOneVersion
<1> DEFINE Inv == TypeInv /\ EndInv /\ ClosedInv /\ OneVersionInv
<1>1. Init /\ OneVersion => Inv
  BY InitType, InitInv
<1>2. Inv /\ [Next]_vars => Inv'
  BY TypeStep, EndStep, ClosedStep, OneVersionStep
<1>3. Inv => ReadsAreOfOneVersion
  <2>1. ClosedInv => ClosedIsEmpty
    BY DEF ClosedInv, ClosedIsEmpty
  <2> QED BY <2>1 DEF TypeInv, EndInv, EndIsAnswered, OneVersionInv, ReadsAreOfOneVersion
<1> HIDE DEF Inv
<1> QED BY <1>1, <1>2, <1>3, PTL DEF Spec

\* Whatever becomes of the source, the end FFmpeg is told of is not before its length: a
\* copy that broke off, or was closed, answers an error (DiskInput.Read, end).
THEOREM EndIsOfSource ==
  ASSUME Admissible PROVE Spec => [](reader.answer = "eof" => reader.pos >= Size)
<1> DEFINE Inv == TypeInv /\ EndInv
<1>1. Init => Inv
  BY InitType, InitInv
<1>2. Inv /\ [Next]_vars => Inv'
  BY TypeStep, EndStep
<1>3. Inv => (reader.answer = "eof" => reader.pos >= Size)
  BY DEF EndInv, EndIsAnswered
<1> HIDE DEF Inv
<1> QED BY <1>1, <1>2, <1>3, PTL DEF Spec

\* Once Close has removed the blocks nobody writes one any more: both goroutines have left
\* (HTTPSpool.Close, blockSpool.Close).
THEOREM ClosedStaysEmpty == ASSUME Admissible PROVE Spec => []ClosedIsEmpty
<1> DEFINE Inv == TypeInv /\ ClosedInv
<1>1. Init => Inv
  BY InitType, InitInv
<1>2. Inv /\ [Next]_vars => Inv'
  BY TypeStep, ClosedStep
<1>3. Inv => ClosedIsEmpty
  BY DEF ClosedInv, ClosedIsEmpty, Cell
<1> HIDE DEF Inv
<1> QED BY <1>1, <1>2, <1>3, PTL DEF Spec
=============================================================================
