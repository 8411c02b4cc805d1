------------------------------- MODULE PieceMap -------------------------------
(***************************************************************************)
(* The packed map of the pieces of a download (base/piece_map.go) and the  *)
(* snapshot a task keeps of it (Stats of the BitTorrent and the ed2k       *)
(* fetcher, captureTaskStats).                                             *)
(*                                                                         *)
(* A byte is the set of its bits that are set, least significant first.    *)
(* The map is edited by any sequence of calls, next to the list of pieces  *)
(* it stands for; in another behaviour the protocol library checks what is *)
(* on disk, downloads, and its answers are captured.                       *)
(***************************************************************************)
EXTENDS Integers, Sequences, FiniteSets, SequencesExt

CONSTANTS
  PerByte,  \* piecesPerByte; positive
  MaxCount, \* bound on the pieces of a map
  MapSetups \* [edits: calls; protocol: whose snapshots are captured, or "none"; restarts]

VARIABLES
  setup,
  map,      \* PieceMap
  list,     \* what the map stands for, as a list of booleans
  pieces,   \* what the library knows of each piece: "unknown", "no" or "yes"
  disk,     \* the pieces that are on disk and whole
  stored,   \* the snapshot of the task, <<>> before the first
  shown     \* the pieces some snapshot has shown as complete

vars == <<setup, map, list, pieces, disk, stored, shown>>

Bits == 0 .. PerByte - 1

TypeOK ==
  /\ setup \in [edits : Nat, protocol : {"none", "bt", "ed2k"}, restarts : Nat]
  /\ map.count \in 0 .. MaxCount /\ map.completed \in Nat /\ map.data \in Seq(SUBSET Bits)
  /\ list \in Seq(BOOLEAN)
  /\ pieces \in Seq({"unknown", "no", "yes"}) /\ disk \subseteq 1 .. Len(pieces)
  /\ stored = <<>> \/ stored.count = Len(pieces)
  /\ shown \subseteq 1 .. Len(pieces)

-----------------------------------------------------------------------------
(* piece_map.go.                                                           *)

packedPieceByteCount(n) == (n + PerByte - 1) \div PerByte

NewPieceMap(n) ==
  [count |-> n, completed |-> 0, data |-> [b \in 1 .. packedPieceByteCount(n) |-> {}]]

\* piecePosition; the bytes of a sequence are numbered from 1.
ByteOf(i) == 1 + i \div PerByte
BitOf(i) == i % PerByte

completedAt(m, i) == BitOf(i) \in m.data[ByteOf(i)]

setCompleted(m, i, completed) ==
  [m EXCEPT !.data[ByteOf(i)] = IF completed THEN @ \cup {BitOf(i)} ELSE @ \ {BitOf(i)}]

\* Mutant: the unused bits stay.
KeepUnusedBits(m) == m

clearUnusedBits(m) ==
  IF m.count % PerByte = 0 THEN m
  ELSE [m EXCEPT !.data[Len(m.data)] = @ \cap 0 .. (m.count % PerByte) - 1]

OnesCount(m) == FoldLeft(LAMBDA n, byte : n + Cardinality(byte), 0, m.data)

NewPieceMapFromBytes(n, bytes) ==
  LET m == clearUnusedBits([count |-> n, completed |-> 0, data |-> bytes])
  IN  [m EXCEPT !.completed = OnesCount(m)]

Add(m, completed) ==
  LET grown == [m EXCEPT !.data = IF m.count % PerByte = 0 THEN Append(@, {}) ELSE @,
                         !.count = @ + 1]
  IN  IF completed
      THEN [setCompleted(grown, m.count, TRUE) EXCEPT !.completed = @ + 1]
      ELSE grown

validIndex(m, i) == i \in 0 .. m.count - 1

\* Every piece after i is shifted, in ascending order and in place, and the last cut off.
Shifts(m, i) ==
  LET shifted == FoldLeft(LAMBDA s, j : setCompleted(s, j, completedAt(s, j + 1)), m,
                          [k \in 1 .. m.count - 1 - i |-> i + k - 1])
      n == m.count - 1
  IN  clearUnusedBits([shifted EXCEPT !.count = n,
                         !.data = SubSeq(@, 1, packedPieceByteCount(n))])

Delete(m, i) ==
  Shifts([m EXCEPT !.completed = IF completedAt(m, i) THEN @ - 1 ELSE @], i)

Update(m, i, completed) ==
  IF completedAt(m, i) = completed THEN m
  ELSE setCompleted([m EXCEPT !.completed = IF completed THEN @ + 1 ELSE @ - 1], i, completed)

-----------------------------------------------------------------------------
(* Stats.                                                                  *)

\* PieceStateRuns of the library: the pieces, equal neighbours together.
RunsOf(p) ==
  FoldLeft(LAMBDA runs, x :
             IF runs # <<>> /\ Last(runs).is = x
             THEN [runs EXCEPT ![Len(runs)].length = @ + 1]
             ELSE Append(runs, [is |-> x, length |-> 1]), <<>>, p)

\* applyBTPieceRuns: the map and the index after each run.
applyBTPieceRuns(m, runs) ==
  FoldLeft(LAMBDA s, run :
             [map |-> FoldLeft(LAMBDA n, i : Update(n, i, run.is = "yes"), s.map,
                               [k \in 1 .. run.length |-> s.index + k - 1]),
              index |-> s.index + run.length,
              ready |-> s.ready /\ run.is # "unknown"],
           [map |-> m, index |-> 0, ready |-> TRUE], runs)

\* buildBTPieceMap, ready when the state of every piece is known.
buildBTPieceMap(p) ==
  LET built == applyBTPieceRuns(NewPieceMap(Len(p)), RunsOf(p))
  IN  [map |-> built.map, ready |-> built.ready /\ built.index = Len(p)]

\* buildED2KPieceMap, and Stats: not while the library loads or verifies.
buildED2KPieceMap(p) ==
  [map |-> FoldLeft(LAMBDA m, i : Update(m, i, p[i + 1] = "yes"), NewPieceMap(Len(p)),
                    [k \in 1 .. Len(p) |-> k - 1]),
   ready |-> \A i \in DOMAIN p : p[i] # "unknown"]

Snapshot ==
  IF setup.protocol = "bt" THEN buildBTPieceMap(pieces) ELSE buildED2KPieceMap(pieces)

-----------------------------------------------------------------------------

Init ==
  /\ setup \in MapSetups
  /\ map = NewPieceMap(0) /\ list = <<>>
  /\ \E n \in IF setup.protocol = "none" THEN {0} ELSE {MaxCount - 1} :
       pieces = [i \in 1 .. n |-> "unknown"]
  /\ disk = {} /\ stored = <<>> /\ shown = {}

Edit(m, l) ==
  /\ setup.edits > 0 /\ setup' = [setup EXCEPT !.edits = @ - 1]
  /\ map' = m /\ list' = l
  /\ UNCHANGED <<pieces, disk, stored, shown>>

\* The bytes come from elsewhere, with anything in the bits that are not used.
Restores(n) ==
  \E bytes \in [1 .. packedPieceByteCount(n) -> SUBSET Bits] :
    Edit(NewPieceMapFromBytes(n, bytes),
         [i \in 1 .. n |-> BitOf(i - 1) \in bytes[ByteOf(i - 1)]])

Edits ==
  \/ \E n \in 0 .. MaxCount : Edit(NewPieceMap(n), [i \in 1 .. n |-> FALSE])
  \/ \E n \in 0 .. MaxCount : Restores(n)
  \/ \E b \in BOOLEAN : map.count < MaxCount /\ Edit(Add(map, b), Append(list, b))
  \/ \E i \in 0 .. MaxCount - 1 : validIndex(map, i) /\ Edit(Delete(map, i), RemoveAt(list, i + 1))
  \/ \E i \in 0 .. MaxCount - 1, b \in BOOLEAN :
       validIndex(map, i) /\ Edit(Update(map, i, b), [list EXCEPT ![i + 1] = b])

\* The library checks a piece, or one arrives.
Checks(i) ==
  /\ i \in DOMAIN pieces /\ pieces[i] = "unknown"
  /\ pieces' = [pieces EXCEPT ![i] = IF i \in disk THEN "yes" ELSE "no"]
  /\ UNCHANGED <<setup, map, list, disk, stored, shown>>

Arrives(i) ==
  /\ i \in DOMAIN pieces /\ pieces[i] = "no"
  /\ pieces' = [pieces EXCEPT ![i] = "yes"] /\ disk' = disk \cup {i}
  /\ UNCHANGED <<setup, map, list, stored, shown>>

\* captureTaskStats: without a snapshot the former one is kept.
Captures ==
  /\ setup.protocol # "none" /\ Snapshot.ready
  /\ stored' = Snapshot.map
  /\ shown' = shown \cup {i \in DOMAIN pieces : completedAt(Snapshot.map, i - 1)}
  /\ UNCHANGED <<setup, map, list, pieces, disk>>

\* The process starts again and the snapshot is read back (loadStoredTaskStatsLocked).
Restarts ==
  /\ setup.restarts > 0 /\ setup' = [setup EXCEPT !.restarts = @ - 1]
  /\ pieces' = [i \in DOMAIN pieces |-> "unknown"]
  /\ UNCHANGED <<map, list, disk, stored, shown>>

Next == Edits \/ (\E i \in 1 .. MaxCount : Checks(i) \/ Arrives(i)) \/ Captures \/ Restarts

Spec == Init /\ [][Next]_vars

-----------------------------------------------------------------------------

\* After any sequence of calls the packed bytes are the list of pieces and nothing more, and
\* the counter counts them: a map that was cut or restored with foreign bits shows no
\* piece that is not there when it grows again (Add, Delete, Update, clearUnusedBits).
MapIsExact ==
  /\ map.count = Len(list) /\ Len(map.data) = packedPieceByteCount(map.count)
  /\ map.completed = Cardinality({i \in DOMAIN list : list[i]})
  /\ {i \in 0 .. PerByte * Len(map.data) - 1 : completedAt(map, i)}
       = {i \in 0 .. map.count - 1 : list[i + 1]}

\* The snapshot of a task shows no piece that is not on disk, and keeps what one has shown
\* while the library checks its files after a restart (Stats, captureTaskStats).
SnapshotIsTrusted ==
  stored # <<>> =>
    LET complete == {i \in DOMAIN pieces : completedAt(stored, i - 1)}
    IN  shown \subseteq complete /\ complete \subseteq disk
=============================================================================
