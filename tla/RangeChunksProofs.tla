------------------------- MODULE RangeChunksProofs -------------------------
(***************************************************************************)
(* Proofs about RangeChunks, for any number of connections, any file size  *)
(* and any pair of constants that satisfies StealAssumption.               *)
(***************************************************************************)
EXTENDS RangeChunks, TLAPS

USE SizeAssumption, BufAssumption, StealAssumption, PrimaryAssumption

\* Splitting a chunk leaves the old owner enough for a whole read and cuts the
\* pending bytes in two adjacent halves.
LEMMA SplitHalves ==
  ASSUME NEW ch \in [Conn -> Chunk], NEW v \in Conn, NEW n \in Conn, v # n,
         remain(ch[v]) > 2 * MinSteal, ch[v].end < Size
  PROVE  LET s == SplitChunks(ch, v, n)
         IN  /\ s \in [Conn -> Chunk]
             /\ remain(s[v]) >= Buf
             /\ remain(s[n]) >= 0 /\ s[n].end < Size /\ s[v].end < Size
             /\ Offset(s[v]) = Offset(ch[v])
             /\ Offset(s[n]) = s[v].end + 1
             /\ s[n].end = ch[v].end
             /\ \A c \in Conn \ {v, n} : s[c] = ch[c]
<1> DEFINE r == remain(ch[v])
           e == ch[v].end
           sp == e - r \div 2
<1>1. /\ ch[v] \in Chunk /\ e \in Int /\ r \in Int
      /\ ch[v].begin \in Nat /\ ch[v].dl \in Nat
  BY DEF Chunk, remain
<1>2. r \div 2 \in Int /\ 2 * (r \div 2) <= r /\ r < 2 * (r \div 2) + 2
  BY <1>1
<1>3. /\ sp \in Int /\ sp < e /\ sp + 1 \in Nat
      /\ sp - ch[v].begin + 1 - ch[v].dl >= Buf
  BY <1>1, <1>2 DEF remain
<1>4. SplitChunks(ch, v, n) =
        [ch EXCEPT ![v].end = sp, ![n] = NewChunk(sp + 1, e)]
  BY DEF SplitChunks
<1> DEFINE s == SplitChunks(ch, v, n)
<1>5. /\ s[v] = [begin |-> ch[v].begin, end |-> sp, dl |-> ch[v].dl]
      /\ s[n] = [begin |-> sp + 1, end |-> e, dl |-> 0]
      /\ \A c \in Conn \ {v, n} : s[c] = ch[c]
  BY <1>1, <1>4 DEF NewChunk, Chunk
<1>6. s \in [Conn -> Chunk]
  <2>1. s[v] \in Chunk /\ s[n] \in Chunk
    BY <1>1, <1>3, <1>5 DEF Chunk
  <2>2. DOMAIN s = Conn /\ s = [c \in Conn |-> s[c]]
    BY <1>4
  <2> QED BY <2>1, <2>2, <1>5
<1> QED
  BY <1>1, <1>2, <1>3, <1>5, <1>6 DEF remain, Offset

\* A steal leaves the victim enough for a read that is already in flight, and
\* hands the helper the adjacent upper half.
LEMMA StealHalves ==
  ASSUME NEW ch \in [Conn -> Chunk], NEW h \in Conn, NEW v \in Conn, v # h,
         remain(ch[v]) >= MinSteal, ch[v].end < Size
  PROVE  LET s == StealChunks(ch, h, v)
         IN  /\ s \in [Conn -> Chunk]
             /\ remain(s[v]) >= Buf
             /\ remain(s[h]) >= 0 /\ s[h].end < Size /\ s[v].end < Size
             /\ Offset(s[v]) = Offset(ch[v])
             /\ Offset(s[h]) = s[v].end + 1
             /\ s[h].end = ch[v].end
             /\ \A c \in Conn \ {v, h} : s[c] = ch[c]
<1> DEFINE r == remain(ch[v])
           e == ch[v].end
           b == e - r \div 2
<1>1. /\ ch[v] \in Chunk /\ e \in Int /\ r \in Int
      /\ ch[v].begin \in Nat /\ ch[v].dl \in Nat
  BY DEF Chunk, remain
<1>2. r \div 2 \in Int /\ 2 * (r \div 2) <= r /\ r < 2 * (r \div 2) + 2
  BY <1>1
<1>3. /\ b \in Nat /\ b - 1 \in Int /\ b <= e
      /\ (b - 1) - ch[v].begin + 1 - ch[v].dl >= Buf
  BY <1>1, <1>2 DEF remain
<1>4. StealChunks(ch, h, v) = [ch EXCEPT ![v].end = b - 1, ![h] = NewChunk(b, e)]
  BY DEF StealChunks
<1> DEFINE s == StealChunks(ch, h, v)
<1>5. /\ s[v] = [begin |-> ch[v].begin, end |-> b - 1, dl |-> ch[v].dl]
      /\ s[h] = [begin |-> b, end |-> e, dl |-> 0]
      /\ \A c \in Conn \ {v, h} : s[c] = ch[c]
  BY <1>1, <1>4 DEF NewChunk, Chunk
<1>6. s \in [Conn -> Chunk]
  <2>1. s[v] \in Chunk /\ s[h] \in Chunk
    BY <1>1, <1>3, <1>5 DEF Chunk
  <2>2. DOMAIN s = Conn /\ s = [c \in Conn |-> s[c]]
    BY <1>4
  <2> QED BY <2>1, <2>2, <1>5
<1> QED
  BY <1>1, <1>2, <1>3, <1>5, <1>6 DEF remain, Offset

-----------------------------------------------------------------------------

\* The initial state, with no connection and an empty snapshot, satisfies IInv.
LEMMA InitIInv == Init => IInv
<1> SUFFICES ASSUME Init PROVE IInv OBVIOUS
<1>1. NoChunk \in Chunk BY DEF NoChunk, Chunk
<1>2. TypeOK BY <1>1 DEF Init, TypeOK
<1> QED
  BY <1>2 DEF Init, IInv, ChunkBounds, FlightState, FlightOwned,
              ChunksDisjoint, ChunksCover, SnapshotSafe, Disjoint, Covered

\* Replacing the pending bytes of v by two adjacent halves, one of them given
\* to a connection n that had none, keeps the chunks disjoint and covering.
LEMMA HalvesKeepPartition ==
  ASSUME NEW lv \in SUBSET Conn, NEW ch \in [Conn -> Chunk],
         NEW s \in [Conn -> Chunk], NEW v \in lv, NEW n \in Conn, v # n,
         n \in lv => Pending(ch[n]) = {},
         Offset(s[v]) = Offset(ch[v]), Offset(s[n]) = s[v].end + 1,
         s[n].end = ch[v].end,
         s[v].end >= Offset(s[v]) - 1, s[n].end >= Offset(s[n]) - 1,
         \A c \in Conn \ {v, n} : s[c] = ch[c],
         Disjoint(lv, ch), Covered(lv, ch)
  PROVE  Disjoint(lv \cup {n}, s) /\ Covered(lv \cup {n}, s)
<1>1. \A c \in Conn : /\ ch[c].end \in Int /\ Offset(ch[c]) \in Int
                      /\ s[c].end \in Int /\ Offset(s[c]) \in Int
  BY DEF Chunk, Offset
<1>2. Pending(s[v]) \cup Pending(s[n]) = Pending(ch[v])
  BY <1>1 DEF Pending
<1>3. Pending(s[v]) \cap Pending(s[n]) = {}
  BY <1>1 DEF Pending
<1>4. \A c \in lv \ {v, n} : Pending(s[c]) = Pending(ch[c])
  OBVIOUS
<1>5. Disjoint(lv \cup {n}, s)
  <2> SUFFICES ASSUME NEW c \in lv \cup {n}, NEW d \in lv \cup {n}, c # d
               PROVE  Pending(s[c]) \cap Pending(s[d]) = {}
    BY DEF Disjoint
  <2> DEFINE P(x) == Pending(s[x])
             Q(x) == Pending(ch[x])
  <2>1. \A x \in lv \ {v, n} : Q(x) \cap Q(v) = {}
    BY DEF Disjoint
  <2>2. \A x \in lv \ {v, n} : P(x) \cap P(v) = {} /\ P(x) \cap P(n) = {}
    BY <2>1, <1>2, <1>4
  <2>3. CASE c \in {v, n} /\ d \in {v, n}
    BY <2>3, <1>3
  <2>4. CASE c \in {v, n} /\ d \notin {v, n}
    BY <2>4, <2>2
  <2>5. CASE c \notin {v, n} /\ d \in {v, n}
    BY <2>5, <2>2
  <2>6. CASE c \notin {v, n} /\ d \notin {v, n}
    BY <2>6, <1>4 DEF Disjoint
  <2> QED BY <2>3, <2>4, <2>5, <2>6
<1>6. Covered(lv \cup {n}, s)
  <2> SUFFICES ASSUME NEW b \in Byte, b \notin written
               PROVE  \E c \in lv \cup {n} : b \in Pending(s[c])
    BY DEF Covered
  <2>1. PICK c \in lv : b \in Pending(ch[c])
    BY DEF Covered
  <2> QED BY <2>1, <1>2, <1>4
<1> QED BY <1>5, <1>6

-----------------------------------------------------------------------------

\* More bytes in the file and the same chunks: nothing is uncovered.
LEMMA WritingKeepsCover ==
  ASSUME NEW lv, NEW ch, written \subseteq written', Covered(lv, ch)
  PROVE  (lv # {} => \A b \in Byte : b \in written' \/ \E c \in lv : b \in Pending(ch[c]))
BY DEF Covered

\* What the type invariant says of one connection.
LEMMA ChunkFacts ==
  ASSUME TypeOK, NEW c \in Conn
  PROVE  /\ chunk[c] \in Chunk
         /\ chunk[c].begin \in Nat /\ chunk[c].end \in Int /\ chunk[c].dl \in Nat
         /\ Offset(chunk[c]) \in Nat /\ remain(chunk[c]) \in Int
         /\ flight[c] \in 0 .. Buf
BY DEF TypeOK, Chunk, Offset, remain

\* What the resolve response delivers only adds to the file.
LEMMA DeliverStep == ASSUME IInv, Deliver PROVE IInv'
<1>1. PICK p \in 0 .. Size : written' = written \cup (0 .. p - 1)
  BY DEF Deliver
<1>2. /\ live = {}
      /\ UNCHANGED <<live, chunk, flight, put, saved>>
      /\ TypeOK
  BY DEF Deliver, IInv
<1>3. written' \in SUBSET Byte /\ written \subseteq written'
  BY <1>1, <1>2 DEF TypeOK, Byte
<1>4. TypeOK'
  BY <1>2, <1>3 DEF TypeOK
<1>5. FlightState' /\ FlightOwned'
  BY <1>2, <1>3 DEF IInv, FlightState, FlightOwned, InFlight
<1>6. ChunksDisjoint' /\ ChunksCover'
  BY <1>2 DEF ChunksDisjoint, Disjoint, ChunksCover, Covered
<1>7. SnapshotSafe'
  BY <1>2, <1>3, WritingKeepsCover DEF IInv, SnapshotSafe, Covered, Disjoint
<1> QED
  BY <1>2, <1>4, <1>5, <1>6, <1>7 DEF IInv, ChunkBounds

\* The first batch covers exactly what the resolve response did not deliver.
LEMMA OpenStep == ASSUME IInv, Open PROVE IInv'
<1>1. PICK p \in Byte :
        /\ written' = written \cup (0 .. p - 1)
        /\ chunk' = [chunk EXCEPT ![Primary] = NewChunk(p, Size - 1)]
  BY DEF Open
<1> DEFINE k == NewChunk(p, Size - 1)
<1>2. /\ live = {} /\ live' = {Primary}
      /\ UNCHANGED <<flight, put, saved>>
      /\ TypeOK
  BY DEF Open, IInv
<1>3. /\ k \in Chunk /\ remain(k) >= 0 /\ k.end < Size
      /\ Pending(k) = p .. Size - 1
  BY DEF NewChunk, Chunk, remain, Pending, Offset, Byte
<1>4. chunk'[Primary] = k /\ chunk' \in [Conn -> Chunk]
  BY <1>1, <1>2, <1>3 DEF TypeOK
<1>5. written' \in SUBSET Byte /\ written \subseteq written'
  BY <1>1, <1>2 DEF TypeOK, Byte
<1>6. TypeOK'
  BY <1>2, <1>4, <1>5 DEF TypeOK
<1>7. ChunkBounds(live', chunk') /\ ChunkBounds(saved.live, saved.chunk)
  BY <1>2, <1>3, <1>4 DEF ChunkBounds, IInv
<1>8. \A c \in Conn : flight[c] = 0 /\ put[c] = FALSE
  BY <1>2, ChunkFacts DEF IInv, FlightState, TypeOK
<1>9. FlightState' /\ FlightOwned'
  BY <1>2, <1>3, <1>4, <1>8 DEF FlightState, FlightOwned
<1>10. ChunksDisjoint'
  BY <1>2 DEF ChunksDisjoint, Disjoint
<1>11. ChunksCover'
  BY <1>1, <1>2, <1>3, <1>4 DEF ChunksCover, Covered, Byte
<1>12. SnapshotSafe'
  BY <1>2, <1>5, WritingKeepsCover DEF IInv, SnapshotSafe, Covered, Disjoint
<1> QED
  BY <1>2, <1>6, <1>7, <1>9, <1>10, <1>11, <1>12 DEF IInv, ChunkBounds

\* A longer resolve prefix only moves bytes from the chunk to the file.
LEMMA TakeOverStep == ASSUME IInv, TakeOver PROVE IInv'
<1>0. PICK p \in Offset(chunk[Primary]) .. Size :
        \E b \in 0 .. p :
          /\ written' = written \cup (0 .. p - 1)
          /\ chunk' = [chunk EXCEPT ![Primary] =
                         [begin |-> b, end |-> Size - 1, dl |-> p - b]]
  BY DEF TakeOver
<1>1. PICK b \in 0 .. p :
        /\ written' = written \cup (0 .. p - 1)
        /\ chunk' = [chunk EXCEPT ![Primary] =
                       [begin |-> b, end |-> Size - 1, dl |-> p - b]]
  BY <1>0
<1> DEFINE k == [begin |-> b, end |-> Size - 1, dl |-> p - b]
<1>2. /\ live = {Primary} /\ flight[Primary] = 0
      /\ UNCHANGED <<live, flight, put, saved>>
      /\ TypeOK
  BY DEF TakeOver, IInv
<1>a. p \in Nat /\ p <= Size /\ b \in Nat /\ b <= p
  BY <1>2, ChunkFacts
<1>3. /\ k \in Chunk /\ remain(k) >= 0 /\ k.end < Size
      /\ Pending(k) = p .. Size - 1
  BY <1>a DEF Chunk, remain, Pending, Offset
<1>4. chunk'[Primary] = k /\ chunk' \in [Conn -> Chunk]
  BY <1>1, <1>2, <1>3 DEF TypeOK
<1>5. written' \in SUBSET Byte /\ written \subseteq written'
  BY <1>1, <1>2, <1>a DEF TypeOK, Byte
<1>6. TypeOK'
  BY <1>2, <1>4, <1>5 DEF TypeOK
<1>7. ChunkBounds(live', chunk') /\ ChunkBounds(saved.live, saved.chunk)
  BY <1>2, <1>3, <1>4 DEF ChunkBounds, IInv
<1>8. \A c \in Conn : flight[c] = 0 /\ put[c] = FALSE
  BY <1>2, ChunkFacts DEF IInv, FlightState, TypeOK
<1>9. FlightState' /\ FlightOwned'
  BY <1>2, <1>3, <1>4, <1>8 DEF FlightState, FlightOwned
<1>10. ChunksDisjoint'
  BY <1>2 DEF ChunksDisjoint, Disjoint
<1>11. ChunksCover'
  BY <1>1, <1>2, <1>3, <1>4, <1>a DEF ChunksCover, Covered, Byte
<1>12. SnapshotSafe'
  BY <1>2, <1>5, WritingKeepsCover DEF IInv, SnapshotSafe, Covered, Disjoint
<1> QED
  BY <1>2, <1>6, <1>7, <1>9, <1>10, <1>11, <1>12 DEF IInv, ChunkBounds

\* expandConnections preserves IInv.
LEMMA SplitStep ==
  ASSUME IInv, NEW v \in Conn, NEW n \in Conn, Split(v, n)
  PROVE  IInv'
<1> DEFINE s == SplitChunks(chunk, v, n)
<1>1. /\ v \in live /\ n \notin live /\ v # n
      /\ remain(chunk[v]) > 2 * MinSteal
      /\ chunk' = s /\ live' = live \cup {n}
      /\ UNCHANGED <<flight, put, written, saved>>
      /\ TypeOK /\ chunk \in [Conn -> Chunk]
      /\ chunk[v].end < Size
  BY DEF Split, IInv, TypeOK, ChunkBounds
<1>2. /\ s \in [Conn -> Chunk]
      /\ remain(s[v]) >= Buf
      /\ remain(s[n]) >= 0 /\ s[n].end < Size /\ s[v].end < Size
      /\ Offset(s[v]) = Offset(chunk[v])
      /\ Offset(s[n]) = s[v].end + 1
      /\ s[n].end = chunk[v].end
      /\ \A c \in Conn \ {v, n} : s[c] = chunk[c]
  BY <1>1, SplitHalves
<1>3. TypeOK'
  BY <1>1, <1>2 DEF TypeOK
<1>4. ChunkBounds(live', chunk')
  <2> SUFFICES ASSUME NEW c \in live' PROVE remain(s[c]) >= 0 /\ s[c].end < Size
    BY <1>1 DEF ChunkBounds
  <2>1. c \in Conn /\ remain(s[c]) \in Int
    BY <1>1, <1>2 DEF TypeOK, remain, Chunk
  <2>2. CASE c \in {v, n}
    BY <1>2, <2>1, <2>2
  <2>3. CASE c \notin {v, n}
    BY <1>1, <1>2, <2>1, <2>3 DEF ChunkBounds, IInv
  <2> QED BY <2>2, <2>3
<1>5. flight[n] = 0 /\ put[n] = FALSE
  BY <1>1, ChunkFacts DEF IInv, FlightState, TypeOK
<1>6. FlightState'
  BY <1>1, <1>2, <1>5 DEF FlightState, InFlight, IInv
<1>7. FlightOwned'
  <2> SUFFICES ASSUME NEW c \in live' PROVE flight[c] <= remain(s[c])
    BY <1>1 DEF FlightOwned
  <2>1. flight[c] \in 0 .. Buf /\ c \in Conn
    BY <1>1, ChunkFacts DEF TypeOK
  <2>2. remain(s[c]) \in Int
    BY <1>2, <2>1 DEF remain, Chunk
  <2> QED BY <1>1, <1>2, <1>5, <2>1, <2>2 DEF FlightOwned, IInv
<1>8. ChunksDisjoint' /\ ChunksCover'
  <2>1. s[v].end >= Offset(s[v]) - 1 /\ s[n].end >= Offset(s[n]) - 1
    BY <1>2 DEF remain, Offset, Chunk
  <2>2. live \in SUBSET Conn /\ Disjoint(live, chunk) /\ Covered(live, chunk)
    BY DEF IInv, ChunksDisjoint, ChunksCover, TypeOK
  <2>3. Disjoint(live \cup {n}, s) /\ Covered(live \cup {n}, s)
    BY <1>1, <1>2, <2>1, <2>2, HalvesKeepPartition
  <2> QED BY <1>1, <2>3 DEF ChunksDisjoint, ChunksCover, Disjoint, Covered
<1>9. SnapshotSafe' /\ ChunkBounds(saved'.live, saved'.chunk)
  BY <1>1 DEF IInv, SnapshotSafe, Covered, Disjoint
<1> QED BY <1>1, <1>3, <1>4, <1>6, <1>7, <1>8, <1>9 DEF IInv, ChunkBounds

\* helpOtherConnection preserves IInv.
LEMMA StealStep ==
  ASSUME IInv, NEW h \in Conn, NEW v \in Conn, Steal(h, v)
  PROVE  IInv'
<1> DEFINE s == StealChunks(chunk, h, v)
<1>1. /\ v \in live /\ h \in live /\ v # h
      /\ remain(chunk[h]) = 0 /\ flight[h] = 0
      /\ remain(chunk[v]) >= MinSteal
      /\ chunk' = s /\ live' = live
      /\ UNCHANGED <<flight, put, written, saved>>
      /\ TypeOK /\ chunk \in [Conn -> Chunk]
      /\ chunk[v].end < Size
  BY DEF Steal, IInv, TypeOK, ChunkBounds
<1>2. /\ s \in [Conn -> Chunk]
      /\ remain(s[v]) >= Buf
      /\ remain(s[h]) >= 0 /\ s[h].end < Size /\ s[v].end < Size
      /\ Offset(s[v]) = Offset(chunk[v])
      /\ Offset(s[h]) = s[v].end + 1
      /\ s[h].end = chunk[v].end
      /\ \A c \in Conn \ {v, h} : s[c] = chunk[c]
  BY <1>1, StealHalves
<1>3. TypeOK'
  BY <1>1, <1>2 DEF TypeOK
<1>4. ChunkBounds(live', chunk')
  <2> SUFFICES ASSUME NEW c \in live PROVE remain(s[c]) >= 0 /\ s[c].end < Size
    BY <1>1 DEF ChunkBounds
  <2>1. c \in Conn /\ remain(s[c]) \in Int
    BY <1>1, <1>2 DEF TypeOK, remain, Chunk
  <2>2. CASE c \in {v, h}
    BY <1>2, <2>1, <2>2
  <2>3. CASE c \notin {v, h}
    BY <1>1, <1>2, <2>1, <2>3 DEF ChunkBounds, IInv
  <2> QED BY <2>2, <2>3
<1>5. put[h] = FALSE
  BY <1>1 DEF IInv, FlightState, TypeOK
<1>6. FlightState'
  BY <1>1, <1>2, <1>5 DEF FlightState, InFlight, IInv
<1>7. FlightOwned'
  <2> SUFFICES ASSUME NEW c \in live PROVE flight[c] <= remain(s[c])
    BY <1>1 DEF FlightOwned
  <2>1. flight[c] \in 0 .. Buf /\ c \in Conn
    BY <1>1, ChunkFacts DEF TypeOK
  <2>2. remain(s[c]) \in Int
    BY <1>2, <2>1 DEF remain, Chunk
  <2> QED BY <1>1, <1>2, <2>1, <2>2 DEF FlightOwned, IInv
<1>8. ChunksDisjoint' /\ ChunksCover'
  <2>1. s[v].end >= Offset(s[v]) - 1 /\ s[h].end >= Offset(s[h]) - 1
    BY <1>2 DEF remain, Offset, Chunk
  <2>2. live \in SUBSET Conn /\ Disjoint(live, chunk) /\ Covered(live, chunk)
    BY DEF IInv, ChunksDisjoint, ChunksCover, TypeOK
  <2>3. Pending(chunk[h]) = {}
    BY <1>1 DEF Pending, Offset, remain, Chunk
  <2>4. Disjoint(live \cup {h}, s) /\ Covered(live \cup {h}, s)
    BY <1>1, <1>2, <2>1, <2>2, <2>3, HalvesKeepPartition
  <2>5. live \cup {h} = live
    BY <1>1
  <2> QED BY <1>1, <2>4, <2>5 DEF ChunksDisjoint, ChunksCover, Disjoint, Covered
<1>9. SnapshotSafe' /\ ChunkBounds(saved'.live, saved'.chunk)
  BY <1>1 DEF IInv, SnapshotSafe, Covered, Disjoint
<1> QED BY <1>1, <1>3, <1>4, <1>6, <1>7, <1>8, <1>9 DEF IInv, ChunkBounds

\* Clipping a read to the chunk preserves IInv.
LEMMA ClaimStep ==
  ASSUME IInv, NEW c \in Conn, NEW n \in 1 .. Buf, Claim(c, n)
  PROVE  IInv'
<1> DEFINE m == SmallerOf(n, remain(chunk[c]))
<1>1. /\ c \in live /\ flight[c] = 0 /\ remain(chunk[c]) > 0
      /\ flight' = [flight EXCEPT ![c] = m]
      /\ UNCHANGED <<live, chunk, put, written, saved>>
      /\ TypeOK
  BY DEF Claim, IInv
<1>2. m \in 1 .. Buf /\ m <= remain(chunk[c])
  BY <1>1, ChunkFacts DEF SmallerOf
<1>3. TypeOK'
  BY <1>1, <1>2 DEF TypeOK
<1>4. put[c] = FALSE
  BY <1>1 DEF IInv, FlightState, TypeOK
<1>5. FlightState'
  <2> SUFFICES ASSUME NEW d \in Conn
               PROVE  /\ flight'[d] > 0 => d \in live
                      /\ put[d] => flight'[d] > 0 /\ InFlight(d)' \subseteq written
    BY <1>1 DEF FlightState
  <2>1. CASE d = c
    BY <1>1, <1>4, <2>1
  <2>2. CASE d # c
    <3>1. flight'[d] = flight[d]
      BY <1>1, <2>2 DEF TypeOK
    <3>2. InFlight(d)' = InFlight(d)
      BY <1>1, <3>1 DEF InFlight
    <3> QED BY <1>1, <3>1, <3>2 DEF IInv, FlightState
  <2> QED BY <2>1, <2>2
<1>6. FlightOwned'
  BY <1>1, <1>2 DEF FlightOwned, IInv, TypeOK
<1> QED
  BY <1>1, <1>3, <1>5, <1>6
     DEF IInv, ChunkBounds, ChunksDisjoint, ChunksCover, SnapshotSafe, Disjoint, Covered

\* Bytes below the offset just past a write in flight belong to the file.
LEMMA FlightInFile ==
  ASSUME IInv, NEW c \in Conn, flight[c] > 0
  PROVE  InFlight(c) \subseteq Byte /\ InFlight(c) \subseteq Pending(chunk[c])
<1>1. c \in live /\ TypeOK
  BY DEF IInv, FlightState
<1>2. flight[c] <= remain(chunk[c]) /\ chunk[c].end < Size
  BY <1>1 DEF IInv, FlightOwned, ChunkBounds
<1> QED
  BY <1>1, <1>2, ChunkFacts DEF InFlight, Pending, Offset, remain, Byte

\* WriteAt outside connMu preserves IInv.
LEMMA PutStep == ASSUME IInv, NEW c \in Conn, Put(c) PROVE IInv'
<1>1. /\ flight[c] > 0
      /\ written' = written \cup InFlight(c)
      /\ put' = [put EXCEPT ![c] = TRUE]
      /\ UNCHANGED <<live, chunk, flight, saved>>
      /\ TypeOK
  BY DEF Put, IInv
<1>2. written \subseteq written' /\ written' \in SUBSET Byte
  BY <1>1, FlightInFile DEF TypeOK
<1>3. TypeOK'
  BY <1>1, <1>2 DEF TypeOK
<1>4. FlightState'
  <2> SUFFICES ASSUME NEW d \in Conn
               PROVE  /\ flight[d] > 0 => d \in live
                      /\ put'[d] => flight[d] > 0 /\ InFlight(d) \subseteq written'
    BY <1>1 DEF FlightState, InFlight
  <2>1. CASE d = c
    BY <1>1, <2>1 DEF IInv, FlightState
  <2>2. CASE d # c
    <3>1. put'[d] = put[d]
      BY <1>1, <2>2 DEF TypeOK
    <3> QED BY <1>2, <3>1 DEF IInv, FlightState
  <2> QED BY <2>1, <2>2
<1>5. ChunksCover'
  BY <1>1, <1>2, WritingKeepsCover DEF IInv, ChunksCover, Covered
<1>6. SnapshotSafe'
  BY <1>1, <1>2, WritingKeepsCover DEF IInv, SnapshotSafe, Covered, Disjoint
<1> QED
  BY <1>1, <1>3, <1>4, <1>5, <1>6
     DEF IInv, ChunkBounds, FlightOwned, ChunksDisjoint, Disjoint

\* A short write preserves IInv.
LEMMA PutFailsStep ==
  ASSUME IInv, NEW c \in Conn, NEW k \in 0 .. Buf, PutFails(c, k)
  PROVE  IInv'
<1> DEFINE part == Offset(chunk[c]) .. Offset(chunk[c]) + k - 1
<1>1. /\ k < flight[c] /\ ~put[c]
      /\ written' = written \cup part
      /\ flight' = [flight EXCEPT ![c] = 0]
      /\ UNCHANGED <<live, chunk, put, saved>>
      /\ TypeOK
  BY DEF PutFails, IInv
<1>2. part \subseteq InFlight(c) /\ flight[c] > 0
  BY <1>1, ChunkFacts DEF InFlight
<1>3. written \subseteq written' /\ written' \in SUBSET Byte
  BY <1>1, <1>2, FlightInFile DEF TypeOK
<1>4. TypeOK'
  BY <1>1, <1>3 DEF TypeOK
<1>5. FlightState'
  <2> SUFFICES ASSUME NEW d \in Conn
               PROVE  /\ flight'[d] > 0 => d \in live
                      /\ put[d] => flight'[d] > 0 /\ InFlight(d)' \subseteq written'
    BY <1>1 DEF FlightState
  <2>1. CASE d = c
    BY <1>1, <2>1 DEF TypeOK
  <2>2. CASE d # c
    <3>1. flight'[d] = flight[d]
      BY <1>1, <2>2 DEF TypeOK
    <3>2. InFlight(d)' = InFlight(d)
      BY <1>1, <3>1 DEF InFlight
    <3> QED BY <1>3, <3>1, <3>2 DEF IInv, FlightState
  <2> QED BY <2>1, <2>2
<1>6. FlightOwned'
  <2> SUFFICES ASSUME NEW d \in live PROVE flight'[d] <= remain(chunk[d])
    BY <1>1 DEF FlightOwned
  <2> QED BY <1>1 DEF FlightOwned, ChunkBounds, IInv, TypeOK
<1>7. ChunksCover'
  BY <1>1, <1>3, WritingKeepsCover DEF IInv, ChunksCover, Covered
<1>8. SnapshotSafe'
  BY <1>1, <1>3, WritingKeepsCover DEF IInv, SnapshotSafe, Covered, Disjoint
<1> QED
  BY <1>1, <1>4, <1>5, <1>6, <1>7, <1>8
     DEF IInv, ChunkBounds, ChunksDisjoint, Disjoint

\* Adding to Downloaded preserves IInv: what leaves the chunk is in the file.
LEMMA CountStep == ASSUME IInv, NEW c \in Conn, Count(c) PROVE IInv'
<1> DEFINE k == chunk'[c]
<1>1. /\ chunk' = [chunk EXCEPT ![c].dl = chunk[c].dl + flight[c]]
      /\ flight' = [flight EXCEPT ![c] = 0]
      /\ put' = [put EXCEPT ![c] = FALSE]
      /\ put[c]
      /\ UNCHANGED <<live, written, saved>>
      /\ TypeOK
  BY DEF Count, IInv
<1>2. /\ flight[c] > 0 /\ c \in live
      /\ InFlight(c) \subseteq written
      /\ flight[c] <= remain(chunk[c])
  BY <1>1 DEF IInv, FlightState, FlightOwned
<1>3. /\ k = [begin |-> chunk[c].begin, end |-> chunk[c].end,
              dl |-> chunk[c].dl + flight[c]]
      /\ \A d \in Conn \ {c} : chunk'[d] = chunk[d]
  BY <1>1, ChunkFacts DEF TypeOK, Chunk
<1>4. /\ k \in Chunk /\ remain(k) = remain(chunk[c]) - flight[c]
      /\ remain(k) >= 0 /\ k.end = chunk[c].end
      /\ Offset(k) = Offset(chunk[c]) + flight[c]
  BY <1>1, <1>2, <1>3, ChunkFacts DEF Chunk, remain, Offset
<1>5. /\ Pending(k) \subseteq Pending(chunk[c])
      /\ Pending(chunk[c]) \subseteq Pending(k) \cup InFlight(c)
  BY <1>1, <1>2, <1>4, ChunkFacts DEF Pending, InFlight
<1>6. TypeOK'
  <2>1. chunk' \in [Conn -> Chunk]
    BY <1>1, <1>3, <1>4 DEF TypeOK
  <2> QED BY <1>1, <2>1 DEF TypeOK
<1>7. ChunkBounds(live', chunk')
  BY <1>1, <1>3, <1>4 DEF ChunkBounds, IInv, TypeOK
<1>8. FlightState'
  <2> SUFFICES ASSUME NEW d \in Conn
               PROVE  /\ flight'[d] > 0 => d \in live
                      /\ put'[d] => flight'[d] > 0 /\ InFlight(d)' \subseteq written
    BY <1>1 DEF FlightState
  <2>1. CASE d = c
    BY <1>1, <2>1 DEF TypeOK
  <2>2. CASE d # c
    <3>1. flight'[d] = flight[d] /\ put'[d] = put[d] /\ chunk'[d] = chunk[d]
      BY <1>1, <1>3, <2>2 DEF TypeOK
    <3>2. InFlight(d)' = InFlight(d)
      BY <3>1 DEF InFlight
    <3> QED BY <3>1, <3>2 DEF IInv, FlightState
  <2> QED BY <2>1, <2>2
<1>9. FlightOwned'
  <2> SUFFICES ASSUME NEW d \in live PROVE flight'[d] <= remain(chunk'[d])
    BY <1>1 DEF FlightOwned
  <2>1. CASE d = c
    BY <1>1, <1>4, <2>1 DEF TypeOK
  <2>2. CASE d # c
    BY <1>1, <1>3, <2>2 DEF FlightOwned, IInv, TypeOK
  <2> QED BY <2>1, <2>2
<1>10. \A d \in live : Pending(chunk'[d]) \subseteq Pending(chunk[d])
  BY <1>1, <1>3, <1>5 DEF TypeOK
<1>11. ChunksDisjoint'
  <2> SUFFICES ASSUME NEW d \in live, NEW e \in live, d # e
               PROVE  Pending(chunk'[d]) \cap Pending(chunk'[e]) = {}
    BY <1>1 DEF ChunksDisjoint, Disjoint
  <2>1. Pending(chunk[d]) \cap Pending(chunk[e]) = {}
    BY DEF IInv, ChunksDisjoint, Disjoint
  <2> QED BY <1>10, <2>1
<1>12. ChunksCover'
  <2> SUFFICES ASSUME NEW b \in Byte, b \notin written
               PROVE  \E d \in live : b \in Pending(chunk'[d])
    BY <1>1 DEF ChunksCover, Covered
  <2>1. PICK d \in live : b \in Pending(chunk[d])
    BY <1>2 DEF IInv, ChunksCover, Covered
  <2>2. CASE d = c
    BY <1>2, <1>5, <2>1, <2>2
  <2>3. CASE d # c
    BY <1>1, <1>3, <2>1, <2>3 DEF TypeOK
  <2> QED BY <2>2, <2>3
<1>13. SnapshotSafe'
  BY <1>1 DEF IInv, SnapshotSafe, Covered, Disjoint
<1> QED
  BY <1>1, <1>6, <1>7, <1>8, <1>9, <1>11, <1>12, <1>13 DEF IInv, ChunkBounds

\* FetcherManager.Store preserves IInv.
LEMMA SaveStep == ASSUME IInv, Save PROVE IInv'
<1>1. /\ saved' = [live |-> live, chunk |-> chunk]
      /\ UNCHANGED <<live, chunk, flight, put, written>>
      /\ TypeOK
  BY DEF Save, IInv
<1>2. TypeOK'
  BY <1>1 DEF TypeOK
<1>3. SnapshotSafe' /\ ChunkBounds(saved'.live, saved'.chunk)
  BY <1>1 DEF IInv, SnapshotSafe, ChunksDisjoint, ChunksCover, Disjoint, Covered,
              ChunkBounds
<1> QED
  BY <1>1, <1>2, <1>3
     DEF IInv, ChunkBounds, FlightState, InFlight, FlightOwned,
         ChunksDisjoint, ChunksCover, Disjoint, Covered

\* A new process that restores the snapshot finds IInv again.
LEMMA RestartStep == ASSUME IInv, Restart PROVE IInv'
<1>1. /\ live' = saved.live /\ chunk' = saved.chunk
      /\ flight' = [c \in Conn |-> 0] /\ put' = [c \in Conn |-> FALSE]
      /\ UNCHANGED <<written, saved>>
      /\ TypeOK
  BY DEF Restart, IInv
<1>2. TypeOK'
  BY <1>1 DEF TypeOK
<1>3. ChunkBounds(live', chunk') /\ ChunkBounds(saved'.live, saved'.chunk)
  BY <1>1 DEF IInv, ChunkBounds
<1>4. FlightState' /\ FlightOwned'
  BY <1>1, <1>3 DEF FlightState, FlightOwned, ChunkBounds, TypeOK
<1>5. ChunksDisjoint' /\ ChunksCover' /\ SnapshotSafe'
  BY <1>1 DEF IInv, SnapshotSafe, ChunksDisjoint, ChunksCover, Disjoint, Covered
<1> QED
  BY <1>2, <1>3, <1>4, <1>5 DEF IInv, ChunkBounds

\* A stuttering step preserves IInv.
LEMMA StutterStep == ASSUME IInv, UNCHANGED vars PROVE IInv'
BY DEF IInv, vars, TypeOK, ChunkBounds, FlightState, InFlight, FlightOwned,
       ChunksDisjoint, ChunksCover, SnapshotSafe, Disjoint, Covered

\* Every step preserves IInv.
LEMMA NextIInv == IInv /\ [Next]_vars => IInv'
<1> SUFFICES ASSUME IInv, [Next]_vars PROVE IInv' OBVIOUS
<1>0. CASE Deliver BY <1>0, DeliverStep
<1>1. CASE Open BY <1>1, OpenStep
<1>2. CASE TakeOver BY <1>2, TakeOverStep
<1>3. CASE \E v, n \in Conn : Split(v, n) BY <1>3, SplitStep
<1>4. CASE \E h, v \in Conn : Steal(h, v) BY <1>4, StealStep
<1>5. CASE \E c \in Conn : \E n \in 1 .. Buf : Claim(c, n) BY <1>5, ClaimStep
<1>6. CASE \E c \in Conn : Put(c) BY <1>6, PutStep
<1>7. CASE \E c \in Conn : \E k \in 0 .. Buf : PutFails(c, k) BY <1>7, PutFailsStep
<1>8. CASE \E c \in Conn : Count(c) BY <1>8, CountStep
<1>9. CASE Save BY <1>9, SaveStep
<1>10. CASE Restart BY <1>10, RestartStep
<1>11. CASE UNCHANGED vars BY <1>11, StutterStep
<1> QED
  BY <1>0, <1>1, <1>2, <1>3, <1>4, <1>5, <1>6, <1>7, <1>8, <1>9, <1>10, <1>11 DEF Next

\* The inductive invariant holds for every number of connections and every
\* file size.
THEOREM Invariance == Spec => []IInv
<1> QED BY InitIInv, NextIInv, PTL DEF Spec

\* Chunks, writes in flight, file offsets and the snapshot keep their types; in
\* particular no offset past the end of the file is ever written.
THEOREM TypeCorrect == Spec => []TypeOK
<1>1. IInv => TypeOK BY DEF IInv
<1> QED BY <1>1, Invariance, PTL

\* A chunk that shrinks under a read in flight still owns what the read counts.
THEOREM FlightIsOwned == Spec => []FlightOwned
<1>1. IInv => FlightOwned BY DEF IInv
<1> QED BY <1>1, Invariance, PTL

\* No byte of the file is ever assigned to two connections.
THEOREM WorkIsDisjoint == Spec => []ChunksDisjoint
<1>1. IInv => ChunksDisjoint BY DEF IInv
<1> QED BY <1>1, Invariance, PTL

\* No byte is lost: it is in the file or assigned to a connection.
THEOREM WorkCovers == Spec => []ChunksCover
<1>1. IInv => ChunksCover BY DEF IInv
<1> QED BY <1>1, Invariance, PTL

\* The stored snapshot is always one a new process can resume from.
THEOREM SnapshotIsSafe == Spec => []SnapshotSafe
<1>1. IInv => SnapshotSafe BY DEF IInv
<1> QED BY <1>1, Invariance, PTL

\* Nothing pending anywhere, and every byte in the file or pending.
LEMMA ExhaustedIsWhole == IInv => ExhaustedMeansWhole
<1> SUFFICES ASSUME IInv, live # {}, \A c \in live : remain(chunk[c]) = 0
             PROVE  written = Byte
  BY DEF ExhaustedMeansWhole
<1>1. \A c \in live : Pending(chunk[c]) = {}
  BY ChunkFacts DEF IInv, TypeOK, Pending, Offset, remain
<1> QED BY <1>1 DEF IInv, TypeOK, ChunksCover, Covered

\* Exhausted chunks mean a whole file, which is what onDownloadComplete
\* concludes from allChunksComplete.
THEOREM ExhaustedFileIsWhole == Spec => []ExhaustedMeansWhole
  BY ExhaustedIsWhole, Invariance, PTL

-----------------------------------------------------------------------------

\* Two adjacent halves of a chunk have exactly its pending bytes.
LEMMA HalvesUnion ==
  ASSUME NEW v \in Conn, NEW n \in Conn, NEW k, NEW l,
         chunk[v] \in Chunk, k \in Chunk, l \in Chunk,
         Offset(k) = Offset(chunk[v]), Offset(l) = k.end + 1,
         l.end = chunk[v].end,
         remain(k) >= 0, remain(l) >= 0
  PROVE  Pending(k) \cup Pending(l) = Pending(chunk[v])
BY DEF Pending, Offset, remain, Chunk

\* A split adds no byte to what is still to be fetched.
LEMMA SplitFetchesNothingNew ==
  ASSUME IInv, NEW v \in Conn, NEW n \in Conn, Split(v, n)
  PROVE  ToFetch' \subseteq ToFetch
<1> DEFINE s == SplitChunks(chunk, v, n)
<1>1. /\ v \in live /\ v # n /\ chunk' = s /\ live' = live \cup {n}
      /\ live \subseteq Conn /\ chunk \in [Conn -> Chunk]
      /\ remain(chunk[v]) > 2 * MinSteal /\ chunk[v].end < Size
  BY DEF Split, IInv, TypeOK, ChunkBounds
<1>2. /\ s[v] \in Chunk /\ s[n] \in Chunk
      /\ remain(s[v]) >= Buf /\ remain(s[n]) >= 0
      /\ Offset(s[v]) = Offset(chunk[v]) /\ Offset(s[n]) = s[v].end + 1
      /\ s[n].end = chunk[v].end
      /\ \A c \in Conn \ {v, n} : s[c] = chunk[c]
  BY <1>1, SplitHalves
<1>3. remain(s[v]) >= 0
  BY <1>2 DEF remain, Chunk
<1>4. Pending(s[v]) \cup Pending(s[n]) = Pending(chunk[v])
  BY <1>1, <1>2, <1>3, HalvesUnion
<1> QED BY <1>1, <1>2, <1>4 DEF ToFetch

\* A steal adds no byte to what is still to be fetched.
LEMMA StealFetchesNothingNew ==
  ASSUME IInv, NEW h \in Conn, NEW v \in Conn, Steal(h, v)
  PROVE  ToFetch' \subseteq ToFetch
<1> DEFINE s == StealChunks(chunk, h, v)
<1>1. /\ v \in live /\ v # h /\ chunk' = s /\ live' = live
      /\ live \subseteq Conn /\ chunk \in [Conn -> Chunk]
      /\ remain(chunk[v]) >= MinSteal /\ chunk[v].end < Size
  BY DEF Steal, IInv, TypeOK, ChunkBounds
<1>2. /\ s[v] \in Chunk /\ s[h] \in Chunk
      /\ remain(s[v]) >= Buf /\ remain(s[h]) >= 0
      /\ Offset(s[v]) = Offset(chunk[v]) /\ Offset(s[h]) = s[v].end + 1
      /\ s[h].end = chunk[v].end
      /\ \A c \in Conn \ {v, h} : s[c] = chunk[c]
  BY <1>1, StealHalves
<1>3. remain(s[v]) >= 0
  BY <1>2 DEF remain, Chunk
<1>4. Pending(s[v]) \cup Pending(s[h]) = Pending(chunk[v])
  BY <1>1, <1>2, <1>3, HalvesUnion
<1> QED BY <1>1, <1>2, <1>4 DEF ToFetch

\* Counting adds no byte to what is still to be fetched.
LEMMA CountFetchesNothingNew ==
  ASSUME IInv, NEW c \in Conn, Count(c)
  PROVE  ToFetch' \subseteq ToFetch
<1>1. /\ chunk' = [chunk EXCEPT ![c].dl = chunk[c].dl + flight[c]]
      /\ live' = live /\ TypeOK
  BY DEF Count, IInv
<1>2. /\ chunk'[c] = [begin |-> chunk[c].begin, end |-> chunk[c].end,
                      dl |-> chunk[c].dl + flight[c]]
      /\ \A d \in Conn \ {c} : chunk'[d] = chunk[d]
  BY <1>1, ChunkFacts DEF TypeOK, Chunk
<1>3. Pending(chunk'[c]) \subseteq Pending(chunk[c])
  BY <1>1, <1>2, ChunkFacts DEF Pending, Offset
<1> QED BY <1>1, <1>2, <1>3 DEF ToFetch, TypeOK

\* A takeover adds no byte to what is still to be fetched.
LEMMA TakeOverFetchesNothingNew ==
  ASSUME IInv, TakeOver
  PROVE  ToFetch' \subseteq ToFetch
<1>1. PICK p \in Offset(chunk[Primary]) .. Size :
        \E b \in 0 .. p :
          chunk' = [chunk EXCEPT ![Primary] =
                      [begin |-> b, end |-> Size - 1, dl |-> p - b]]
  BY DEF TakeOver
<1>2. PICK b \in 0 .. p :
        chunk' = [chunk EXCEPT ![Primary] =
                    [begin |-> b, end |-> Size - 1, dl |-> p - b]]
  BY <1>1
<1>3. live = {Primary} /\ live' = live /\ TypeOK /\ chunk[Primary].end = Size - 1
  BY DEF TakeOver, IInv
<1>4. chunk'[Primary] = [begin |-> b, end |-> Size - 1, dl |-> p - b]
  BY <1>2, <1>3 DEF TypeOK
<1>5. Pending(chunk'[Primary]) \subseteq Pending(chunk[Primary])
  BY <1>3, <1>4, ChunkFacts DEF Pending, Offset
<1> QED BY <1>3, <1>5 DEF ToFetch

\* Within one process no step makes a connection fetch a byte that was already
\* counted.
THEOREM CountedBytesStayCounted == Spec => NoByteIsFetchedAgain
<1> DEFINE A == (live # {} /\ <<live', chunk'>> # <<saved.live, saved.chunk>>)
                  => ToFetch' \subseteq ToFetch
<1>1. IInv /\ [Next]_vars => [A]_vars
  <2> SUFFICES ASSUME IInv, Next, live # {},
                      <<live', chunk'>> # <<saved.live, saved.chunk>>
               PROVE  ToFetch' \subseteq ToFetch
    OBVIOUS
  <2>0. CASE Deliver BY <2>0 DEF Deliver
  <2>1. CASE Open BY <2>1 DEF Open
  <2>2. CASE TakeOver BY <2>2, TakeOverFetchesNothingNew
  <2>3. CASE \E v, n \in Conn : Split(v, n) BY <2>3, SplitFetchesNothingNew
  <2>4. CASE \E h, v \in Conn : Steal(h, v) BY <2>4, StealFetchesNothingNew
  <2>5. CASE \E c \in Conn : \E n \in 1 .. Buf : Claim(c, n)
    BY <2>5 DEF Claim, ToFetch
  <2>6. CASE \E c \in Conn : Put(c) BY <2>6 DEF Put, ToFetch
  <2>7. CASE \E c \in Conn : \E k \in 0 .. Buf : PutFails(c, k)
    BY <2>7 DEF PutFails, ToFetch
  <2>8. CASE \E c \in Conn : Count(c) BY <2>8, CountFetchesNothingNew
  <2>9. CASE Save BY <2>9 DEF Save, ToFetch
  <2>10. CASE Restart BY <2>10 DEF Restart
  <2> QED
    BY <2>0, <2>1, <2>2, <2>3, <2>4, <2>5, <2>6, <2>7, <2>8, <2>9, <2>10 DEF Next
<1> QED BY <1>1, Invariance, PTL DEF Spec, NoByteIsFetchedAgain
=============================================================================
