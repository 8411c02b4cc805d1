------------------------- MODULE RangeFetcherProofs -------------------------
(***************************************************************************)
(* Proofs about RangeFetcher, for any number of connections, any file size *)
(* and any budget of failures, pauses and deaths: its invariant, and that  *)
(* it implements RangeChunks.                                              *)
(***************************************************************************)
EXTENDS RangeFetcher, CountingLemmas

USE SizeAssumption, BufAssumption, StealAssumption, MaxConnsAssumption

\* No behaviour has a budget under which bytes of a prefix may be lost.
Keeps == \A b \in Budgets : KeepsPrefix(b)

\* What counts as written.  If bytes may be lost, who owns what is still worth knowing:
\* then every byte counts.
W == IF Keeps THEN written \cup Prefix ELSE Byte

RCP == INSTANCE RangeChunksProofs WITH
        Conn <- Conn, Primary <- Primary,
        written <- W,
        saved <- [live |-> saved.live, chunk |-> saved.chunk]

IInv ==
  /\ FInv
  /\ RCP!IInv
  /\ Keeps => PrefixIsKept

-----------------------------------------------------------------------------
(* What RangeChunks says of the chunks.                                    *)

LEMMA PrimaryIsConn == Primary \in Conn
  BY DEF Primary, Conn

LEMMA FiniteConns ==
  \A S \in SUBSET Conn : IsFiniteSet(S) /\ Cardinality(S) \in 0 .. MaxConns
<1> SUFFICES ASSUME NEW S \in SUBSET Conn
             PROVE  IsFiniteSet(S) /\ Cardinality(S) \in 0 .. MaxConns
  OBVIOUS
<1>1. IsFiniteSet(Conn) /\ Cardinality(Conn) = MaxConns
  BY FS_Interval DEF Conn
<1> QED BY <1>1, FS_Subset, FS_CardinalityType

LEMMA SameOperators ==
  /\ RCP!Byte = Byte /\ RCP!Chunk = Chunk /\ RCP!NoChunk = NoChunk
  /\ \A k : RCP!remain(k) = remain(k) /\ RCP!Offset(k) = Offset(k)
            /\ RCP!Pending(k) = Pending(k)
  /\ \A b, e : RCP!NewChunk(b, e) = NewChunk(b, e) /\ RCP!SmallerOf(b, e) = SmallerOf(b, e)
  /\ \A ch, v, n : /\ RCP!SplitChunks(ch, v, n) = SplitChunks(ch, v, n)
                   /\ RCP!StealChunks(ch, v, n) = StealChunks(ch, v, n)
  BY DEF RCP!Byte, Byte, RCP!Chunk, Chunk, RCP!NoChunk, NoChunk, RCP!remain, remain,
         RCP!Offset, Offset, RCP!Pending, Pending, RCP!NewChunk, NewChunk, RCP!SmallerOf,
         SmallerOf, RCP!SplitChunks, SplitChunks, RCP!StealChunks, StealChunks

\* The state of the chunks, in a form in which it is used.
ChunksAreSound ==
  /\ live \subseteq Conn /\ saved.live \subseteq Conn
  /\ chunk \in [Conn -> Chunk] /\ saved.chunk \in [Conn -> Chunk]
  /\ flight \in [Conn -> 0 .. Buf] /\ put \in [Conn -> BOOLEAN]
  /\ \A c \in live : 0 <= flight[c] /\ flight[c] <= remain(chunk[c]) /\ chunk[c].end < Size
  /\ \A c \in saved.live : 0 <= remain(saved.chunk[c])
  /\ \A c \in Conn : /\ flight[c] > 0 => c \in live
                     /\ put[c] => flight[c] > 0

LEMMA ChunkState == RCP!IInv => ChunksAreSound
<1> SUFFICES ASSUME RCP!IInv PROVE ChunksAreSound
  OBVIOUS
<1>1. RCP!TypeOK /\ RCP!ChunkBounds(live, chunk) /\ RCP!FlightOwned /\ RCP!FlightState
  BY DEF RCP!IInv
<1>2. /\ saved.live \subseteq Conn /\ saved.chunk \in [Conn -> Chunk]
      /\ RCP!ChunkBounds(saved.live, saved.chunk)
  BY SameOperators DEF RCP!IInv, RCP!TypeOK
<1>3. /\ live \subseteq Conn /\ chunk \in [Conn -> Chunk] /\ put \in [Conn -> BOOLEAN]
      /\ flight \in [Conn -> 0 .. Buf]
  BY <1>1, SameOperators DEF RCP!TypeOK
<1> QED
  BY <1>1, <1>2, <1>3, SameOperators
  DEF RCP!ChunkBounds, RCP!FlightOwned, RCP!FlightState, ChunksAreSound

LEMMA ChunksStep == ASSUME RCP!IInv, [RCP!Next]_(RCP!vars) PROVE RCP!IInv'
  BY PrimaryIsConn, RCP!NextIInv

-----------------------------------------------------------------------------
(* Every step is one of RangeChunks, or changes nothing there.             *)

LEMMA OthersStutter ==
  ASSUME UNCHANGED <<live, chunk, flight, put, written, pre, saved>>
  PROVE  UNCHANGED RCP!vars
  BY DEF RCP!vars, W, Prefix

\* The prefix a temporary file holds is empty as long as there is no connection.
LEMMA NoPrefix ==
  /\ live = {} => Prefix = {}
  /\ pre = 0 => Prefix = {}
  BY DEF Prefix, Primary

LEMMA ClaimSim ==
  ASSUME IInv, NEW c \in Conn, NEW n \in 1 .. Buf, Claim(c, n)
  PROVE  RCP!Next
<1>1. RCP!Claim(c, n)
  BY SameOperators DEF Claim, RCP!Claim, IInv, FInv, WorkersAreSound, Active, loopVars, preVars, W, Prefix
<1> QED BY <1>1 DEF RCP!Next

LEMMA PutSim ==
  ASSUME IInv, NEW c \in Conn, Put(c)
  PROVE  RCP!Next
<1>1. RCP!InFlight(c) = InFlight(c)
  BY SameOperators DEF RCP!InFlight, InFlight
<1>2. ChunksAreSound
  BY ChunkState DEF IInv
<1>3. InFlight(c) \subseteq Byte
  BY <1>2 DEF ChunksAreSound, Put, InFlight, Byte, Offset, remain, Chunk
<1>4. W' = W \cup InFlight(c)
  BY <1>3 DEF Put, W, Prefix, loopVars, preVars
<1>5. RCP!Put(c)
  BY <1>1, <1>4 DEF Put, RCP!Put, loopVars, preVars
<1> QED BY <1>5 DEF RCP!Next

LEMMA PutFailsSim ==
  ASSUME IInv, NEW c \in Conn, NEW k \in 0 .. Buf, PutFails(c, k)
  PROVE  RCP!Next
<1>2. ChunksAreSound
  BY ChunkState DEF IInv
<1>3. Offset(chunk[c]) .. Offset(chunk[c]) + k - 1 \subseteq Byte
  BY <1>2 DEF ChunksAreSound, PutFails, Byte, Offset, remain, Chunk
<1>4. W' = W \cup (Offset(chunk[c]) .. Offset(chunk[c]) + k - 1)
  BY <1>3 DEF PutFails, W, Prefix, loopVars, preVars
<1>5. RCP!PutFails(c, k)
  BY <1>4, SameOperators DEF PutFails, RCP!PutFails, loopVars, preVars
<1> QED BY <1>5 DEF RCP!Next

LEMMA CountSim ==
  ASSUME IInv, NEW c \in Conn, Count(c)
  PROVE  RCP!Next
<1>2. ChunksAreSound
  BY ChunkState DEF IInv
<1>3. chunk'[Primary].begin = chunk[Primary].begin
  BY <1>2, PrimaryIsConn DEF ChunksAreSound, Count, Chunk
<1>4. W' = W
  BY <1>3 DEF Count, W, Prefix, loopVars, preVars
<1>5. RCP!Count(c)
  BY <1>4 DEF Count, RCP!Count, loopVars, preVars
<1> QED BY <1>5 DEF RCP!Next

\* A connection that is looking for help has nothing left and nothing in flight.
LEMMA HelpsSim ==
  ASSUME IInv, NEW c \in Conn, NEW v \in Conn, Helps(c, v)
  PROVE  RCP!Next
<1>1. c \in live /\ v \in live /\ c # v /\ conn[c].pc = "help"
  BY DEF Helps, IInv, FInv, WorkersAreSound, Active
<1>2. remain(chunk[c]) = 0 /\ flight[c] = 0
  <2>1. ChunksAreSound
    BY ChunkState DEF IInv
  <2> QED BY <1>1, <2>1 DEF IInv, FInv, WorkersAreSound, ChunksAreSound
<1>3. live # {Primary}
  BY <1>1
<1>4. W' = W
  BY <1>3 DEF Helps, W, Prefix, loopVars, preVars
<1>5. RCP!Steal(c, v)
  BY <1>1, <1>2, <1>4, SameOperators DEF Helps, RCP!Steal, loopVars, preVars
<1> QED BY <1>5 DEF RCP!Next

LEMMA SaveSim == ASSUME Save PROVE RCP!Next
<1>1. W' = W
  BY DEF Save, W, Prefix, loopVars, preVars
<1>2. RCP!Save
  BY <1>1 DEF Save, RCP!Save, SnapshotChunks, loopVars, preVars
<1> QED BY <1>2 DEF RCP!Next

\* The facts about the prefix its steps need.
LEMMA HeldFacts ==
  ASSUME IInv
  PROVE  /\ pre \in 0 .. Size /\ dataPos \in 0 .. Size
         /\ preDone \in BOOLEAN /\ fallback \in BOOLEAN /\ range \in BOOLEAN
         /\ Held /\ live # {} => PrimaryWaits
         /\ Primary \in Conn
         /\ ChunksAreSound
         /\ RCP!TypeOK
  BY PrimaryIsConn, ChunkState DEF IInv, FInv, TypeOK, HeldByPrimary, RCP!IInv

\* The primary that waits begins where the prefix it has seen ends, so what Resolve goes
\* on fetching is still its.
LEMMA PrefetchReadSim == ASSUME IInv, PrefetchRead PROVE UNCHANGED RCP!vars
<1>1. /\ ~preDone /\ pre' = pre + 1
      /\ UNCHANGED <<live, chunk, flight, put, written, saved>>
  BY DEF PrefetchRead, loopVars
<1>2. live = {Primary} => chunk[Primary].begin <= pre /\ chunk[Primary].begin \in Nat
  BY <1>1, HeldFacts DEF Held, PrimaryWaits, NewChunk
<1>3. live = {Primary} => 0 .. chunk[Primary].begin - 1 = IF pre = 0 THEN {} ELSE Prefix
  BY <1>2, HeldFacts DEF Prefix
<1>4. Prefix' = Prefix
  BY <1>1, <1>2, <1>3, HeldFacts DEF Prefix
<1> QED
  BY <1>1, <1>4 DEF W, RCP!vars

LEMMA DeliverSim ==
  ASSUME live = {}, live' = {}, NEW p \in 0 .. Size, written' = written \cup (0 .. p - 1),
         UNCHANGED <<chunk, flight, put, saved>>
  PROVE  RCP!Next
<1>1. Prefix = {} /\ Prefix' = {}
  BY DEF Prefix
<1>2. W' = W \cup (0 .. p - 1)
  BY <1>1 DEF W, Byte
<1>3. RCP!Deliver
  BY <1>2 DEF RCP!Deliver
<1> QED BY <1>3 DEF RCP!Next

LEMMA StartSim == ASSUME IInv, Start PROVE [RCP!Next]_(RCP!vars)
<1>1. UNCHANGED <<live, chunk, flight, put, saved>>
  BY DEF Start
<1>2. Resting
  BY DEF Start, Resting
<1>3. CASE live = {} /\ CopyPrefix
  BY <1>1, <1>3, HeldFacts, DeliverSim DEF CopyPrefix
<1>4. CASE live # {} /\ CopyPrefix
  <2>1. ~Held
    BY <1>2, <1>4, HeldFacts DEF PrimaryWaits, Resting
  <2>2. pre = 0
    BY <2>1, HeldFacts DEF Held
  <2>3. UNCHANGED <<written, pre>>
    BY <1>4, <2>2 DEF CopyPrefix
  <2> QED BY <1>1, <2>3, OthersStutter
<1>5. CASE UNCHANGED <<written, pre>>
  BY <1>1, <1>5, OthersStutter
<1> QED
  BY <1>3, <1>4, <1>5 DEF Start

LEMMA LoopOpensSim == ASSUME IInv, LoopOpens PROVE RCP!Next
<1>1. /\ live = {} /\ live' = {Primary} /\ dataPos \in Byte
      /\ chunk' = [chunk EXCEPT ![Primary] = NewChunk(dataPos, Size - 1)]
      /\ UNCHANGED <<flight, put, written, pre, saved>>
  BY HeldFacts DEF LoopOpens, preVars, Byte
<1>2. chunk'[Primary].begin = dataPos
  BY <1>1, HeldFacts DEF NewChunk, ChunksAreSound
<1>3. Prefix = {} /\ Prefix' = IF pre > 0 THEN 0 .. dataPos - 1 ELSE {}
  BY <1>1, <1>2, HeldFacts DEF Prefix
<1>4. pre = 0 => 0 .. dataPos - 1 \subseteq written
  BY <1>1, HeldFacts DEF IInv, FInv, CopiedBeforeOpen, LoopOpens
<1>5. W' = W \cup (0 .. dataPos - 1)
  BY <1>1, <1>3, <1>4, HeldFacts DEF W, Byte
<1>6. RCP!Open
  BY <1>1, <1>5, SameOperators DEF RCP!Open
<1> QED BY <1>6 DEF RCP!Next

\* The connection a split makes has the next number, and the first is not new.
LEMMA SplitNumber ==
  ASSUME IInv, LoopSplits
  PROVE  /\ Cardinality(live) \in Conn \ live /\ Cardinality(live) # Primary
         /\ Cardinality(live) + toSplit <= MaxConns /\ toSplit > 0
<1> DEFINE n == Cardinality(live)
<1>1. PICK v \in live : IsMaxRemainConn(v)
  BY DEF LoopSplits
<1>2. n \in Nat /\ n + toSplit <= MaxConns /\ toSplit > 0 /\ toSplit \in 0 .. MaxConns
  <2>1. IsFiniteSet(live)
    BY HeldFacts, FiniteConns DEF ChunksAreSound
  <2> QED BY <2>1, FS_CardinalityType DEF LoopSplits, IInv, FInv, ConnsInOrder, TypeOK
<1>3. n \in Conn
  BY <1>2 DEF Conn
<1>4. n \notin live
  BY <1>2, <1>3 DEF IInv, FInv, ConnsInOrder, InOrder
<1>5. Primary \in live
  <2>1. v \in Conn /\ v < n
    BY <1>1, HeldFacts DEF IInv, FInv, ConnsInOrder, InOrder, ChunksAreSound
  <2> QED BY <2>1, <1>2, HeldFacts DEF IInv, FInv, ConnsInOrder, InOrder, Primary, Conn
<1> QED BY <1>2, <1>3, <1>4, <1>5

LEMMA LoopSplitsSim == ASSUME IInv, LoopSplits PROVE RCP!Next
<1> DEFINE n == Cardinality(live)
<1>1. PICK v \in live : IsMaxRemainConn(v) /\ chunk' = SplitChunks(chunk, v, n)
  BY DEF LoopSplits
<1>2. n \in Conn \ live /\ n # Primary
  BY SplitNumber
<1>3. /\ live' = live \cup {n} /\ remain(chunk[v]) > 2 * MinSteal
      /\ UNCHANGED <<flight, put, written, pre, saved>>
  BY <1>1 DEF LoopSplits, preVars, IsMaxRemainConn, Splittable
<1>4. live' # {Primary}
  BY <1>2, <1>3
<1>5. live = {Primary} => pre = 0
  <2>1. ~Held
    BY HeldFacts, <1>1 DEF LoopSplits, PrimaryWaits
  <2> QED BY <2>1, HeldFacts DEF Held
<1>6. Prefix = {} /\ Prefix' = {}
  BY <1>4, <1>5 DEF Prefix
<1>7. W' = W
  BY <1>3, <1>6 DEF W
<1>8. RCP!Split(v, n)
  BY <1>1, <1>2, <1>3, <1>7, SameOperators DEF RCP!Split
<1> QED BY <1>1, <1>2, <1>8, HeldFacts DEF RCP!Next, ChunksAreSound

\* TakeOver of RangeChunks, for a primary that is alone.
LEMMA TakeOverSim ==
  ASSUME IInv, live = {Primary}, NEW p \in 0 .. Size, NEW b \in 0 .. p,
         chunk[Primary] = NewChunk(dataPos, Size - 1), flight[Primary] = 0, dataPos <= p,
         pre' = 0, written' = written \cup (0 .. p - 1),
         chunk' = [chunk EXCEPT ![Primary] = [begin |-> b, end |-> Size - 1, dl |-> p - b]],
         UNCHANGED <<live, flight, put, saved>>
  PROVE  RCP!Next
<1>1. /\ Offset(chunk[Primary]) = dataPos /\ chunk[Primary].end = Size - 1
      /\ chunk[Primary].begin = dataPos
  BY HeldFacts DEF Offset, NewChunk
<1>2. Prefix \subseteq 0 .. p - 1 /\ Prefix' = {}
  BY <1>1, HeldFacts DEF Prefix
<1>3. W' = W \cup (0 .. p - 1)
  <2>1. 0 .. p - 1 \subseteq Byte
    BY DEF Byte
  <2>2. W' = IF Keeps THEN written' \cup Prefix' ELSE Byte
    BY DEF W, Byte
  <2> QED BY <1>2, <2>1, <2>2 DEF W
<1>4. p \in dataPos .. Size
  BY HeldFacts
<1>5. RCP!TakeOver
  BY <1>1, <1>3, <1>4, SameOperators DEF RCP!TakeOver
<1> QED BY <1>5 DEF RCP!Next

LEMMA ResponseOkSim ==
  ASSUME IInv, NEW c \in Conn, ResponseOk(c)
  PROVE  [RCP!Next]_(RCP!vars)
<1>1. UNCHANGED <<live, flight, put, saved>> /\ c \in live
  BY DEF ResponseOk, loopVars, IInv, FInv, WorkersAreSound, Active
<1>2. CASE c = Primary /\ fallback
  <2>1. PrimaryWaits
    BY <1>1, <1>2, HeldFacts DEF Held
  <2>2. /\ live = {Primary} /\ flight[Primary] = 0 /\ dataPos <= pre
        /\ chunk[Primary] = NewChunk(dataPos, Size - 1)
    BY <2>1 DEF PrimaryWaits
  <2>3. /\ pre' = 0 /\ written' = written \cup (0 .. pre - 1)
        /\ chunk' = [chunk EXCEPT ![Primary].dl = pre - dataPos]
    <3>1. Offset(chunk[Primary]) = dataPos
      BY <2>2, HeldFacts DEF Offset, NewChunk
    <3> QED BY <1>2, <3>1 DEF ResponseOk, CopyPrefix, Overlap
  <2>4. chunk' = [chunk EXCEPT ![Primary] =
                    [begin |-> dataPos, end |-> Size - 1, dl |-> pre - dataPos]]
    <3>1. [chunk[Primary] EXCEPT !.dl = pre - dataPos]
            = [begin |-> dataPos, end |-> Size - 1, dl |-> pre - dataPos]
      BY <2>2 DEF NewChunk
    <3> QED BY <2>3, <3>1, HeldFacts DEF ChunksAreSound
  <2>5. dataPos \in 0 .. pre
    BY <2>2, HeldFacts
  <2> QED BY <1>1, <2>2, <2>3, <2>4, <2>5, HeldFacts, TakeOverSim
<1>3. CASE ~(c = Primary /\ fallback)
  BY <1>1, <1>3, OthersStutter DEF ResponseOk
<1> QED BY <1>2, <1>3

LEMMA FallbackCompletesSim ==
  ASSUME IInv, NEW c \in Conn, FallbackCompletes(c)
  PROVE  RCP!Next
<1>1. /\ c = Primary /\ c \in live /\ pre = Size
      /\ UNCHANGED <<live, flight, put, saved>>
      /\ pre' = 0 /\ written' = written \cup (0 .. pre - 1)
      /\ chunk' = [chunk EXCEPT ![c] = [begin |-> 0, end |-> pre - 1, dl |-> pre]]
  BY DEF FallbackCompletes, loopVars, IInv, FInv, WorkersAreSound, Active
<1>2. PrimaryWaits
  BY <1>1, HeldFacts DEF Held, FallbackCompletes
<1>3. /\ live = {Primary} /\ flight[Primary] = 0 /\ dataPos <= pre
      /\ chunk[Primary] = NewChunk(dataPos, Size - 1)
  BY <1>2 DEF PrimaryWaits
<1>4. /\ chunk' = [chunk EXCEPT ![Primary] =
                     [begin |-> 0, end |-> Size - 1, dl |-> Size - 0]]
      /\ written' = written \cup (0 .. Size - 1)
      /\ Size \in 0 .. Size /\ 0 \in 0 .. Size /\ dataPos <= Size
  <2>1. Size - 0 = Size
    OBVIOUS
  <2> QED BY <1>1, <1>3, <2>1, HeldFacts
<1> QED BY <1>1, <1>3, <1>4, TakeOverSim

\* The fallback breaks: nothing was in the temporary file that no connection fetches.
LEMMA FallbackFailsSim ==
  ASSUME IInv, NEW c \in Conn, FallbackFails(c)
  PROVE  UNCHANGED RCP!vars
<1>1. /\ c = Primary /\ c \in live /\ conn[Primary].pc = "fallback" /\ pre < Size /\ preDone
      /\ pre' = 0 /\ UNCHANGED <<live, chunk, flight, put, written, saved>>
  BY DEF FallbackFails, loopVars, IInv, FInv, WorkersAreSound, Active
<1>2. PrimaryWaits
  BY <1>1, HeldFacts DEF Held
<1>3. Keeps => dataPos = 0
  <2>1. Keeps => PrefixIsKept /\ budget.prefix \in 0 .. Size
    BY DEF IInv, FInv, TypeOK, Budget
  <2>2. HAVE Keeps
  <2>3. CASE budget.prefix = 0
    BY <1>1, <2>1, <2>2, <2>3 DEF PrefixIsKept, Held
  <2>4. CASE budget.prefix > 0
    BY <1>1, <2>1, <2>2, <2>4, HeldFacts DEF PrefixIsKept
  <2> QED BY <2>1, <2>2, <2>3, <2>4
<1>4. chunk[Primary].begin = dataPos
  BY <1>2 DEF PrimaryWaits, NewChunk
<1>5. Keeps => Prefix = {} /\ Prefix' = {}
  BY <1>1, <1>3, <1>4 DEF Prefix
<1>6. W' = W
  BY <1>1, <1>5 DEF W
<1> QED BY <1>1, <1>6 DEF RCP!vars

LEMMA PauseEndsSim == ASSUME IInv, PauseEnds PROVE [RCP!Next]_(RCP!vars)
<1>1. pre' = 0 /\ UNCHANGED <<live, flight, put, saved>>
  BY DEF PauseEnds
<1>2. CASE pre = 0
  <2>1. PauseCopies = {}
    BY <1>2 DEF PauseCopies
  <2> QED BY <1>1, <1>2, <2>1, OthersStutter DEF PauseEnds
<1>3. CASE pre > 0 /\ live = {}
  <2>1. chunk' = chunk
    BY <1>3, HeldFacts DEF PauseEnds
  <2>2. CASE range /\ state \in {"slowStart", "steady"}
    BY <1>1, <1>3, <2>1, <2>2, HeldFacts, DeliverSim DEF PauseEnds, PauseCopies
  <2>3. CASE ~(range /\ state \in {"slowStart", "steady"})
    <3>1. written' = written
      BY <2>3 DEF PauseEnds, PauseCopies
    <3>2. Prefix = {} /\ Prefix' = {}
      BY <1>1, <1>3 DEF Prefix
    <3> QED BY <1>1, <2>1, <3>1, <3>2 DEF W, RCP!vars
  <2> QED BY <2>2, <2>3
<1>4. CASE pre > 0 /\ live # {}
  <2>1. PrimaryWaits
    BY <1>4, HeldFacts DEF Held
  <2>2. /\ chunk' = [chunk EXCEPT ![Primary] = NewChunk(pre, Size - 1)]
        /\ written' = written \cup (0 .. pre - 1)
    BY <1>4, <2>1 DEF PauseEnds, PauseCopies, PrimaryWaits
  <2>3. chunk' = [chunk EXCEPT ![Primary] =
                    [begin |-> pre, end |-> Size - 1, dl |-> pre - pre]]
    <3>1. pre - pre = 0
      BY HeldFacts
    <3> QED BY <2>2, <3>1 DEF NewChunk
  <2>4. /\ pre \in 0 .. Size /\ pre \in 0 .. pre
    BY HeldFacts
  <2>5. /\ live = {Primary} /\ flight[Primary] = 0 /\ dataPos <= pre
        /\ chunk[Primary] = NewChunk(dataPos, Size - 1)
    BY <2>1 DEF PrimaryWaits
  <2> QED BY <1>1, <2>2, <2>3, <2>4, <2>5, TakeOverSim
<1> QED BY <1>2, <1>3, <1>4, HeldFacts

LEMMA RestartSim == ASSUME IInv, Restart PROVE RCP!Next
<1>1. /\ pre' = 0 /\ UNCHANGED <<written, saved>> /\ budget.restarts > 0
      /\ live' = saved.live /\ chunk' = saved.chunk
      /\ flight' = [c \in Conn |-> 0] /\ put' = [c \in Conn |-> FALSE]
  BY DEF Restart
<1>2. Keeps => Prefix = {}
  <2> SUFFICES ASSUME Keeps, pre > 0, live = {Primary} PROVE Prefix = {}
    BY DEF Prefix
  <2>1. PrefixIsKept /\ budget.prefix \in 0 .. Size /\ Held /\ PrimaryWaits
    BY HeldFacts DEF IInv, FInv, TypeOK, Budget, Held
  <2>2. dataPos = 0
    BY <1>1, <2>1 DEF PrefixIsKept, KeepsPrefix
  <2> QED BY <2>1, <2>2 DEF PrimaryWaits, NewChunk, Prefix
<1>3. Prefix' = {}
  BY <1>1 DEF Prefix
<1>4. W' = W
  BY <1>1, <1>2, <1>3 DEF W
<1>5. RCP!Restart
  BY <1>1, <1>4 DEF RCP!Restart
<1> QED BY <1>5 DEF RCP!Next

\* Every step of the fetcher moves bytes as RangeChunks does, or not at all.
LEMMA Simulation == ASSUME IInv, [Next]_vars PROVE [RCP!Next]_(RCP!vars)
<1>1. CASE UNCHANGED vars
  BY <1>1, OthersStutter DEF vars, loopVars, preVars
<1>2. CASE PrefetchRead
  BY <1>2, PrefetchReadSim
<1>3. CASE Start
  BY <1>3, StartSim
<1>4. CASE Loop
  BY <1>4, LoopOpensSim, LoopSplitsSim, OthersStutter
  DEF Loop, LoopAlreadyDone, LoopResumes, LoopExpands, LoopCancelled, LoopUnlocks,
      LoopLaunches, LoopCompletes, preVars
<1>5. ASSUME NEW c \in Conn, Work(c)
      PROVE  [RCP!Next]_(RCP!vars)
  <2>1. CASE Cancelled(c) \/ NothingLeft(c) \/ FallbackCancelled(c) \/ WakeUp(c) \/ Completes(c)
    BY <2>1, OthersStutter
    DEF Cancelled, NothingLeft, FallbackCancelled, WakeUp, Completes, loopVars, preVars
  <2> QED
    BY <1>5, <2>1, ResponseOkSim, FallbackCompletesSim, FallbackFailsSim, ClaimSim, PutSim,
       CountSim, HelpsSim DEF Work
<1>6. ASSUME NEW c \in Conn, Fails(c)
      PROVE  [RCP!Next]_(RCP!vars)
  <2>1. CASE \E kind \in FaultKind : RequestFails(c, kind)
    BY <2>1, OthersStutter DEF RequestFails, loopVars
  <2>2. CASE BodyBreaks(c)
    BY <2>2, OthersStutter DEF BodyBreaks, loopVars, preVars
  <2> QED BY <1>6, <2>1, <2>2, PutFailsSim DEF Fails
<1>7. CASE PrefetchEnds \/ WaitReturns \/ PauseBegins
  BY <1>7, OthersStutter DEF PrefetchEnds, WaitReturns, PauseBegins, loopVars, preVars
<1> QED
  BY <1>1, <1>2, <1>3, <1>4, <1>5, <1>6, <1>7, PauseEndsSim, SaveSim, RestartSim DEF Next

LEMMA ChunksNext ==
  ASSUME IInv, [Next]_vars
  PROVE  RCP!IInv' /\ ChunksAreSound'
<1>1. RCP!IInv'
  BY Simulation, ChunksStep DEF IInv
<1>2. (RCP!IInv => ChunksAreSound)'
  BY ChunkState, PTL
<1> QED BY <1>1, <1>2

-----------------------------------------------------------------------------
(* The steps of workers.                                                   *)

\* What every part of the invariant knows of the types.
LEMMA Types ==
  ASSUME IInv
  PROVE  /\ TypeOK /\ ChunksAreSound /\ Primary \in Conn
         /\ IsFiniteSet(live) /\ Cardinality(live) \in 0 .. MaxConns
         /\ IsFiniteSet(batch) /\ Cardinality(batch) \in 0 .. MaxConns
<1>1. TypeOK /\ ChunksAreSound /\ Primary \in Conn
  BY HeldFacts DEF IInv, FInv
<1>2. live \in SUBSET Conn /\ batch \in SUBSET Conn
  BY <1>1 DEF TypeOK
<1> QED BY <1>1, <1>2, FiniteConns

\* A step of a worker is one of an active one: the loop runs, or a Pause waits for it.
LEMMA WorkerIsActive ==
  ASSUME IInv, NEW c \in Conn, Work(c) \/ Fails(c)
  PROVE  /\ Active(c) /\ c \in live \ batch /\ conn[c].retry < 3
         /\ conn[c].st # "completed"
         /\ ~Resting /\ loop # "start" /\ range
         /\ UNCHANGED <<loopVars, saved>>
<1>1. flight[c] > 0 \/ put[c] => conn[c].pc = "body"
  BY Types DEF IInv, FInv, WorkersAreSound, ChunksAreSound
<1>2. Active(c)
  <2>1. CASE Put(c) \/ Count(c) \/ \E k \in 0 .. Buf : PutFails(c, k)
    <3>1. flight[c] > 0 \/ put[c]
      BY <2>1, Types DEF Put, Count, PutFails, ChunksAreSound
    <3> QED BY <1>1, <3>1 DEF Active
  <2>2. CASE \/ \E kind \in FaultKind : RequestFails(c, kind)
             \/ BodyBreaks(c) \/ ResponseOk(c) \/ FallbackCompletes(c)
             \/ FallbackFails(c) \/ FallbackCancelled(c)
    BY <2>2 DEF Active, ResponseOk, FallbackCompletes, FallbackFails, FallbackCancelled,
                RequestFails, BodyBreaks
  <2>3. CASE \/ Cancelled(c) \/ NothingLeft(c) \/ WakeUp(c) \/ Completes(c)
             \/ (\E n \in 1 .. Buf : Claim(c, n)) \/ (\E v \in Conn : Helps(c, v))
    BY <2>3 DEF Active, Cancelled, NothingLeft, WakeUp, Claim, Helps, Completes
  <2> QED BY <2>1, <2>2, <2>3 DEF Work, Fails
<1>3. /\ c \in live \ batch /\ conn[c].retry < 3 /\ conn[c].st # "completed"
  BY <1>2 DEF IInv, FInv, WorkersAreSound
<1>4. ~Resting /\ loop # "start"
  BY <1>2, <1>3 DEF IInv, FInv, LoopIsSound, WorkersGone, Active
<1>5. range
  BY <1>3, Types DEF IInv, FInv, RangeIsKept, TypeOK
<1>6. UNCHANGED <<loopVars, saved>>
  BY DEF Work, Fails, Cancelled, NothingLeft, ResponseOk, FallbackCompletes,
      FallbackFails, FallbackCancelled, WakeUp, Claim, Put, Count, Helps, Completes,
      RequestFails, PutFails, BodyBreaks, loopVars
<1> QED BY <1>2, <1>3, <1>4, <1>5, <1>6

Errors == {"net", "exempt", "counted", "forbidden", "terminal"}

\* A worker that fails sleeps, or is gone and says why.
LEMMA FailedEffect ==
  ASSUME TypeOK, NEW c \in Conn, NEW kind \in Errors, conn[c].retry < 3, Failed(c, kind)
  PROVE  /\ \E w \in Worker :
              /\ conn' = [conn EXCEPT ![c] = w]
              /\ w.st = "failed" /\ w.err = kind /\ w.total = conn[c].total
              /\ w.pc \in {"sleep", "exit"}
              /\ w.pc = "exit" => w.failed
              /\ w.pc = "sleep" => w.retry < 3
              /\ kind \in {"net", "exempt"} => w.pc = "sleep"
         /\ ss' \in {ss, onConnectFailed(ss)}
         /\ kind \in {"net", "exempt"} => ss' = ss
<1>1. conn[c] \in Worker
  BY DEF TypeOK
<1>2. CASE kind \in {"net", "exempt"}
  <2> DEFINE w == [[[conn[c] EXCEPT !.st = "failed"] EXCEPT !.err = kind] EXCEPT !.pc = "sleep"]
  <2>1. conn' = [conn EXCEPT ![c] = w] /\ ss' = ss
    BY <1>2 DEF Failed, Become
  <2>2. /\ w \in Worker /\ w.st = "failed" /\ w.err = kind /\ w.total = conn[c].total
        /\ w.pc = "sleep" /\ w.retry = conn[c].retry
    BY <1>1, <1>2 DEF Worker
  <2> HIDE DEF w
  <2> QED BY <2>1, <2>2
<1>3. CASE kind = "counted"
  <2> DEFINE p == IF conn[c].retry = 2 THEN "exit" ELSE "sleep"
             w == [conn[c] EXCEPT !.st = "failed", !.err = kind, !.failed = TRUE,
                                  !.retry = conn[c].retry + 1, !.pc = p]
  <2>1. conn' = [conn EXCEPT ![c] = w] /\ ss' = onConnectFailed(ss)
    BY <1>1, <1>3 DEF Failed, Become, Worker
  <2>2. /\ w \in Worker /\ w.st = "failed" /\ w.err = kind /\ w.total = conn[c].total
        /\ w.pc = p /\ w.retry = conn[c].retry + 1 /\ w.failed
    <3>1. conn[c].retry + 1 \in 0 .. 3 /\ p \in {"exit", "sleep"}
      BY <1>1 DEF Worker
    <3> HIDE DEF p
    <3> QED BY <1>1, <1>3, <3>1 DEF Worker
  <2>3. w.pc = "sleep" => w.retry < 3
    BY <1>1, <2>2 DEF Worker
  <2> HIDE DEF w
  <2> QED BY <1>3, <2>1, <2>2, <2>3
<1>4. CASE kind \in {"forbidden", "terminal"}
  <2> DEFINE w == [conn[c] EXCEPT !.st = "failed", !.err = kind, !.failed = TRUE, !.pc = "exit"]
  <2>1. conn' = [conn EXCEPT ![c] = w] /\ ss' = onConnectFailed(ss)
    BY <1>1, <1>4 DEF Failed, Become, Worker
  <2>2. /\ w \in Worker /\ w.st = "failed" /\ w.err = kind /\ w.total = conn[c].total
        /\ w.pc = "exit" /\ w.failed
    BY <1>1, <1>4 DEF Worker
  <2> HIDE DEF w
  <2> QED BY <1>4, <2>1, <2>2
<1> QED BY <1>2, <1>3, <1>4 DEF Errors

\* The slow-start controller keeps its types.
SlowStart == [launched : Nat, pending : 0 .. MaxConns, ready : Nat,
              next : 1 .. MaxConns, signal : BOOLEAN]

LEMMA SquareFits ==
  ASSUME NEW n \in 1 .. MaxConns, n <= MaxConns \div n
  PROVE  n * n \in 1 .. MaxConns
<1> DEFINE q == MaxConns \div n
<1>1. q \in Int /\ n * q <= MaxConns
  OBVIOUS
<1>2. n * n <= n * q
  BY <1>1
<1>3. n * n >= 1 /\ n * n \in Int
  OBVIOUS
<1> QED BY <1>1, <1>2, <1>3

LEMMA SlowStartTypes ==
  /\ NewSlowStart \in SlowStart
  /\ \A s \in SlowStart :
       /\ onConnectFailed(s) \in SlowStart /\ onConnectFailed(s).launched = s.launched
       /\ onConnectSuccess(s) \in SlowStart /\ onConnectSuccess(s).launched = s.launched
       /\ [s EXCEPT !.signal = TRUE] \in SlowStart
       /\ [s EXCEPT !.signal = FALSE] \in SlowStart
       /\ \A n \in 0 .. MaxConns :
            commitBatch(s, n) \in SlowStart /\ commitBatch(s, n).launched = s.launched + n
            /\ commitBatch(s, n).signal = s.signal
<1>1. NewSlowStart \in SlowStart
  BY DEF NewSlowStart, SlowStart
<1>2. ASSUME NEW s \in SlowStart
      PROVE  /\ onConnectFailed(s) \in SlowStart /\ onConnectFailed(s).launched = s.launched
             /\ onConnectSuccess(s) \in SlowStart /\ onConnectSuccess(s).launched = s.launched
             /\ [s EXCEPT !.signal = TRUE] \in SlowStart
             /\ [s EXCEPT !.signal = FALSE] \in SlowStart
  <2> DEFINE p == IF s.pending > 0 THEN s.pending - 1 ELSE 0
             bf == s.signal \/ p = 0
             bs == s.signal \/ s.ready + 1 >= s.pending
  <2>1. p \in 0 .. MaxConns
    BY DEF SlowStart
  <2>2. bf \in BOOLEAN /\ bs \in BOOLEAN
    OBVIOUS
  <2>3. /\ onConnectFailed(s) = [s EXCEPT !.pending = p, !.signal = bf]
        /\ onConnectSuccess(s) = [s EXCEPT !.ready = s.ready + 1, !.signal = bs]
    BY Zenon DEF onConnectFailed, onConnectSuccess
  <2> HIDE DEF p, bf, bs
  <2>4. [s EXCEPT !.pending = p, !.signal = bf] \in SlowStart
    BY <2>1, <2>2 DEF SlowStart
  <2>5. [s EXCEPT !.ready = s.ready + 1, !.signal = bs] \in SlowStart
    <3>1. s.ready + 1 \in Nat
      BY DEF SlowStart
    <3>2. \A r \in Nat, b \in BOOLEAN : [s EXCEPT !.ready = r, !.signal = b] \in SlowStart
      BY DEF SlowStart
    <3> QED BY <2>2, <3>1, <3>2
  <2>6. \A b \in BOOLEAN : [s EXCEPT !.signal = b] \in SlowStart
    BY DEF SlowStart
  <2>7. /\ [s EXCEPT !.pending = p, !.signal = bf].launched = s.launched
        /\ [s EXCEPT !.ready = s.ready + 1, !.signal = bs].launched = s.launched
    BY DEF SlowStart
  <2> QED BY <2>3, <2>4, <2>5, <2>6, <2>7
<1>3. ASSUME NEW s \in SlowStart, NEW n \in 0 .. MaxConns
      PROVE  /\ commitBatch(s, n) \in SlowStart /\ commitBatch(s, n).launched = s.launched + n
             /\ commitBatch(s, n).signal = s.signal
  <2> DEFINE x == IF s.next = 1 THEN SmallerOf(2, MaxConns)
                  ELSE IF s.next > MaxConns \div s.next THEN MaxConns ELSE s.next * s.next
  <2>1. s.next \in 1 .. MaxConns
    BY DEF SlowStart
  <2>2. x \in 1 .. MaxConns
    <3>1. SmallerOf(2, MaxConns) \in 1 .. MaxConns
      BY DEF SmallerOf
    <3>2. s.next > MaxConns \div s.next \/ s.next * s.next \in 1 .. MaxConns
      BY <2>1, SquareFits
    <3> QED BY <3>1, <3>2
  <2>3. commitBatch(s, n) = [s EXCEPT !.launched = s.launched + n, !.next = x,
                                      !.pending = n, !.ready = 0]
    BY Zenon DEF commitBatch
  <2> HIDE DEF x
  <2> DEFINE m == s.launched + n
             r == [s EXCEPT !.launched = m, !.next = x, !.pending = n, !.ready = 0]
  <2>4. m \in Nat
    BY DEF SlowStart
  <2>5. r \in SlowStart /\ r.launched = m /\ r.signal = s.signal
    <3> HIDE DEF m
    <3> QED BY <2>2, <2>4 DEF SlowStart
  <2>6. commitBatch(s, n) = r
    BY <2>3
  <2> HIDE DEF r
  <2> QED BY <2>5, <2>6
<1> QED BY <1>1, <1>2, <1>3

\* What may become of worker c, whose record is w afterwards.
Outcome(c, w) ==
  /\ w \in Worker /\ conn' = [conn EXCEPT ![c] = w]
  /\ w.pc # "none"
  /\ w.pc # "exit" => w.retry < 3 /\ w.st # "completed"
  /\ w.pc = "exit" => cancelled \/ w.st = "completed" \/ (w.st = "failed" /\ w.failed)
  /\ w.pc = "fallback" =>
       c = Primary /\ w.err \in {"net", "counted", "forbidden", "terminal"}
  /\ w.pc = "help" \/ w.st = "completed" => remain(chunk'[c]) = 0
  /\ flight'[c] > 0 => w.pc = "body"
  /\ w.err = "forbidden" => conn[c].err = "forbidden" \/ "forbidden" \in budget.kinds

\* What it leaves alone.
OthersKept(c) ==
  /\ \A d \in Conn \ {c} : flight'[d] = flight[d]
  /\ \A d \in live \ {c} : conn[d].pc = "help" \/ conn[d].st = "completed" =>
                             chunk'[d] = chunk[d]

\* Worker c, somewhere else.
At(c, p) == [conn[c] EXCEPT !.pc = p]

LEMMA WorkerRecord ==
  ASSUME IInv, NEW c \in Conn
  PROVE  /\ conn[c] \in Worker /\ conn = [conn EXCEPT ![c] = conn[c]]
         /\ \A p \in {"none", "request", "body", "fallback", "help", "sleep", "exit"} :
              /\ At(c, p) \in Worker /\ At(c, p).pc = p /\ At(c, p).st = conn[c].st
              /\ At(c, p).retry = conn[c].retry /\ At(c, p).err = conn[c].err
              /\ At(c, p).total = conn[c].total /\ At(c, p).failed = conn[c].failed
         /\ conn[c].retry < 3 \/ ~Active(c)
         /\ conn[c].st = "completed" => c \notin live \/ ~Active(c)
<1>1. conn \in [Conn -> Worker]
  BY Types DEF TypeOK
<1>2. \A p \in {"none", "request", "body", "fallback", "help", "sleep", "exit"} :
              /\ At(c, p) \in Worker /\ At(c, p).pc = p /\ At(c, p).st = conn[c].st
              /\ At(c, p).retry = conn[c].retry /\ At(c, p).err = conn[c].err
              /\ At(c, p).total = conn[c].total /\ At(c, p).failed = conn[c].failed
  BY <1>1 DEF Worker, At
<1>3. /\ conn[c].retry < 3 \/ ~Active(c)
      /\ conn[c].st = "completed" => c \notin live \/ ~Active(c)
  BY DEF IInv, FInv, WorkersAreSound
<1> QED BY <1>1, <1>2, <1>3

LEMMA GoesOnOutcome ==
  ASSUME IInv, NEW c \in Conn,
         \/ Cancelled(c) \/ NothingLeft(c) \/ WakeUp(c) \/ (\E n \in 1 .. Buf : Claim(c, n))
         \/ Put(c)
  PROVE  (\E w : Outcome(c, w)) /\ OthersKept(c)
<1>1. Active(c) /\ c \in live /\ conn[c].st # "completed" /\ conn[c].retry < 3
  BY WorkerIsActive DEF Work
<1>2. /\ flight[c] > 0 => conn[c].pc = "body"
      /\ conn[c].pc = "help" => remain(chunk[c]) = 0
      /\ conn[c].pc = "fallback" =>
           c = Primary /\ conn[c].err \in {"net", "counted", "forbidden", "terminal"}
      /\ 0 <= remain(chunk[c]) /\ remain(chunk[c]) \in Int
  BY <1>1, Types DEF IInv, FInv, WorkersAreSound, ChunksAreSound, remain, Chunk
<1>3. ASSUME NEW p \in {"request", "help", "exit"},
             conn' = [conn EXCEPT ![c] = [conn[c] EXCEPT !.pc = p]],
             chunk' = chunk, flight[c] = 0, flight' = flight,
             p = "exit" => cancelled, p = "help" => remain(chunk[c]) = 0
      PROVE  (\E w : Outcome(c, w)) /\ OthersKept(c)
  <2> DEFINE w == At(c, p)
  <2>1. /\ w \in Worker /\ w.pc = p /\ w.st = conn[c].st /\ w.retry = conn[c].retry
        /\ w.err = conn[c].err
    BY WorkerRecord
  <2> HIDE DEF w
  <2>2. conn' = [conn EXCEPT ![c] = w]
    BY <1>3 DEF w, At
  <2>3. Outcome(c, w)
    <3>1. w.pc # "none" /\ w.pc # "fallback" /\ w.retry < 3 /\ w.st # "completed"
      BY <1>1, <2>1
    <3>2. w.pc = "exit" => cancelled
      BY <1>3, <2>1
    <3>3. w.pc = "help" => remain(chunk'[c]) = 0
      BY <1>3, <2>1
    <3>4. flight'[c] > 0 => w.pc = "body"
      BY <1>3, <2>1
    <3>5. w.err = "forbidden" => conn[c].err = "forbidden"
      BY <2>1
    <3> QED BY <2>1, <2>2, <3>1, <3>2, <3>3, <3>4, <3>5 DEF Outcome
  <2> QED BY <1>3, <2>3 DEF OthersKept
<1>4. ASSUME conn' = conn, chunk' = chunk, conn[c].pc = "body",
             \A d \in Conn \ {c} : flight'[d] = flight[d]
      PROVE  (\E w : Outcome(c, w)) /\ OthersKept(c)
  <2>1. Outcome(c, conn[c])
    BY <1>1, <1>2, <1>4, WorkerRecord DEF Outcome, Active
  <2> QED BY <1>4, <2>1 DEF OthersKept
<1>5. CASE Cancelled(c)
  BY <1>3, <1>5 DEF Cancelled, Become
<1>6. CASE NothingLeft(c)
  <2>1. remain(chunk[c]) = 0
    BY <1>2, <1>6 DEF NothingLeft
  <2> QED BY <1>3, <1>6, <2>1 DEF NothingLeft, Become
<1>7. CASE WakeUp(c)
  <2>1. flight[c] = 0
    BY <1>2, <1>7, Types DEF WakeUp, ChunksAreSound
  <2> QED BY <1>3, <1>7, <2>1 DEF WakeUp, Become
<1>8. CASE \E n \in 1 .. Buf : Claim(c, n)
  BY <1>4, <1>8, Types DEF Claim, ChunksAreSound
<1>9. CASE Put(c)
  BY <1>2, <1>4, <1>9 DEF Put
<1> QED BY <1>5, <1>6, <1>7, <1>8, <1>9

\* A worker that fails.
LEMMA FailsOutcome ==
  ASSUME IInv, NEW c \in Conn, NEW kind \in Errors, Failed(c, kind), Active(c),
         flight' = [flight EXCEPT ![c] = 0], chunk' = chunk,
         kind = "forbidden" => conn[c].err = "forbidden" \/ "forbidden" \in budget.kinds
  PROVE  (\E w : Outcome(c, w) /\ w.total = conn[c].total /\ w.st = "failed"
                 /\ w.pc \in {"sleep", "exit"} /\ (kind \in {"net", "exempt"} => w.pc = "sleep"))
         /\ OthersKept(c)
<1>1. conn[c].retry < 3
  BY WorkerRecord
<1>2. PICK w \in Worker :
        /\ conn' = [conn EXCEPT ![c] = w]
        /\ w.st = "failed" /\ w.err = kind /\ w.total = conn[c].total
        /\ w.pc \in {"sleep", "exit"}
        /\ w.pc = "exit" => w.failed
        /\ w.pc = "sleep" => w.retry < 3
        /\ kind \in {"net", "exempt"} => w.pc = "sleep"
  BY <1>1, Types, FailedEffect
<1>3. flight'[c] = 0 /\ \A d \in Conn \ {c} : flight'[d] = flight[d]
  BY Types DEF ChunksAreSound
<1>4. Outcome(c, w)
  BY <1>2, <1>3 DEF Outcome
<1>5. OthersKept(c)
  BY <1>3 DEF OthersKept
<1> QED BY <1>2, <1>4, <1>5

\* A fetch with an error of its own, or one that gives up the fallback.
LEMMA FailingOutcome ==
  ASSUME IInv, NEW c \in Conn,
         \/ FallbackFails(c) \/ FallbackCancelled(c) \/ BodyBreaks(c)
         \/ (\E k \in 0 .. Buf : PutFails(c, k))
  PROVE  /\ \E w : Outcome(c, w) /\ w.total = conn[c].total /\ w.st = "failed"
                   /\ w.pc \in {"sleep", "exit"}
         /\ OthersKept(c) /\ chunk' = chunk /\ flight' = [flight EXCEPT ![c] = 0]
         /\ ss' \in {ss, onConnectFailed(ss)}
         /\ conn[c].pc # "fallback" => ss' = ss
<1>1. /\ Active(c) /\ conn[c].retry < 3 /\ TypeOK
      /\ flight \in [Conn -> 0 .. Buf]
  BY WorkerIsActive, Types DEF Work, Fails, ChunksAreSound
<1>2. conn[c].pc # "body" => flight[c] = 0
  BY <1>1 DEF IInv, FInv, WorkersAreSound
<1>3. CASE FallbackFails(c) \/ FallbackCancelled(c)
  <2>1. /\ conn[c].pc = "fallback" /\ Failed(c, conn[c].err)
        /\ UNCHANGED <<chunk, flight>>
    BY <1>3 DEF FallbackFails, FallbackCancelled
  <2>2. conn[c].err \in Errors /\ flight' = [flight EXCEPT ![c] = 0]
    BY <1>1, <1>2, <2>1 DEF IInv, FInv, WorkersAreSound, Errors
  <2>3. ss' \in {ss, onConnectFailed(ss)}
    BY <1>1, <2>1, <2>2, FailedEffect
  <2> QED BY <1>1, <2>1, <2>2, <2>3, FailsOutcome
<1>4. CASE BodyBreaks(c) \/ \E k \in 0 .. Buf : PutFails(c, k)
  <2>1. /\ Failed(c, "net") /\ chunk' = chunk /\ flight' = [flight EXCEPT ![c] = 0]
        /\ conn[c].pc = "body"
    BY <1>1, <1>2, <1>4 DEF BodyBreaks, PutFails
  <2>2. "net" \in Errors
    BY DEF Errors
  <2>3. ss' = ss
    BY <1>1, <2>1, <2>2, FailedEffect
  <2> QED BY <1>1, <2>1, <2>2, <2>3, FailsOutcome
<1> QED BY <1>3, <1>4

\* The request of a worker fails: it fails, or the primary asks for the fallback.
LEMMA RequestFailsOutcome ==
  ASSUME IInv, NEW c \in Conn, NEW kind \in FaultKind, RequestFails(c, kind)
  PROVE  /\ \E w : /\ Outcome(c, w) /\ w.total = conn[c].total
                   /\ w.st = conn[c].st \/ w.st = "failed"
                   /\ \/ w.pc \in {"sleep", "exit"} /\ fallback' = fallback
                      \/ w.pc = "fallback" /\ c = Primary /\ fallback /\ ~fallback'
                         /\ ss' = ss /\ kind # "exempt"
                   /\ c = Primary /\ fallback /\ fallback' => w.pc = "sleep" /\ ss' = ss
         /\ OthersKept(c) /\ UNCHANGED <<chunk, flight>>
         /\ ss' \in {ss, onConnectFailed(ss)}
         /\ fallback' \in BOOLEAN
<1>1. /\ Active(c) /\ conn[c].retry < 3 /\ TypeOK /\ conn[c].st # "completed"
      /\ flight \in [Conn -> 0 .. Buf]
  BY WorkerIsActive, Types DEF Fails, ChunksAreSound
<1>2. /\ flight[c] = 0 /\ UNCHANGED <<chunk, flight>> /\ kind \in budget.kinds
      /\ kind \in Errors /\ conn[c].pc = "request"
  BY <1>1 DEF RequestFails, Fault, IInv, FInv, WorkersAreSound, Errors
<1>3. flight' = [flight EXCEPT ![c] = 0]
  BY <1>1, <1>2
<1> DEFINE Result(w) == /\ Outcome(c, w) /\ w.total = conn[c].total
                        /\ w.st = conn[c].st \/ w.st = "failed"
                        /\ \/ w.pc \in {"sleep", "exit"} /\ fallback' = fallback
                           \/ w.pc = "fallback" /\ c = Primary /\ fallback /\ ~fallback'
                              /\ ss' = ss /\ kind # "exempt"
                        /\ c = Primary /\ fallback /\ fallback' => w.pc = "sleep" /\ ss' = ss
<1>4. CASE kind # "exempt" /\ c = Primary /\ fallback
  <2> DEFINE w == [conn[c] EXCEPT !.pc = "fallback", !.err = kind]
  <2>1. conn' = [conn EXCEPT ![c] = w] /\ ss' = ss /\ ~fallback' /\ fallback' \in BOOLEAN
    BY <1>4 DEF RequestFails, Become
  <2>2. /\ w \in Worker /\ w.pc = "fallback" /\ w.err = kind /\ w.st = conn[c].st
        /\ w.retry = conn[c].retry /\ w.total = conn[c].total
    <3>1. conn[c] \in Worker
      BY WorkerRecord
    <3> QED BY <1>2, <3>1 DEF Worker, Errors
  <2>3. kind \in {"net", "counted", "forbidden", "terminal"}
    BY <1>2, <1>4 DEF Errors
  <2> HIDE DEF w
  <2>4. Outcome(c, w)
    BY <1>1, <1>2, <1>4, <2>1, <2>2, <2>3 DEF Outcome
  <2>5. OthersKept(c)
    BY <1>2 DEF OthersKept
  <2>6. Result(w)
    BY <1>4, <2>1, <2>2, <2>4
  <2> HIDE DEF Result
  <2>7. \E x : Result(x)
    BY <2>6
  <2> USE DEF Result
  <2> QED BY <1>2, <2>1, <2>5, <2>7
<1>5. CASE ~(kind # "exempt" /\ c = Primary /\ fallback)
  <2>1. Failed(c, kind) /\ fallback' = fallback
    BY <1>5 DEF RequestFails
  <2>2. ss' \in {ss, onConnectFailed(ss)} /\ (kind \in {"net", "exempt"} => ss' = ss)
    BY <1>1, <1>2, <2>1, FailedEffect
  <2>3. fallback \in BOOLEAN
    BY <1>1 DEF TypeOK
  <2>4. /\ \E w : /\ Outcome(c, w) /\ w.total = conn[c].total /\ w.st = "failed"
                  /\ w.pc \in {"sleep", "exit"}
                  /\ kind \in {"net", "exempt"} => w.pc = "sleep"
        /\ OthersKept(c)
    BY <1>1, <1>2, <1>3, <2>1, FailsOutcome, ZenonT(60)
  <2> QED BY <1>2, <1>5, <2>1, <2>2, <2>3, <2>4
<1> QED BY <1>4, <1>5

\* The first answer of the primary, or another answer.
LEMMA ResponseOutcome ==
  ASSUME IInv, NEW c \in Conn, ResponseOk(c)
  PROVE  /\ \E w : /\ Outcome(c, w) /\ w.pc = "body"
                   /\ w.total = IF c = Primary /\ fallback THEN pre ELSE conn[c].total
         /\ OthersKept(c)
         /\ ss' = onConnectSuccess(ss)
<1>1. /\ Active(c) /\ conn[c].retry < 3 /\ TypeOK /\ conn[c].st # "completed"
      /\ flight' = flight
  BY WorkerIsActive, Types DEF Work, ResponseOk
<1>2. conn[c] \in Worker /\ pre \in Nat /\ conn[c].total \in Nat /\ conn[c].pc = "request"
  BY <1>1, WorkerRecord DEF TypeOK, Worker, ResponseOk
<1> DEFINE n == IF c = Primary /\ fallback THEN pre ELSE conn[c].total
           ready == [conn[c] EXCEPT !.pc = "body", !.st = "downloading", !.failed = FALSE]
           w == [ready EXCEPT !.total = n]
<1>3. /\ ready \in Worker /\ ready.total = conn[c].total /\ ready.pc = "body"
      /\ ready.st = "downloading" /\ ready.retry = conn[c].retry /\ ready.err = conn[c].err
  BY <1>2 DEF Worker
<1>4. conn' = [conn EXCEPT ![c] = IF c = Primary /\ fallback THEN [ready EXCEPT !.total = pre]
                                                             ELSE ready]
  BY DEF ResponseOk, Become, TakenOver
<1>5. /\ w \in Worker /\ w.total = n /\ w.pc = "body"
      /\ w.st = "downloading" /\ w.retry = conn[c].retry /\ w.err = conn[c].err
  <2> HIDE DEF ready
  <2> QED BY <1>2, <1>3 DEF Worker
<1>6. conn' = [conn EXCEPT ![c] = w]
  <2>1. ready = [ready EXCEPT !.total = conn[c].total]
    <3> HIDE DEF ready
    <3> QED BY <1>3 DEF Worker
  <2> HIDE DEF ready
  <2> QED BY <1>4, <2>1
<1>7. \A d \in live \ {c} : chunk'[d] = chunk[d]
  BY Types DEF ResponseOk, ChunksAreSound
<1> HIDE DEF w
<1>8. Outcome(c, w)
  BY <1>1, <1>5, <1>6 DEF Outcome
<1>9. OthersKept(c)
  BY <1>1, <1>7 DEF OthersKept
<1> QED BY <1>5, <1>8, <1>9 DEF ResponseOk

-----------------------------------------------------------------------------
(* Sums over connections.                                                  *)

\* The elements that stand for f[c].
Tokens(c, f) == {c} \X (1 .. f[c])

LEMMA TokensOfOne ==
  ASSUME NEW c, NEW f, f[c] \in Nat
  PROVE  IsFiniteSet(Tokens(c, f)) /\ Cardinality(Tokens(c, f)) = f[c]
<1>1. IsFiniteSet(1 .. f[c]) /\ Cardinality(1 .. f[c]) = f[c]
  BY FS_Interval
<1>2. IsFiniteSet({c}) /\ Cardinality({c}) = 1
  BY FS_Singleton
<1> DEFINE I == 1 .. f[c]
           J == {c}
<1>3. IsFiniteSet(J \X I) /\ Cardinality(J \X I) = Cardinality(J) * Cardinality(I)
  <2> HIDE DEF I, J
  <2>1. IsFiniteSet(I) /\ IsFiniteSet(J)
    BY <1>1, <1>2 DEF I, J
  <2> QED BY ONLY <2>1, FS_Product
<1>4. Cardinality(J) * Cardinality(I) = f[c]
  BY <1>1, <1>2
<1> QED BY <1>3, <1>4 DEF Tokens

LEMMA FiniteTokens ==
  ASSUME NEW S, IsFiniteSet(S), NEW f, \A c \in S : f[c] \in Nat
  PROVE  IsFiniteSet(UNION {Tokens(c, f) : c \in S})
<1> DEFINE T == {Tokens(c, f) : c \in S}
           g == [c \in S |-> Tokens(c, f)]
<1>1. g \in Surjection(S, T)
  <2> HIDE DEF g
  <2>1. g = [c \in S |-> Tokens(c, f)]
    BY DEF g
  <2>2. g \in [S -> T] /\ \A t \in T : \E c \in S : g[c] = t
    BY <2>1
  <2> QED BY <2>2 DEF Surjection
<1>2. IsFiniteSet(T)
  BY <1>1, FS_Surjection
<1>3. \A t \in T : IsFiniteSet(t)
  BY TokensOfOne
<1> QED BY <1>2, <1>3, FS_UNION

\* A sum is one of its terms and the sum of the others.
LEMMA SumSplit ==
  ASSUME NEW S, IsFiniteSet(S), NEW f, \A d \in S : f[d] \in Nat, NEW c \in S
  PROVE  /\ Sum(S, f) \in Nat /\ Sum(S \ {c}, f) \in Nat
         /\ Sum(S, f) = Sum(S \ {c}, f) + f[c]
<1> DEFINE R == S \ {c}
           A == UNION {Tokens(d, f) : d \in R}
           B == Tokens(c, f)
<1>1. IsFiniteSet(R)
  BY FS_RemoveElement
<1>2. IsFiniteSet(A) /\ IsFiniteSet(B) /\ Cardinality(B) = f[c]
  BY <1>1, FiniteTokens, TokensOfOne
<1>3. A \cap B = {}
  BY DEF Tokens
<1>4. A \cup B = UNION {Tokens(d, f) : d \in S}
  OBVIOUS
<1>5. Sum(S, f) = Cardinality(A \cup B) /\ Sum(R, f) = Cardinality(A)
  BY <1>4 DEF Sum, Tokens
<1> HIDE DEF A, B
<1>6. Cardinality(A \cup B) = Cardinality(A) + Cardinality(B) /\ Cardinality(A) \in Nat
  <2>1. Cardinality(A \cap B) = 0
    BY <1>3, FS_EmptySet
  <2>2. Cardinality(A \cup B) = Cardinality(A) + Cardinality(B) - Cardinality(A \cap B)
    BY <1>2, FS_Union
  <2> QED BY <1>2, <2>1, <2>2, FS_CardinalityType
<1> QED BY <1>2, <1>5, <1>6

LEMMA SumSame ==
  ASSUME NEW S, NEW f, NEW g, \A c \in S : f[c] = g[c]
  PROVE  Sum(S, f) = Sum(S, g)
  BY DEF Sum

LEMMA SumZero ==
  ASSUME NEW S, IsFiniteSet(S), NEW f, \A d \in S : f[d] \in Nat
  PROVE  /\ Sum(S, f) \in Nat
         /\ Sum(S, f) = 0 <=> \A c \in S : f[c] = 0
<1>1. CASE S = {}
  <2>1. UNION {{c} \X (1 .. f[c]) : c \in S} = {}
    BY <1>1
  <2>2. Sum(S, f) = 0
    BY <2>1, FS_EmptySet DEF Sum
  <2> QED BY <1>1, <2>2
<1>2. CASE S # {}
  <2>1. Sum(S, f) \in Nat
    BY <1>2, SumSplit
  <2>2. ASSUME Sum(S, f) = 0, NEW c \in S PROVE f[c] = 0
    <3>1. Sum(S \ {c}, f) \in Nat /\ Sum(S, f) = Sum(S \ {c}, f) + f[c]
      BY SumSplit
    <3> QED BY <2>2, <3>1
  <2>3. ASSUME \A c \in S : f[c] = 0 PROVE Sum(S, f) = 0
    <3>1. UNION {{c} \X (1 .. f[c]) : c \in S} = {}
      BY <2>3
    <3> QED BY <3>1, FS_EmptySet DEF Sum
  <2> QED BY <2>1, <2>2, <2>3
<1> QED BY <1>1, <1>2

\* One term changes.
LEMMA SumChanges ==
  ASSUME NEW S, IsFiniteSet(S), NEW f, NEW g, NEW x \in S,
         \A d \in S : f[d] \in Nat, g[x] \in Nat, \A d \in S \ {x} : g[d] = f[d]
  PROVE  /\ Sum(S, f) \in Nat /\ Sum(S, g) \in Nat
         /\ Sum(S, g) = Sum(S, f) - f[x] + g[x]
<1>1. \A d \in S : g[d] \in Nat
  OBVIOUS
<1>2. /\ Sum(S, f) \in Nat /\ Sum(S \ {x}, f) \in Nat
      /\ Sum(S, f) = Sum(S \ {x}, f) + f[x]
  BY SumSplit
<1>3. /\ Sum(S, g) \in Nat /\ Sum(S \ {x}, g) \in Nat
      /\ Sum(S, g) = Sum(S \ {x}, g) + g[x]
  BY <1>1, SumSplit
<1>4. Sum(S \ {x}, f) = Sum(S \ {x}, g)
  BY SumSame
<1> QED BY <1>2, <1>3, <1>4

LEMMA SumOfOne ==
  ASSUME NEW c, NEW f, f[c] \in Nat
  PROVE  Sum({c}, f) = f[c]
<1>1. IsFiniteSet({c}) /\ IsFiniteSet({c} \ {c})
  BY FS_Singleton, FS_RemoveElement
<1>2. Sum({c} \ {c}, f) = 0
  BY <1>1, SumZero
<1> QED BY <1>1, <1>2, SumSplit

-----------------------------------------------------------------------------
(* The other steps of workers.                                             *)

LEMMA CountOutcome ==
  ASSUME IInv, NEW c \in Conn, Count(c)
  PROVE  /\ \E w : Outcome(c, w) /\ w.total = conn[c].total + flight[c]
         /\ OthersKept(c)
         /\ chunk'[c] = [chunk[c] EXCEPT !.dl = @ + flight[c]]
         /\ \A d \in Conn \ {c} : chunk'[d] = chunk[d]
<1>1. /\ Active(c) /\ conn[c].retry < 3 /\ TypeOK /\ conn[c].st # "completed"
      /\ chunk' = [chunk EXCEPT ![c] = [chunk[c] EXCEPT !.dl = @ + flight[c]]]
      /\ flight' = [flight EXCEPT ![c] = 0]
      /\ conn' = [conn EXCEPT ![c] = [conn[c] EXCEPT !.total = @ + flight[c]]]
  BY WorkerIsActive DEF Work, Count, Become, IInv, FInv
<1>2. conn[c] \in Worker /\ flight[c] \in Nat /\ conn[c].total \in Nat /\ flight[c] > 0
  BY <1>1, WorkerRecord, Types DEF Worker, ChunksAreSound, Count
<1>3. conn[c].pc = "body"
  BY <1>2 DEF IInv, FInv, WorkersAreSound
<1> DEFINE n == conn[c].total + flight[c]
           w == [conn[c] EXCEPT !.total = n]
<1>4. n \in Nat
  BY <1>2
<1>5. /\ w \in Worker /\ w.total = n /\ w.pc = "body" /\ w.st = conn[c].st
      /\ w.retry = conn[c].retry /\ w.err = conn[c].err
  <2> HIDE DEF n
  <2> QED BY <1>2, <1>3, <1>4 DEF Worker
<1>6. conn' = [conn EXCEPT ![c] = w]
  BY <1>1, <1>2 DEF Worker
<1>7. /\ flight'[c] = 0 /\ \A d \in Conn \ {c} : flight'[d] = flight[d]
      /\ \A d \in Conn \ {c} : chunk'[d] = chunk[d]
      /\ chunk'[c] = [chunk[c] EXCEPT !.dl = @ + flight[c]]
      /\ live \subseteq Conn
  BY <1>1, Types DEF ChunksAreSound
<1> HIDE DEF w
<1>8. Outcome(c, w)
  BY <1>1, <1>5, <1>6, <1>7 DEF Outcome
<1>9. OthersKept(c)
  BY <1>7 DEF OthersKept
<1> QED BY <1>5, <1>7, <1>8, <1>9

\* What a steal does to the chunks: what is left is divided.
LEMMA StealEffect ==
  ASSUME IInv, NEW c \in Conn, NEW v \in Conn, Helps(c, v)
  PROVE  /\ c \in live /\ v \in live /\ c # v
         /\ remain(chunk[c]) = 0 /\ remain(chunk[v]) > 0 /\ flight[c] = 0
         /\ \A d \in Conn \ {c, v} : chunk'[d] = chunk[d]
         /\ remain(chunk'[c]) \in Int /\ remain(chunk'[v]) \in Int
         /\ remain(chunk'[c]) + remain(chunk'[v]) = remain(chunk[v])
<1>1. /\ Active(c) /\ c \in live /\ v \in live /\ c # v /\ conn[c].pc = "help"
      /\ chunk' = StealChunks(chunk, c, v)
      /\ remain(chunk[v]) >= MinSteal
  BY WorkerIsActive DEF Work, Helps
<1>2. remain(chunk[c]) = 0 /\ flight[c] = 0
  BY <1>1, Types DEF IInv, FInv, WorkersAreSound, ChunksAreSound
<1>3. chunk \in [Conn -> Chunk] /\ chunk[v] \in Chunk
  BY Types DEF ChunksAreSound
<1> DEFINE e == chunk[v].end
           b == e - remain(chunk[v]) \div 2
<1>4. e \in Int /\ b \in Int /\ remain(chunk[v]) \in Int /\ remain(chunk[v]) > 0
  BY <1>1, <1>3 DEF remain, Chunk
<1>5. chunk' = [chunk EXCEPT ![v].end = b - 1, ![c] = NewChunk(b, e)]
  BY <1>1 DEF StealChunks
<1>6. /\ chunk'[v] = [chunk[v] EXCEPT !.end = b - 1]
      /\ chunk'[c] = NewChunk(b, e)
      /\ \A d \in Conn \ {c, v} : chunk'[d] = chunk[d]
  <2> HIDE DEF b, e
  <2> QED BY <1>1, <1>3, <1>5
<1>7. /\ remain(chunk'[v]) = b - chunk[v].begin - chunk[v].dl
      /\ remain(chunk'[c]) = e - b + 1
  <2> HIDE DEF b, e
  <2>1. /\ chunk'[v].end = b - 1 /\ chunk'[v].begin = chunk[v].begin
        /\ chunk'[v].dl = chunk[v].dl
        /\ chunk'[c].begin = b /\ chunk'[c].end = e /\ chunk'[c].dl = 0
    BY <1>3, <1>6 DEF Chunk, NewChunk
  <2>2. chunk[v].begin \in Nat /\ chunk[v].dl \in Nat
    BY <1>3 DEF Chunk
  <2> QED BY <1>4, <2>1, <2>2 DEF remain
<1>8. chunk[v].begin \in Nat /\ chunk[v].dl \in Nat
      /\ remain(chunk[v]) = e - chunk[v].begin + 1 - chunk[v].dl
  BY <1>3 DEF Chunk, remain
<1> HIDE DEF b, e
<1> QED BY <1>1, <1>2, <1>4, <1>6, <1>7, <1>8

LEMMA HelpsOutcome ==
  ASSUME IInv, NEW c \in Conn, NEW v \in Conn, Helps(c, v)
  PROVE  (\E w : Outcome(c, w) /\ w.total = conn[c].total) /\ OthersKept(c)
<1>1. /\ TypeOK /\ conn[c].st # "completed" /\ flight' = flight
      /\ conn' = [conn EXCEPT ![c] = [conn[c] EXCEPT !.pc = "request", !.retry = 0]]
      /\ conn[v].st # "completed"
  BY WorkerIsActive DEF Work, Helps, Become, IInv, FInv
<1>2. conn[c] \in Worker
  BY WorkerRecord
<1> DEFINE w == [conn[c] EXCEPT !.pc = "request", !.retry = 0]
<1>3. /\ w \in Worker /\ w.total = conn[c].total /\ w.pc = "request" /\ w.st = conn[c].st
      /\ w.retry = 0 /\ w.err = conn[c].err
  <2>1. 0 \in 0 .. 3
    OBVIOUS
  <2> QED BY <1>2, <2>1 DEF Worker
<1> HIDE DEF w
<1>4. Outcome(c, w)
  <2>1. flight'[c] = 0
    BY <1>1, StealEffect
  <2>2. conn' = [conn EXCEPT ![c] = w]
    BY <1>1 DEF w
  <2>3. w.st # "completed" /\ w.pc \notin {"none", "exit", "fallback", "help"} /\ w.retry < 3
    BY <1>1, <1>3
  <2>4. ~(flight'[c] > 0)
    BY <2>1
  <2> QED BY <1>3, <2>2, <2>3, <2>4 DEF Outcome
<1>5. OthersKept(c)
  <2>1. ASSUME NEW d \in live \ {c}, conn[d].pc = "help" \/ conn[d].st = "completed"
        PROVE  chunk'[d] = chunk[d]
    <3>1. d # v
      BY <1>1, <2>1, StealEffect DEF IInv, FInv, WorkersAreSound
    <3> QED BY <3>1, Types, StealEffect DEF ChunksAreSound
  <2> QED BY <1>1, <2>1 DEF OthersKept
<1> QED BY <1>3, <1>4, <1>5

LEMMA CompletesOutcome ==
  ASSUME IInv, NEW c \in Conn, Completes(c)
  PROVE  (\E w : Outcome(c, w) /\ w.total = conn[c].total) /\ OthersKept(c)
<1>1. /\ Active(c) /\ c \in live /\ TypeOK /\ UNCHANGED <<chunk, flight>>
      /\ conn' = [conn EXCEPT ![c] = [conn[c] EXCEPT !.pc = "exit", !.st = "completed"]]
      /\ conn[c].pc = "help"
  BY WorkerIsActive DEF Work, Completes, Become, IInv, FInv
<1>2. /\ conn[c] \in Worker /\ remain(chunk[c]) = 0 /\ flight[c] = 0
  BY <1>1, WorkerRecord, Types DEF IInv, FInv, WorkersAreSound, ChunksAreSound
<1> DEFINE w == [conn[c] EXCEPT !.pc = "exit", !.st = "completed"]
<1>3. /\ w \in Worker /\ w.total = conn[c].total /\ w.pc = "exit" /\ w.st = "completed"
      /\ w.err = conn[c].err
  BY <1>2 DEF Worker
<1> HIDE DEF w
<1>4. conn' = [conn EXCEPT ![c] = w]
  BY <1>1 DEF w
<1>5. Outcome(c, w)
  <2>1. remain(chunk'[c]) = 0 /\ ~(flight'[c] > 0)
    BY <1>1, <1>2
  <2> QED BY <1>3, <1>4, <2>1 DEF Outcome
<1> QED BY <1>1, <1>3, <1>5 DEF OthersKept

\* The primary that takes the fallback is the whole download.
LEMMA FallbackOutcome ==
  ASSUME IInv, NEW c \in Conn, FallbackCompletes(c)
  PROVE  /\ \E w : Outcome(c, w) /\ w.total = Size /\ w.st = "completed"
         /\ OthersKept(c) /\ c = Primary /\ live = {Primary}
         /\ remain(chunk'[Primary]) = 0
<1>1. /\ Active(c) /\ c \in live /\ TypeOK /\ flight' = flight /\ conn[c].pc = "fallback"
      /\ pre = Size
      /\ conn' = [conn EXCEPT ![c] = [conn[c] EXCEPT !.pc = "exit", !.st = "completed",
                                        !.failed = FALSE, !.err = "none", !.total = pre]]
      /\ chunk' = [chunk EXCEPT ![c] = [begin |-> 0, end |-> pre - 1, dl |-> pre]]
  BY WorkerIsActive DEF Work, FallbackCompletes, Become, IInv, FInv
<1>2. /\ conn[c] \in Worker /\ flight[c] = 0 /\ c = Primary
      /\ live = {Primary}
  <2>1. c = Primary /\ flight[c] = 0
    BY <1>1, Types DEF IInv, FInv, WorkersAreSound, ChunksAreSound
  <2>2. PrimaryWaits
    BY <1>1, <2>1, HeldFacts DEF Held
  <2> QED BY <2>1, <2>2, WorkerRecord DEF PrimaryWaits
<1>3. remain(chunk'[c]) = 0
  BY <1>1, Types DEF ChunksAreSound, remain
<1> DEFINE w == [conn[c] EXCEPT !.pc = "exit", !.st = "completed", !.failed = FALSE,
                                !.err = "none", !.total = pre]
<1>4. /\ w \in Worker /\ w.total = Size /\ w.pc = "exit" /\ w.st = "completed"
      /\ w.err = "none"
  BY <1>1, <1>2 DEF Worker
<1> HIDE DEF w
<1>5. conn' = [conn EXCEPT ![c] = w]
  BY <1>1 DEF w
<1>6. Outcome(c, w)
  <2>1. ~(flight'[c] > 0)
    BY <1>1, <1>2
  <2> QED BY <1>3, <1>4, <1>5, <2>1 DEF Outcome
<1>7. OthersKept(c)
  BY <1>1, <1>2 DEF OthersKept
<1> QED BY <1>2, <1>3, <1>4, <1>6, <1>7

\* Whatever a worker does, it ends as a worker may, touches no other and launches none.
LEMMA WorkerEffect ==
  ASSUME IInv, NEW c \in Conn, Work(c) \/ Fails(c)
  PROVE  /\ (\E w : Outcome(c, w)) /\ OthersKept(c)
         /\ ss' \in SlowStart /\ ss'.launched = ss.launched
<1>1. ss \in SlowStart
  BY Types DEF TypeOK, SlowStart
<1>2. CASE \/ Cancelled(c) \/ NothingLeft(c) \/ WakeUp(c) \/ (\E n \in 1 .. Buf : Claim(c, n))
           \/ Put(c)
  <2>1. ss' = ss
    BY <1>2 DEF Cancelled, NothingLeft, WakeUp, Claim, Put
  <2> QED BY <1>1, <1>2, <2>1, GoesOnOutcome
<1>3. CASE \/ FallbackFails(c) \/ FallbackCancelled(c) \/ BodyBreaks(c)
           \/ (\E k \in 0 .. Buf : PutFails(c, k))
  <2>1. (\E w : Outcome(c, w)) /\ OthersKept(c) /\ ss' \in {ss, onConnectFailed(ss)}
    BY <1>3, FailingOutcome
  <2> QED BY <1>1, <2>1, SlowStartTypes
<1>4. CASE \E kind \in FaultKind : RequestFails(c, kind)
  <2>1. (\E w : Outcome(c, w)) /\ OthersKept(c) /\ ss' \in {ss, onConnectFailed(ss)}
    BY <1>4, RequestFailsOutcome
  <2> QED BY <1>1, <2>1, SlowStartTypes
<1>5. CASE ResponseOk(c)
  <2>1. (\E w : Outcome(c, w)) /\ OthersKept(c) /\ ss' = onConnectSuccess(ss)
    BY <1>5, ResponseOutcome
  <2> QED BY <1>1, <2>1, SlowStartTypes
<1>6. CASE FallbackCompletes(c)
  <2>1. ss' = [ss EXCEPT !.signal = TRUE]
    BY <1>6 DEF FallbackCompletes
  <2>2. ss'.launched = ss.launched
    BY <1>1, <2>1 DEF SlowStart
  <2> QED BY <1>1, <1>6, <2>1, <2>2, SlowStartTypes, FallbackOutcome
<1>7. CASE Count(c) \/ (\E v \in Conn : Helps(c, v)) \/ Completes(c)
  <2>1. ss' = ss
    BY <1>7 DEF Count, Helps, Completes
  <2> QED BY <1>1, <1>7, <2>1, CountOutcome, HelpsOutcome, CompletesOutcome
<1> QED
  BY <1>2, <1>3, <1>4, <1>5, <1>6, <1>7 DEF Work, Fails

-----------------------------------------------------------------------------
(* The steps, by what they can disturb.                                    *)

\* The steps of the prefetch, of waiting and of the loop that touch no connection.
Control ==
  \/ PrefetchRead \/ PrefetchEnds \/ LoopAlreadyDone \/ LoopExpands \/ LoopCancelled
  \/ LoopUnlocks \/ LoopCompletes \/ WaitReturns \/ PauseBegins \/ UNCHANGED vars

LEMMA ControlKeeps ==
  Control => UNCHANGED <<live, batch, conn, chunk, flight, put, written, fallback, dataPos,
                         range, saved>>
<1>1. ASSUME \/ PrefetchRead \/ PrefetchEnds \/ LoopAlreadyDone \/ LoopExpands
             \/ LoopCancelled \/ LoopUnlocks
      PROVE  UNCHANGED <<live, batch, conn, chunk, flight, put, written, fallback, dataPos,
                         range, saved>>
  BY <1>1 DEF PrefetchRead, PrefetchEnds, LoopAlreadyDone, LoopExpands, LoopCancelled,
              LoopUnlocks, loopVars, preVars
<1>2. ASSUME LoopCompletes \/ WaitReturns \/ PauseBegins \/ UNCHANGED vars
      PROVE  UNCHANGED <<live, batch, conn, chunk, flight, put, written, fallback, dataPos,
                         range, saved>>
  BY <1>2 DEF LoopCompletes, WaitReturns, PauseBegins, vars, loopVars, preVars
<1> QED BY <1>1, <1>2 DEF Control

LEMMA StepCases ==
  [Next]_vars =>
    \/ Control \/ Start \/ LoopOpens \/ LoopResumes \/ LoopSplits \/ LoopLaunches
    \/ PauseEnds \/ Save \/ Restart
    \/ \E c \in Conn : Work(c) \/ Fails(c)
  BY DEF Next, Loop, Control

\* When the loop rests or is about to start, nobody works and nothing is in flight.
LEMMA NobodyWorks ==
  ASSUME IInv, WorkersGone
  PROVE  \A c \in Conn : ~Active(c) /\ flight[c] = 0
<1>1. \A c \in Conn : ~Active(c)
  BY DEF WorkersGone, Active, IInv, FInv, WorkersAreSound
<1>2. \A c \in Conn : flight[c] \in Nat /\ (flight[c] > 0 => Active(c))
  BY Types DEF ChunksAreSound, Active, IInv, FInv, WorkersAreSound
<1> QED BY <1>1, <1>2

\* The environment's budget is only spent.
LEMMA BudgetStep ==
  ASSUME IInv, [Next]_vars
  PROVE  /\ budget \in Budget /\ budget' \in Budget
         /\ budget'.kinds = budget.kinds /\ budget'.prefix = budget.prefix
         /\ budget'.early = budget.early
         /\ budget'.pauses <= budget.pauses /\ budget'.restarts <= budget.restarts
<1>1. budget \in Budget
  BY Types DEF TypeOK
<1>2. \/ budget' = budget
      \/ budget.faults > 0 /\ budget' = [budget EXCEPT !.faults = @ - 1]
      \/ budget.pauses > 0 /\ budget' = [budget EXCEPT !.pauses = @ - 1]
      \/ budget.restarts > 0 /\ budget' = [budget EXCEPT !.restarts = @ - 1]
      \/ budget' = [budget EXCEPT !.help = "no"]
  <2>1. ASSUME Control
        PROVE  \/ budget' = budget
               \/ budget.faults > 0 /\ budget' = [budget EXCEPT !.faults = @ - 1]
               \/ budget.pauses > 0 /\ budget' = [budget EXCEPT !.pauses = @ - 1]
    BY <2>1 DEF Control, PrefetchRead, PrefetchEnds, LoopAlreadyDone, LoopExpands,
        LoopCancelled, LoopUnlocks, LoopCompletes, WaitReturns, PauseBegins, vars, Fault
  <2>2. ASSUME \/ Start \/ LoopOpens \/ LoopResumes \/ LoopSplits \/ LoopLaunches \/ PauseEnds
               \/ Save
        PROVE  budget' = budget
    BY <2>2 DEF Start, LoopOpens, LoopResumes, LoopSplits, LoopLaunches, PauseEnds, Save
  <2>3. ASSUME NEW c \in Conn, Work(c)
        PROVE  \/ budget' = budget
               \/ budget' = [budget EXCEPT !.help = "no"]
    BY <2>3 DEF Work, Cancelled, NothingLeft, ResponseOk, FallbackCompletes, FallbackFails,
        FallbackCancelled, WakeUp, Claim, Put, Count, Helps, Slow, Completes
  <2>4. ASSUME NEW c \in Conn, Fails(c)
        PROVE  budget.faults > 0 /\ budget' = [budget EXCEPT !.faults = @ - 1]
    BY <2>4 DEF Fails, RequestFails, PutFails, BodyBreaks, Fault
  <2> QED BY <2>1, <2>2, <2>3, <2>4, StepCases DEF Restart
<1>3. ASSUME NEW n \in Nat \ {0}
      PROVE  n - 1 \in Nat /\ n - 1 <= n
  OBVIOUS
<1>4. /\ budget.faults \in Nat /\ budget.pauses \in Nat /\ budget.restarts \in Nat
  BY <1>1 DEF Budget
<1>5. \A n \in Nat : /\ [budget EXCEPT !.faults = n] \in Budget
                     /\ [budget EXCEPT !.pauses = n] \in Budget
                     /\ [budget EXCEPT !.restarts = n] \in Budget
  BY <1>1 DEF Budget
<1>6. CASE budget' = budget
  BY <1>1, <1>4, <1>6
<1>7. CASE budget.faults > 0 /\ budget' = [budget EXCEPT !.faults = @ - 1]
  <2>1. budget' = [budget EXCEPT !.faults = budget.faults - 1] /\ budget.faults - 1 \in Nat
    BY <1>4, <1>7
  <2> QED BY <1>1, <1>4, <1>5, <2>1 DEF Budget
<1>8. CASE budget.pauses > 0 /\ budget' = [budget EXCEPT !.pauses = @ - 1]
  <2>1. budget' = [budget EXCEPT !.pauses = budget.pauses - 1] /\ budget.pauses - 1 \in Nat
    BY <1>4, <1>8
  <2> QED BY <1>1, <1>4, <1>5, <2>1 DEF Budget
<1>9. CASE budget.restarts > 0 /\ budget' = [budget EXCEPT !.restarts = @ - 1]
  <2>1. budget' = [budget EXCEPT !.restarts = budget.restarts - 1] /\ budget.restarts - 1 \in Nat
    BY <1>4, <1>9
  <2> QED BY <1>1, <1>4, <1>5, <2>1 DEF Budget
<1>10. CASE budget' = [budget EXCEPT !.help = "no"]
  <2>1. [budget EXCEPT !.help = "no"] \in Budget
    BY <1>1 DEF Budget
  <2> QED BY <1>1, <1>4, <1>10, <2>1 DEF Budget
<1> QED BY <1>2, <1>6, <1>7, <1>8, <1>9, <1>10

\* What a worker may do, for every worker.
LEMMA WorkerFrame ==
  ASSUME IInv, NEW c \in Conn, Work(c) \/ Fails(c)
  PROVE  /\ conn' \in [Conn -> Worker]
         /\ \A d \in Conn \ {c} : conn'[d] = conn[d]
         /\ Outcome(c, conn'[c])
         /\ c \in live \ batch /\ OthersKept(c)
         /\ UNCHANGED <<state, loop, toSplit, batch, live, doneCh, cancelled, saved>>
<1>1. PICK w : Outcome(c, w)
  BY WorkerEffect
<1>2. conn \in [Conn -> Worker]
  BY Types DEF TypeOK
<1>3. w \in Worker /\ conn' = [conn EXCEPT ![c] = w]
  BY <1>1 DEF Outcome
<1>4. conn'[c] = w
  BY <1>2, <1>3
<1> QED BY <1>1, <1>2, <1>3, <1>4, WorkerEffect, WorkerIsActive DEF loopVars

LEMMA LaunchedRecord ==
  ASSUME NEW w \in Worker
  PROVE  /\ Launched(w) \in Worker
         /\ Launched(w).pc = "request" /\ Launched(w).st = "connecting"
         /\ Launched(w).retry = 0 /\ Launched(w).total = w.total /\ Launched(w).err = w.err
<1>1. 0 \in 0 .. 3
  OBVIOUS
<1> QED BY <1>1 DEF Launched, Worker

Restored(n, s) == [NoWorker EXCEPT !.total = n, !.st = s]

LEMMA NewWorkers ==
  /\ NoWorker \in Worker /\ NoWorker.pc = "none" /\ NoWorker.st = "notStarted"
  /\ NoWorker.total = 0 /\ NoWorker.err = "none"
  /\ \A n \in Nat, s \in {"completed", "notStarted"} :
       /\ Restored(n, s) \in Worker /\ Restored(n, s).pc = "none" /\ Restored(n, s).st = s
       /\ Restored(n, s).total = n /\ Restored(n, s).err = "none"
  /\ \A n \in Nat :
       LET w == [NoWorker EXCEPT !.total = n]
       IN  w \in Worker /\ w.pc = "none" /\ w.total = n /\ w.err = "none"
<1>1. 0 \in 0 .. 3 /\ 0 \in Nat
  OBVIOUS
<1> QED BY <1>1 DEF NoWorker, Worker, Restored

\* What Start, the opening and the resumption of the download, a launch, the end of Pause
\* and a restart do to the workers.
LEMMA StartConns ==
  ASSUME IInv, Start
  PROVE  /\ conn' \in [Conn -> Worker]
         /\ \A c \in Conn :
              /\ conn'[c].pc = conn[c].pc /\ conn'[c].total = conn[c].total
              /\ \/ conn'[c] = conn[c]
                 \/ /\ conn[c].st # "completed" /\ conn'[c].st = "notStarted"
                    /\ conn'[c].err = "none"
<1>1. conn \in [Conn -> Worker]
  BY Types DEF TypeOK
<1>2. CASE state # "error"
  BY <1>1, <1>2 DEF Start
<1>3. CASE state = "error"
  <2> DEFINE r(c) == [conn[c] EXCEPT !.st = "notStarted", !.failed = FALSE,
                                     !.retry = 0, !.err = "none"]
  <2>1. conn' = [c \in Conn |-> IF c \notin live \/ conn[c].st = "completed" THEN conn[c]
                                ELSE r(c)]
    BY <1>3 DEF Start
  <2>2. \A c \in Conn : /\ r(c) \in Worker /\ r(c).pc = conn[c].pc /\ r(c).total = conn[c].total
                        /\ r(c).st = "notStarted" /\ r(c).err = "none"
    <3>1. 0 \in 0 .. 3
      OBVIOUS
    <3> QED BY <1>1, <3>1 DEF Worker
  <2> HIDE DEF r
  <2> QED BY <1>1, <2>1, <2>2
<1> QED BY <1>2, <1>3

LEMMA OpenConns ==
  ASSUME IInv, LoopOpens
  PROVE  /\ conn' \in [Conn -> Worker]
         /\ conn'[Primary].pc = "request" /\ conn'[Primary].st = "connecting"
         /\ conn'[Primary].retry = 0 /\ conn'[Primary].total = dataPos
         /\ conn'[Primary].err = "none"
         /\ \A c \in Conn \ {Primary} : conn'[c] = conn[c]
<1>1. conn \in [Conn -> Worker] /\ dataPos \in Nat /\ Primary \in Conn
  BY Types DEF TypeOK
<1> DEFINE n == [NoWorker EXCEPT !.total = dataPos]
           w == Launched(n)
<1>2. n \in Worker /\ n.total = dataPos /\ n.err = "none"
  BY <1>1, NewWorkers
<1>3. conn' = [conn EXCEPT ![Primary] = w]
  BY DEF LoopOpens
<1> HIDE DEF n
<1>4. /\ w \in Worker /\ w.pc = "request" /\ w.st = "connecting" /\ w.retry = 0
      /\ w.total = dataPos /\ w.err = "none"
  BY <1>2, LaunchedRecord
<1> HIDE DEF w
<1> QED BY <1>1, <1>3, <1>4

LEMMA LaunchConns ==
  ASSUME IInv, LoopResumes \/ LoopLaunches
  PROVE  /\ conn' \in [Conn -> Worker]
         /\ \A c \in Conn :
              /\ conn'[c].total = conn[c].total /\ conn'[c].err = conn[c].err
              /\ \/ conn'[c] = conn[c]
                 \/ /\ LoopResumes => c \in live /\ conn[c].st # "completed"
                    /\ LoopLaunches => c \in batch
                    /\ conn'[c].pc = "request" /\ conn'[c].st = "connecting"
                    /\ conn'[c].retry = 0
              /\ LoopLaunches /\ c \in batch => conn'[c].pc = "request"
              /\ LoopResumes => \/ conn'[c].pc = "request"
                                \/ c \notin live \/ conn'[c].st = "completed"
                                \/ conn'[c].st = "failed" /\ conn'[c].failed
<1>1. conn \in [Conn -> Worker]
  BY Types DEF TypeOK
<1>2. \A c \in Conn : /\ Launched(conn[c]) \in Worker
                      /\ Launched(conn[c]).pc = "request" /\ Launched(conn[c]).st = "connecting"
                      /\ Launched(conn[c]).retry = 0
                      /\ Launched(conn[c]).total = conn[c].total
                      /\ Launched(conn[c]).err = conn[c].err
  BY <1>1, LaunchedRecord
<1>3. loop = "start" /\ LoopResumes <=> LoopResumes
  BY DEF LoopResumes
<1>4. loop = "launch" /\ LoopLaunches <=> LoopLaunches
  BY DEF LoopLaunches
<1>5. CASE LoopResumes
  BY <1>1, <1>2, <1>3, <1>4, <1>5 DEF LoopResumes
<1>6. CASE LoopLaunches
  BY <1>1, <1>2, <1>3, <1>4, <1>6 DEF LoopLaunches
<1> QED BY <1>5, <1>6

LEMMA PauseConns ==
  ASSUME IInv, PauseEnds
  PROVE  /\ conn' \in [Conn -> Worker]
         /\ \A c \in Conn : /\ conn'[c].pc = conn[c].pc /\ conn'[c].st = conn[c].st
                            /\ conn'[c].err = conn[c].err
         /\ \A c \in live : conn[c].st = "completed" => chunk'[c] = chunk[c] /\ conn'[c] = conn[c]
         /\ \/ UNCHANGED <<chunk, conn>>
            \/ /\ live = {Primary} /\ conn'[Primary].total = pre
               /\ chunk'[Primary] = NewChunk(pre, Size - 1)
<1>1. conn \in [Conn -> Worker] /\ pre \in Nat /\ Primary \in Conn /\ chunk \in [Conn -> Chunk]
  BY Types DEF TypeOK, ChunksAreSound
<1>2. CASE range /\ pre > 0 /\ live = {Primary} /\ conn[Primary].st # "completed"
  <2> DEFINE w == [conn[Primary] EXCEPT !.total = pre]
  <2>1. /\ conn' = [conn EXCEPT ![Primary] = w]
        /\ chunk' = [chunk EXCEPT ![Primary] = NewChunk(pre, Size - 1)]
    BY <1>2 DEF PauseEnds, Become
  <2>2. /\ w \in Worker /\ w.pc = conn[Primary].pc /\ w.st = conn[Primary].st
        /\ w.err = conn[Primary].err /\ w.total = pre
    BY <1>1 DEF Worker
  <2> HIDE DEF w
  <2> QED BY <1>1, <1>2, <2>1, <2>2
<1>3. CASE ~(range /\ pre > 0 /\ live = {Primary} /\ conn[Primary].st # "completed")
  <2>1. UNCHANGED <<chunk, conn>>
    BY <1>3 DEF PauseEnds
  <2> QED BY <1>1, <2>1
<1> QED BY <1>2, <1>3

LEMMA RestartConns ==
  ASSUME IInv, Restart
  PROVE  /\ conn' \in [Conn -> Worker]
         /\ \A c \in Conn :
              /\ conn'[c].pc = "none" /\ conn'[c].total = saved.total[c]
              /\ conn'[c].err = "none"
              /\ conn'[c].st = "completed" <=> c \in saved.completed
<1>1. saved.total \in [Conn -> Nat]
  BY Types DEF TypeOK
<1> DEFINE s(c) == IF c \in saved.completed THEN "completed" ELSE "notStarted"
           r(c) == Restored(saved.total[c], s(c))
<1>2. conn' = [c \in Conn |-> r(c)]
  BY DEF Restart, Restored
<1>3. \A c \in Conn : /\ r(c) \in Worker /\ r(c).pc = "none" /\ r(c).st = s(c)
                      /\ r(c).total = saved.total[c] /\ r(c).err = "none"
  <2>1. \A c \in Conn : s(c) \in {"completed", "notStarted"} /\ saved.total[c] \in Nat
    BY <1>1
  <2> HIDE DEF s
  <2> QED BY <2>1, NewWorkers
<1> HIDE DEF r
<1> QED BY <1>2, <1>3

-----------------------------------------------------------------------------
(* Every part of the invariant is preserved.                               *)

LEMMA WorkersNext == ASSUME IInv, [Next]_vars PROVE WorkersAreSound'
<1>1. /\ WorkersAreSound /\ ConnsInOrder /\ TypeOK /\ ChunksAreSound
      /\ live \subseteq Conn /\ batch \subseteq live /\ saved.live \subseteq Conn
  BY Types DEF IInv, FInv, TypeOK, ChunksAreSound
<1>2. CASE Control
  <2>1. UNCHANGED <<live, batch, conn, chunk, flight, saved>>
    BY <1>2, ControlKeeps
  <2> QED BY <1>1, <2>1 DEF WorkersAreSound, Active
<1>3. CASE Start
  <2>1. WorkersGone
    BY <1>3 DEF Start, IInv, FInv, LoopIsSound, Resting
  <2>2. \A c \in Conn : /\ conn'[c].pc = conn[c].pc
                        /\ conn'[c].st = "completed" => conn[c].st = "completed"
    BY <1>3, StartConns
  <2>3. \A c \in Conn : ~Active(c)' /\ flight[c] = 0
    BY <2>1, <2>2, NobodyWorks DEF Active
  <2>4. batch = {}
    BY <1>1, <1>3 DEF Start, ConnsInOrder
  <2>5. UNCHANGED <<live, batch, chunk, flight, saved>>
    BY <1>3 DEF Start
  <2> QED BY <1>1, <2>2, <2>3, <2>4, <2>5 DEF WorkersAreSound, Active
<1>4. CASE LoopOpens
  <2>1. /\ live = {} /\ batch = {} /\ live' = {Primary} /\ UNCHANGED <<batch, flight, saved>>
    BY <1>1, <1>4 DEF LoopOpens
  <2>2. \A c \in Conn : ~Active(c) /\ flight[c] = 0
    BY <2>1, NobodyWorks DEF WorkersGone
  <2>3. /\ conn'[Primary].pc = "request" /\ conn'[Primary].st = "connecting"
        /\ conn'[Primary].retry = 0
        /\ \A c \in Conn \ {Primary} : conn'[c] = conn[c]
    BY <1>4, OpenConns
  <2> QED BY <1>1, <2>1, <2>2, <2>3 DEF WorkersAreSound, Active
<1>5. CASE LoopResumes
  <2>1. /\ batch = {} /\ UNCHANGED <<live, batch, chunk, flight, saved>> /\ WorkersGone
    BY <1>1, <1>5 DEF LoopResumes, ConnsInOrder, IInv, FInv, LoopIsSound
  <2>2. \A c \in Conn :
          \/ conn'[c] = conn[c]
          \/ /\ c \in live /\ conn'[c].pc = "request" /\ conn'[c].retry = 0
             /\ conn'[c].st = "connecting"
    BY <1>5, LaunchConns
  <2>3. \A c \in Conn : ~Active(c) /\ flight[c] = 0
    BY <2>1, NobodyWorks
  <2> QED BY <1>1, <2>1, <2>2, <2>3 DEF WorkersAreSound, Active
<1>6. CASE LoopSplits
  <2>0. PICK n \in Conn \ live : n = Cardinality(live)
    BY <1>6, SplitNumber
  <2>1. PICK v \in live : IsMaxRemainConn(v) /\ chunk' = SplitChunks(chunk, v, n)
    BY <1>6, <2>0 DEF LoopSplits
  <2>2. /\ live' = live \cup {n} /\ batch' = batch \cup {n}
        /\ conn' = [conn EXCEPT ![n] = NoWorker] /\ UNCHANGED <<flight, saved>>
    BY <1>6, <2>0 DEF LoopSplits
  <2>3. n \in Conn \ live
    BY <2>0
  <2>4. /\ \A c \in Conn \ {n} : conn'[c] = conn[c]
        /\ conn'[n] = NoWorker
    BY <1>1, <2>2, <2>3 DEF TypeOK
  <2>5. \A c \in live \ {v} : chunk'[c] = chunk[c]
    BY <1>1, <2>1, <2>3 DEF SplitChunks, ChunksAreSound
  <2>6. conn[v].st # "completed" /\ conn[v].pc # "help"
    BY <1>1, <2>1 DEF IsMaxRemainConn, Splittable, WorkersAreSound
  <2>7. conn[n].pc \in {"none", "exit"} /\ flight[n] = 0
    BY <1>1, <2>3 DEF WorkersAreSound, Active, ChunksAreSound
  <2>8. ~Active(n)' /\ conn'[n].st = "notStarted" /\ conn'[n].pc = "none"
    BY <2>4 DEF NoWorker, Active
  <2>9. \A c \in Conn \ {n} : Active(c)' <=> Active(c)
    BY <2>4 DEF Active
  <2>10. \A c \in Conn : Active(c)' => c \in live' \ batch' /\ conn'[c].retry < 3
    BY <1>1, <2>2, <2>4, <2>8, <2>9 DEF WorkersAreSound
  <2>11. \A c \in live' : conn'[c].pc = "help" \/ conn'[c].st = "completed" =>
                            remain(chunk'[c]) = 0
    BY <1>1, <2>2, <2>4, <2>5, <2>6, <2>8 DEF WorkersAreSound
  <2>12. \A c \in live' : conn'[c].st = "completed" => ~Active(c)'
    BY <1>1, <2>2, <2>4, <2>8, <2>9 DEF WorkersAreSound
  <2>13. \A c \in batch' : conn'[c].st = "notStarted"
    BY <1>1, <2>2, <2>4, <2>8 DEF WorkersAreSound
  <2>14. \A c \in Conn : flight'[c] > 0 => conn'[c].pc = "body"
    BY <1>1, <2>2, <2>4, <2>7 DEF WorkersAreSound
  <2>15. \A c \in Conn : conn'[c].pc = "fallback" =>
           c = Primary /\ conn'[c].err \in {"net", "counted", "forbidden", "terminal"}
    BY <1>1, <2>4, <2>8 DEF WorkersAreSound
  <2>16. /\ saved'.completed \subseteq saved'.live
         /\ \A c \in saved'.completed : remain(saved'.chunk[c]) = 0
    BY <1>1, <2>2 DEF WorkersAreSound
  <2> QED
    BY <2>10, <2>11, <2>12, <2>13, <2>14, <2>15, <2>16 DEF WorkersAreSound
<1>7. CASE LoopLaunches
  <2>1. /\ batch' = {} /\ UNCHANGED <<live, chunk, flight, saved>>
    BY <1>7 DEF LoopLaunches
  <2>2. \A c \in Conn :
          \/ conn'[c] = conn[c] /\ c \notin batch
          \/ /\ conn'[c].pc = "request" /\ conn'[c].retry = 0
             /\ conn'[c].st = "connecting" /\ c \in batch
    <3>1. \A c \in batch : conn[c].st = "notStarted" /\ c \in Conn /\ ~Active(c)
      BY <1>1 DEF WorkersAreSound
    <3>2. \A c \in batch : conn'[c].pc = "request" /\ conn[c].pc # "request"
      BY <1>7, <3>1, LaunchConns DEF Active
    <3> QED BY <1>7, <3>2, LaunchConns
  <2>3. \A c \in batch : c \in live /\ ~Active(c) /\ flight[c] = 0
    BY <1>1 DEF WorkersAreSound, Active, ChunksAreSound
  <2> QED BY <1>1, <2>1, <2>2, <2>3 DEF WorkersAreSound, Active
<1>8. CASE PauseEnds
  <2>1. /\ WorkersGone /\ UNCHANGED <<live, batch, flight, saved>>
    BY <1>8 DEF PauseEnds
  <2>2. /\ \A c \in Conn : /\ conn'[c].pc = conn[c].pc /\ conn'[c].st = conn[c].st
                           /\ conn'[c].err = conn[c].err
        /\ \A c \in live : conn[c].st = "completed" => chunk'[c] = chunk[c]
    BY <1>8, PauseConns
  <2>3. \A c \in Conn : ~Active(c) /\ flight[c] = 0
    BY <2>1, NobodyWorks
  <2>4. \A c \in live : conn[c].pc # "help"
    BY <1>1, <2>3 DEF Active
  <2> QED BY <1>1, <2>1, <2>2, <2>3, <2>4 DEF WorkersAreSound, Active
<1>9. CASE Save
  <2>1. /\ UNCHANGED <<live, batch, conn, chunk, flight>>
        /\ saved'.live = live /\ saved'.chunk = chunk
        /\ saved'.completed = {c \in live : conn[c].st = "completed"}
    BY <1>9 DEF Save, SnapshotChunks, loopVars
  <2> QED BY <1>1, <2>1 DEF WorkersAreSound, Active
<1>10. CASE Restart
  <2>1. /\ live' = saved.live /\ batch' = {} /\ chunk' = saved.chunk /\ saved' = saved
    BY <1>10 DEF Restart
  <2>2. \A c \in Conn : /\ conn'[c].pc = "none" /\ flight'[c] = 0
                        /\ conn'[c].st = "completed" => c \in saved.completed
    BY <1>10, RestartConns DEF Restart
  <2> QED BY <1>1, <2>1, <2>2 DEF WorkersAreSound, Active
<1>11. ASSUME NEW c \in Conn, Work(c) \/ Fails(c)
       PROVE  WorkersAreSound'
  <2>1. /\ UNCHANGED <<live, batch, saved>> /\ c \in live \ batch
        /\ \A d \in Conn \ {c} : conn'[d] = conn[d] /\ flight'[d] = flight[d]
        /\ \A d \in live \ {c} : conn[d].pc = "help" \/ conn[d].st = "completed" =>
                                   chunk'[d] = chunk[d]
    BY <1>11, WorkerFrame DEF OthersKept
  <2> DEFINE w == conn'[c]
  <2>2. Outcome(c, w)
    BY <1>11, WorkerFrame
  <2> HIDE DEF w
  <2>3. /\ w.pc \notin {"none", "exit"} => w.retry < 3 /\ w.st # "completed"
        /\ w.pc = "fallback" =>
             c = Primary /\ w.err \in {"net", "counted", "forbidden", "terminal"}
        /\ w.pc = "help" \/ w.st = "completed" => remain(chunk'[c]) = 0
        /\ flight'[c] > 0 => w.pc = "body"
    BY <2>2 DEF Outcome
  <2>4. conn'[c] = w
    BY DEF w
  <2>5. \A d \in Conn : Active(d)' => d \in live' \ batch' /\ conn'[d].retry < 3
    BY <1>1, <2>1, <2>3, <2>4 DEF WorkersAreSound, Active
  <2>6. \A d \in live' : conn'[d].pc = "help" \/ conn'[d].st = "completed" =>
                           remain(chunk'[d]) = 0
    BY <1>1, <2>1, <2>3, <2>4 DEF WorkersAreSound
  <2>7. \A d \in live' : conn'[d].st = "completed" => ~Active(d)'
    BY <1>1, <2>1, <2>3, <2>4 DEF WorkersAreSound, Active
  <2>8. \A d \in Conn :
          /\ flight'[d] > 0 => conn'[d].pc = "body"
          /\ conn'[d].pc = "fallback" =>
               d = Primary /\ conn'[d].err \in {"net", "counted", "forbidden", "terminal"}
    BY <1>1, <2>1, <2>3, <2>4 DEF WorkersAreSound
  <2>9. \A d \in batch' : conn'[d].st = "notStarted"
    BY <1>1, <2>1 DEF WorkersAreSound
  <2> QED BY <1>1, <2>1, <2>5, <2>6, <2>7, <2>8, <2>9 DEF WorkersAreSound
<1> QED
  BY <1>2, <1>3, <1>4, <1>5, <1>6, <1>7, <1>8, <1>9, <1>10, <1>11, StepCases

\* The connections of a split: chunk, worker and number of the new one.
LEMMA SplitConns ==
  ASSUME IInv, LoopSplits
  PROVE  /\ conn' \in [Conn -> Worker]
         /\ \E n \in Conn \ live :
              /\ n = Cardinality(live) /\ n # Primary
              /\ live' = live \cup {n} /\ batch' = batch \cup {n} /\ conn'[n] = NoWorker
              /\ \A c \in Conn \ {n} : conn'[c] = conn[c]
<1>0. PICK n \in Conn \ live : n = Cardinality(live) /\ n # Primary
  BY SplitNumber
<1>1. conn \in [Conn -> Worker] /\ NoWorker \in Worker
  BY Types, NewWorkers DEF TypeOK
<1>2. /\ live' = live \cup {n} /\ batch' = batch \cup {n}
      /\ conn' = [conn EXCEPT ![n] = NoWorker]
  BY <1>0 DEF LoopSplits
<1> QED BY <1>0, <1>1, <1>2

LEMMA ConnTypesNext == ASSUME IInv, [Next]_vars PROVE conn' \in [Conn -> Worker]
<1>1. conn \in [Conn -> Worker]
  BY Types DEF TypeOK
<1> QED
  BY <1>1, ControlKeeps, StartConns, OpenConns, LaunchConns, SplitConns, PauseConns,
     RestartConns, WorkerFrame, StepCases DEF Save

\* What the steps of the loop, of Start and Pause do to state, loop and the batches.
LEMMA LoopTypesNext ==
  ASSUME IInv, [Next]_vars
  PROVE  /\ state' \in States
         /\ loop' \in {"none", "start", "select", "split", "launch", "wait"}
         /\ toSplit' \in 0 .. MaxConns /\ cancelled' \in BOOLEAN
         /\ doneCh' \in {"empty", "ok", "err"}
         /\ live' \subseteq Conn /\ batch' \subseteq live'
<1>1. /\ state \in States
      /\ loop \in {"none", "start", "select", "split", "launch", "wait"}
      /\ toSplit \in 0 .. MaxConns /\ cancelled \in BOOLEAN
      /\ doneCh \in {"empty", "ok", "err"}
      /\ live \subseteq Conn /\ batch \subseteq live /\ ss \in SlowStart
  BY Types DEF TypeOK, SlowStart
<1>2. live' \subseteq Conn
  BY ChunksNext DEF ChunksAreSound
<1>3. getNextBatchSize(ss) \in 0 .. MaxConns
  BY <1>1 DEF getNextBatchSize, SmallerOf, SlowStart
<1>4. ASSUME Control
      PROVE  /\ state' \in States
             /\ loop' \in {"none", "start", "select", "split", "launch", "wait"}
             /\ toSplit' \in 0 .. MaxConns /\ cancelled' \in BOOLEAN
             /\ doneCh' \in {"empty", "ok", "err"}
             /\ batch' \subseteq live'
  <2>1. batch' \subseteq live'
    BY <1>1, <1>4, ControlKeeps
  <2>2. CASE LoopExpands
    BY <1>1, <1>3, <2>1, <2>2 DEF LoopExpands, States
  <2>3. CASE LoopUnlocks \/ LoopCompletes
    BY <1>1, <2>1, <2>3 DEF LoopUnlocks, LoopCompletes, States
  <2>4. CASE LoopAlreadyDone \/ LoopCancelled \/ WaitReturns \/ PauseBegins
    BY <1>1, <2>1, <2>4 DEF LoopAlreadyDone, LoopCancelled, WaitReturns, PauseBegins, States
  <2>5. CASE PrefetchRead \/ PrefetchEnds \/ UNCHANGED vars
    BY <1>1, <2>1, <2>5 DEF PrefetchRead, PrefetchEnds, vars, loopVars
  <2> QED BY <1>4, <2>2, <2>3, <2>4, <2>5 DEF Control
<1>5. CASE Start \/ LoopOpens \/ LoopResumes
  BY <1>1, <1>2, <1>5 DEF Start, DrainedDoneCh, LoopOpens, LoopResumes, States
<1>6. CASE LoopSplits \/ LoopLaunches
  <2>1. batch' \subseteq live'
    BY <1>1, <1>6 DEF LoopSplits, LoopLaunches
  <2>2. toSplit' \in 0 .. MaxConns
    BY <1>1, <1>6 DEF LoopSplits, LoopLaunches
  <2> QED BY <1>1, <1>2, <1>6, <2>1, <2>2 DEF LoopSplits, LoopLaunches
<1>7. CASE PauseEnds \/ Save \/ Restart
  <2>1. CASE PauseEnds \/ Save
    BY <1>1, <1>2, <2>1 DEF PauseEnds, Save, loopVars, States
  <2>2. CASE Restart
    <3>1. /\ state' = "resolved" /\ loop' = "none" /\ toSplit' = 0 /\ batch' = {}
          /\ doneCh' = "empty" /\ cancelled' = FALSE
      BY <2>2 DEF Restart
    <3>2. toSplit' \in 0 .. MaxConns /\ batch' \subseteq live'
      BY <3>1
    <3>3. cancelled' \in BOOLEAN
      BY <3>1
    <3> QED BY <1>2, <3>1, <3>2, <3>3 DEF States
  <2> QED BY <1>7, <2>1, <2>2
<1>8. CASE \E c \in Conn : Work(c) \/ Fails(c)
  BY <1>1, <1>2, <1>8, WorkerFrame
<1> QED BY <1>2, <1>4, <1>5, <1>6, <1>7, <1>8, StepCases

LEMMA SlowStartNext == ASSUME IInv, [Next]_vars PROVE ss' \in SlowStart
<1>1. ss \in SlowStart /\ Cardinality(batch) \in 0 .. MaxConns
  BY Types DEF TypeOK, SlowStart
<1>2. CASE Control
  <2>1. \/ ss' = ss \/ ss' = [ss EXCEPT !.signal = FALSE]
    BY <1>2 DEF Control, PrefetchRead, PrefetchEnds, LoopAlreadyDone, LoopExpands,
       LoopCancelled, LoopUnlocks, LoopCompletes, WaitReturns, PauseBegins, vars, loopVars
  <2> QED BY <1>1, <2>1, SlowStartTypes
<1>3. CASE Start \/ Restart
  BY <1>3, SlowStartTypes DEF Start, Restart
<1>4. CASE LoopOpens
  <2>1. 1 \in 0 .. MaxConns
    OBVIOUS
  <2> QED BY <1>1, <1>4, <2>1, SlowStartTypes DEF LoopOpens
<1>5. CASE LoopLaunches
  BY <1>1, <1>5, SlowStartTypes DEF LoopLaunches
<1>6. CASE LoopResumes \/ LoopSplits \/ PauseEnds \/ Save
  BY <1>1, <1>6 DEF LoopResumes, LoopSplits, PauseEnds, Save
<1>7. CASE \E c \in Conn : Work(c) \/ Fails(c)
  BY <1>7, WorkerEffect
<1> QED BY <1>2, <1>3, <1>4, <1>5, <1>6, <1>7, StepCases

\* The target file only grows, within its size.
LEMMA FileNext ==
  ASSUME IInv, [Next]_vars
  PROVE  /\ written' \subseteq Byte /\ written \subseteq written'
         /\ pre' \in 0 .. Size /\ dataPos' \in 0 .. Size
         /\ preDone' \in BOOLEAN /\ fallback' \in BOOLEAN /\ range' \in BOOLEAN
<1>1. /\ written \subseteq Byte /\ pre \in 0 .. Size /\ dataPos \in 0 .. Size
      /\ preDone \in BOOLEAN /\ fallback \in BOOLEAN /\ range \in BOOLEAN
      /\ saved.range \in BOOLEAN
  BY Types DEF TypeOK
<1>2. 0 .. pre - 1 \subseteq Byte
  BY <1>1 DEF Byte
<1>3. CASE Control
  <2>1. /\ (pre < Size /\ pre' = pre + 1) \/ pre' = pre
        /\ preDone' = preDone \/ preDone' = TRUE
    BY <1>3 DEF Control, PrefetchRead, PrefetchEnds, LoopAlreadyDone, LoopExpands,
       LoopCancelled, LoopUnlocks, LoopCompletes, WaitReturns, PauseBegins, vars, preVars
  <2>2. UNCHANGED <<written, fallback, dataPos, range>>
    BY <1>3, ControlKeeps
  <2>3. pre' \in 0 .. Size
    BY <1>1, <2>1
  <2>4. preDone' \in BOOLEAN
    BY <1>1, <2>1
  <2> QED BY <1>1, <2>2, <2>3, <2>4
<1>4. CASE Start \/ PauseEnds
  <2>1. CASE Start
    <3>1. /\ dataPos' \in {pre, dataPos} /\ range' = range
          /\ CopyPrefix \/ UNCHANGED <<written, pre, preDone, fallback>>
      BY <2>1 DEF Start
    <3>2. /\ written' \subseteq Byte /\ written \subseteq written'
          /\ pre' \in 0 .. Size /\ dataPos' \in 0 .. Size
      BY <1>1, <1>2, <3>1 DEF CopyPrefix
    <3>3. preDone' \in BOOLEAN /\ fallback' \in BOOLEAN /\ range' \in BOOLEAN
      BY <1>1, <3>1 DEF CopyPrefix
    <3> QED BY <3>2, <3>3
  <2>2. CASE PauseEnds
    <3>1. /\ dataPos' \in {pre, dataPos} /\ pre' = 0
          /\ written' = written \cup PauseCopies
      BY <2>2 DEF PauseEnds
    <3>2. PauseCopies \subseteq 0 .. pre - 1
      BY DEF PauseCopies
    <3>3. /\ written' \subseteq Byte /\ written \subseteq written'
          /\ pre' \in 0 .. Size /\ dataPos' \in 0 .. Size
      <4>1. written' \subseteq Byte /\ written \subseteq written'
        <5>1. PauseCopies \subseteq Byte
          BY <1>2, <3>2
        <5> QED BY <1>1, <3>1, <5>1
      <4> QED BY <1>1, <3>1, <4>1
    <3>4. preDone' = preDone /\ fallback' = FALSE /\ range' = range
      BY <2>2 DEF PauseEnds
    <3> QED BY <1>1, <3>3, <3>4
  <2> QED BY <1>4, <2>1, <2>2
<1>5. CASE LoopOpens \/ LoopResumes \/ LoopSplits \/ LoopLaunches \/ Save
  BY <1>1, <1>5 DEF LoopOpens, LoopResumes, LoopSplits, LoopLaunches, Save, preVars
<1>6. CASE Restart
  <2>1. /\ written' = written /\ range' = saved.range
        /\ pre' = 0 /\ preDone' = TRUE /\ fallback' = FALSE /\ dataPos' = 0
    BY <1>6 DEF Restart
  <2>2. pre' \in 0 .. Size /\ dataPos' \in 0 .. Size
    BY <2>1
  <2>3. preDone' \in BOOLEAN /\ fallback' \in BOOLEAN /\ range' \in BOOLEAN
    BY <1>1, <2>1
  <2> QED BY <1>1, <2>1, <2>2, <2>3
<1>7. ASSUME NEW c \in Conn, Work(c)
      PROVE  /\ written' \subseteq Byte /\ written \subseteq written'
             /\ pre' \in 0 .. Size /\ dataPos' \in 0 .. Size
             /\ preDone' \in BOOLEAN /\ fallback' \in BOOLEAN /\ range' \in BOOLEAN
  <2>1. CASE ResponseOk(c) \/ FallbackCompletes(c) \/ FallbackFails(c)
    <3>1. /\ dataPos' \in {pre, dataPos} /\ pre' \in {0, pre} /\ range' \in {range, FALSE}
          /\ preDone' \in {preDone, TRUE} /\ fallback' \in {fallback, FALSE}
          /\ written' \in {written, written \cup (0 .. pre - 1)}
      BY <2>1 DEF ResponseOk, FallbackCompletes, FallbackFails, CopyPrefix
    <3>2. /\ written' \subseteq Byte /\ written \subseteq written'
          /\ pre' \in 0 .. Size /\ dataPos' \in 0 .. Size
      BY <1>1, <1>2, <3>1
    <3>3. preDone' \in BOOLEAN /\ fallback' \in BOOLEAN /\ range' \in BOOLEAN
      BY <1>1, <3>1
    <3> QED BY <3>2, <3>3
  <2>2. CASE Put(c)
    <3>1. InFlight(c) \subseteq Byte
      BY <2>2, Types DEF ChunksAreSound, Put, InFlight, Byte, Offset, remain, Chunk
    <3> QED BY <1>1, <2>2, <3>1 DEF Put, preVars
  <2>3. CASE ~(ResponseOk(c) \/ FallbackCompletes(c) \/ FallbackFails(c) \/ Put(c))
    <3>1. UNCHANGED <<written, preVars>>
      BY <1>7, <2>3 DEF Work, Cancelled, NothingLeft, FallbackCancelled, WakeUp, Claim,
                        Count, Helps, Completes
    <3> QED BY <1>1, <3>1 DEF preVars
  <2> QED BY <2>1, <2>2, <2>3
<1>8. ASSUME NEW c \in Conn, Fails(c)
      PROVE  /\ written' \subseteq Byte /\ written \subseteq written'
             /\ pre' \in 0 .. Size /\ dataPos' \in 0 .. Size
             /\ preDone' \in BOOLEAN /\ fallback' \in BOOLEAN /\ range' \in BOOLEAN
  <2>1. CASE \E kind \in FaultKind : RequestFails(c, kind)
    BY <1>1, <2>1 DEF RequestFails
  <2>2. ASSUME NEW k \in 0 .. Buf, PutFails(c, k)
        PROVE  written' \subseteq Byte /\ written \subseteq written' /\ UNCHANGED preVars
    <3>1. Offset(chunk[c]) .. Offset(chunk[c]) + k - 1 \subseteq Byte
      BY <2>2, Types DEF ChunksAreSound, PutFails, Byte, Offset, remain, Chunk
    <3> QED BY <1>1, <2>2, <3>1 DEF PutFails
  <2>3. CASE BodyBreaks(c)
    BY <1>1, <2>3 DEF BodyBreaks, preVars
  <2> QED BY <1>1, <1>8, <2>1, <2>2, <2>3 DEF Fails, preVars
<1> QED BY <1>3, <1>4, <1>5, <1>6, <1>7, <1>8, StepCases

LEMMA SavedNext ==
  ASSUME IInv, [Next]_vars
  PROVE  /\ saved' \in [live : SUBSET Conn, chunk : [Conn -> Chunk],
                        total : [Conn -> Nat], completed : SUBSET Conn, range : BOOLEAN]
         /\ ~Save => saved' = saved
<1>1. TypeOK /\ ChunksAreSound
  BY Types
<1>2. CASE Save
  <2>1. /\ saved' = [live |-> live, chunk |-> chunk, range |-> range,
                     total |-> [c \in Conn |-> conn[c].total],
                     completed |-> {c \in live : conn[c].st = "completed"}]
    BY <1>2 DEF Save, SnapshotChunks
  <2>2. [c \in Conn |-> conn[c].total] \in [Conn -> Nat]
    BY <1>1 DEF TypeOK, Worker
  <2>3. {c \in live : conn[c].st = "completed"} \in SUBSET Conn
    BY <1>1 DEF TypeOK
  <2>4. chunk \in [Conn -> Chunk] /\ live \in SUBSET Conn /\ range \in BOOLEAN
    BY <1>1 DEF TypeOK
  <2> QED BY <1>2, <2>1, <2>2, <2>3, <2>4
<1>3. CASE ~Save
  <2>1. saved' = saved
    BY <1>3, StepCases, ControlKeeps, WorkerFrame
    DEF Start, LoopOpens, LoopResumes, LoopSplits, LoopLaunches, PauseEnds, Restart
  <2> QED BY <1>1, <2>1 DEF TypeOK
<1> QED BY <1>2, <1>3

LEMMA TypesNext == ASSUME IInv, [Next]_vars PROVE TypeOK'
<1>1. /\ chunk' \in [Conn -> Chunk] /\ flight' \in [Conn -> 0 .. Buf]
      /\ put' \in [Conn -> BOOLEAN]
  BY ChunksNext DEF ChunksAreSound
<1> QED
  BY <1>1, LoopTypesNext, SlowStartNext, ConnTypesNext, FileNext, SavedNext, BudgetStep
  DEF TypeOK, SlowStart

LEMMA OrderNext == ASSUME IInv, [Next]_vars PROVE ConnsInOrder'
<1>1. /\ ConnsInOrder /\ TypeOK /\ LoopIsSound
      /\ live \subseteq Conn /\ batch \subseteq live
      /\ IsFiniteSet(live) /\ Cardinality(live) \in 0 .. MaxConns
      /\ IsFiniteSet(batch) /\ Cardinality(batch) \in 0 .. MaxConns
      /\ ss \in SlowStart /\ ss.launched \in Nat /\ toSplit \in Nat
  BY Types DEF IInv, FInv, TypeOK, SlowStart
<1>2. /\ InOrder(live) /\ InOrder(saved.live)
      /\ loop \notin {"none", "start"} => live # {}
      /\ batch # {} => loop \in {"split", "launch"}
      /\ Expanding => ss.launched + Cardinality(batch) = Cardinality(live)
      /\ loop = "split" => Cardinality(live) + toSplit <= MaxConns
  BY <1>1 DEF ConnsInOrder
<1>3. CASE Control
  <2>1. UNCHANGED <<live, batch, saved>>
    BY <1>3, ControlKeeps
  <2>2. InOrder(live') /\ InOrder(saved'.live)
    BY <1>2, <2>1
  <2>3. CASE UNCHANGED <<loop, ss, toSplit>>
    BY <1>2, <2>1, <2>3 DEF ConnsInOrder, Expanding
  <2>4. CASE LoopAlreadyDone \/ LoopCancelled \/ LoopCompletes
    BY <1>2, <2>1, <2>2, <2>4
    DEF LoopAlreadyDone, LoopCancelled, LoopCompletes, ConnsInOrder, Expanding
  <2>5. CASE LoopExpands
    <3>1. /\ loop = "select" /\ batch = {} /\ loop' \in {"select", "split", "wait"}
          /\ ss' = [ss EXCEPT !.signal = FALSE]
          /\ loop' = "split" => toSplit' = getNextBatchSize(ss) /\ getNextBatchSize(ss) > 0
      BY <1>2, <2>5 DEF LoopExpands
    <3>2. Cardinality(batch) = 0 /\ ss.launched = Cardinality(live)
      BY <1>1, <1>2, <3>1, FS_EmptySet DEF Expanding
    <3>3. ss'.launched = ss.launched
      BY <1>1, <3>1 DEF SlowStart
    <3>4. loop' = "split" => Cardinality(live) + toSplit' <= MaxConns
      BY <1>1, <3>1, <3>2 DEF getNextBatchSize, SmallerOf, SlowStart
    <3> QED BY <1>1, <1>2, <2>1, <2>2, <3>1, <3>2, <3>3, <3>4 DEF ConnsInOrder, Expanding
  <2>6. CASE LoopUnlocks
    <3>1. /\ loop = "split" /\ ss' = ss
          /\ loop' = IF batch = {} THEN "wait" ELSE "launch"
      BY <2>6 DEF LoopUnlocks
    <3> QED BY <1>2, <2>1, <2>2, <3>1 DEF ConnsInOrder, Expanding
  <2> QED
    BY <1>3, <2>3, <2>4, <2>5, <2>6
    DEF Control, PrefetchRead, PrefetchEnds, WaitReturns, PauseBegins, vars, loopVars
<1>4. CASE Start
  <2>1. loop = "none" /\ loop' = "start" /\ UNCHANGED <<live, batch, saved>>
    BY <1>4 DEF Start
  <2> QED BY <1>2, <2>1 DEF ConnsInOrder, Expanding
<1>5. CASE LoopOpens
  <2>1. /\ loop = "start" /\ loop' = "select" /\ live' = {Primary} /\ batch' = batch
        /\ saved' = saved /\ ss' = commitBatch(ss, 1)
    BY <1>5 DEF LoopOpens
  <2>2. ss = NewSlowStart /\ batch = {}
    BY <1>1, <1>2, <2>1 DEF LoopIsSound
  <2>3. ss'.launched = 1
    <3>1. 1 \in 0 .. MaxConns
      OBVIOUS
    <3>2. ss'.launched = ss.launched + 1
      BY <1>1, <2>1, <3>1, SlowStartTypes
    <3>3. ss.launched = 0
      BY <2>2 DEF NewSlowStart
    <3> QED BY <3>2, <3>3
  <2>4. Cardinality(live') = 1 /\ Cardinality(batch') = 0
    BY <2>1, <2>2, FS_Singleton, FS_EmptySet
  <2>5. InOrder(live')
    BY <2>1, <2>4 DEF InOrder, Conn, Primary
  <2> QED BY <1>2, <2>1, <2>2, <2>3, <2>4, <2>5 DEF ConnsInOrder, Expanding
<1>6. CASE LoopResumes
  <2>1. /\ loop = "start" /\ loop' = "wait" /\ live # {} /\ UNCHANGED <<live, batch, saved>>
    BY <1>6 DEF LoopResumes
  <2> QED BY <1>2, <2>1 DEF ConnsInOrder, Expanding
<1>7. CASE LoopSplits
  <2>1. PICK n \in Conn \ live :
              /\ n = Cardinality(live)
              /\ live' = live \cup {n} /\ batch' = batch \cup {n}
    BY <1>7, SplitConns
  <2>2. /\ loop = "split" /\ UNCHANGED <<loop, ss, saved>> /\ toSplit' = toSplit - 1
        /\ toSplit > 0
    BY <1>7 DEF LoopSplits
  <2>3. Cardinality(live') = n + 1
    BY <1>1, <2>1, FS_AddElement
  <2>4. Cardinality(batch') = Cardinality(batch) + 1
    <3>1. n \notin batch
      BY <1>1, <2>1
    <3> QED BY <1>1, <2>1, <3>1, FS_AddElement
  <2>5. InOrder(live')
    <3> SUFFICES ASSUME NEW c \in Conn PROVE c \in live' <=> c < n + 1
      BY <2>3 DEF InOrder
    <3>1. c \in live <=> c < n
      BY <1>2, <2>1 DEF InOrder
    <3>2. c \in Int /\ n \in Int
      BY <2>1 DEF Conn
    <3> QED BY <2>1, <3>1, <3>2
  <2> QED BY <1>1, <1>2, <2>1, <2>2, <2>3, <2>4, <2>5 DEF ConnsInOrder, Expanding
<1>8. CASE LoopLaunches
  <2>1. /\ loop = "launch" /\ loop' = "select" /\ batch' = {} /\ UNCHANGED <<live, saved>>
        /\ ss' = commitBatch(ss, Cardinality(batch))
    BY <1>8 DEF LoopLaunches
  <2>2. ss'.launched = ss.launched + Cardinality(batch)
    BY <1>1, <2>1, SlowStartTypes
  <2>3. Cardinality(batch') = 0
    BY <2>1, FS_EmptySet
  <2> QED BY <1>1, <1>2, <2>1, <2>2, <2>3 DEF ConnsInOrder, Expanding
<1>9. CASE PauseEnds
  <2>1. loop = "none" /\ UNCHANGED <<loop, live, batch, saved>>
    BY <1>9 DEF PauseEnds
  <2> QED BY <1>2, <2>1 DEF ConnsInOrder, Expanding
<1>10. CASE Save
  <2>1. UNCHANGED <<live, batch, loop, ss, toSplit>> /\ saved'.live = live
    BY <1>10 DEF Save, loopVars
  <2> QED BY <1>2, <2>1 DEF ConnsInOrder, Expanding
<1>11. CASE Restart
  <2>1. loop' = "none" /\ batch' = {} /\ live' = saved.live /\ saved' = saved
    BY <1>11 DEF Restart
  <2> QED BY <1>2, <2>1 DEF ConnsInOrder, Expanding
<1>12. ASSUME NEW c \in Conn, Work(c) \/ Fails(c)
       PROVE  ConnsInOrder'
  BY <1>2, <1>12, WorkerFrame, WorkerEffect DEF ConnsInOrder, Expanding
<1> QED
  BY <1>3, <1>4, <1>5, <1>6, <1>7, <1>8, <1>9, <1>10, <1>11, <1>12, StepCases

LEMMA LoopNext == ASSUME IInv, [Next]_vars PROVE LoopIsSound'
<1>1. /\ Resting => loop = "none"
      /\ loop = "none" => Resting \/ cancelled
      /\ Resting \/ loop = "start" => WorkersGone
      /\ loop = "start" => state = "slowStart" /\ ss = NewSlowStart
      /\ state = "resolved" => doneCh = "empty"
  BY DEF IInv, FInv, LoopIsSound
<1>2. CASE Control
  <2>1. WorkersGone' <=> WorkersGone
    BY <1>2, ControlKeeps DEF WorkersGone
  <2>2. CASE PrefetchRead \/ PrefetchEnds \/ UNCHANGED vars
    <3>1. UNCHANGED <<state, loop, cancelled, ss, doneCh>>
      BY <2>2 DEF PrefetchRead, PrefetchEnds, vars, loopVars
    <3> QED BY <1>1, <2>1, <3>1 DEF LoopIsSound, Resting
  <2>3. CASE LoopAlreadyDone
    BY <1>1, <2>1, <2>3 DEF LoopAlreadyDone, LoopIsSound, Resting
  <2>4. CASE LoopExpands \/ LoopUnlocks
    <3>1. /\ loop \notin {"none", "start"} /\ loop' \notin {"none", "start"}
          /\ state' \in {state, "steady"}
      BY <2>4 DEF LoopExpands, LoopUnlocks
    <3> QED BY <1>1, <3>1 DEF LoopIsSound, Resting
  <2>5. CASE LoopCancelled
    <3>1. loop = "select" /\ cancelled /\ loop' = "none" /\ UNCHANGED <<state, cancelled>>
      BY <2>5 DEF LoopCancelled
    <3> QED BY <1>1, <3>1 DEF LoopIsSound, Resting
  <2>6. CASE LoopCompletes
    <3>1. /\ loop = "wait" /\ WorkersGone /\ loop' = "none" /\ cancelled' = cancelled
          /\ IF cancelled THEN state' = state ELSE state' \in {"error", "done"}
      BY <2>6 DEF LoopCompletes
    <3> QED BY <1>1, <2>1, <3>1 DEF LoopIsSound, Resting
  <2>7. CASE WaitReturns
    <3>1. doneCh' = "empty" /\ UNCHANGED <<state, loop, cancelled, ss>>
      BY <2>7 DEF WaitReturns
    <3> QED BY <1>1, <2>1, <3>1 DEF LoopIsSound, Resting
  <2>8. CASE PauseBegins
    <3>1. cancelled' /\ UNCHANGED <<state, loop, doneCh, ss>>
      BY <2>8 DEF PauseBegins
    <3> QED BY <1>1, <2>1, <3>1 DEF LoopIsSound, Resting
  <2> QED BY <1>2, <2>2, <2>3, <2>4, <2>5, <2>6, <2>7, <2>8 DEF Control
<1>3. CASE Start
  <2>1. /\ Resting /\ live' = live /\ state' = "slowStart" /\ loop' = "start"
        /\ ss' = NewSlowStart
    BY <1>3 DEF Start, Resting
  <2>2. WorkersGone'
    BY <1>1, <1>3, <2>1, StartConns, Types DEF WorkersGone, TypeOK
  <2> QED BY <2>1, <2>2 DEF LoopIsSound, Resting
<1>4. CASE LoopOpens \/ LoopResumes
  <2>1. loop = "start" /\ loop' \in {"select", "wait"} /\ state' = state
    BY <1>4 DEF LoopOpens, LoopResumes
  <2> QED BY <1>1, <2>1 DEF LoopIsSound, Resting
<1>5. CASE LoopSplits \/ LoopLaunches
  <2>1. /\ loop \in {"split", "launch"} /\ loop' \in {"split", "select"}
        /\ state' = state
    BY <1>5 DEF LoopSplits, LoopLaunches
  <2> QED BY <1>1, <2>1 DEF LoopIsSound, Resting
<1>6. CASE PauseEnds
  <2>1. state' = "paused" /\ loop' = "none" /\ WorkersGone /\ live' = live
    BY <1>6 DEF PauseEnds
  <2>2. WorkersGone'
    BY <1>6, <2>1, PauseConns, Types DEF WorkersGone, TypeOK
  <2> QED BY <2>1, <2>2 DEF LoopIsSound, Resting
<1>7. CASE Save
  BY <1>1, <1>7 DEF Save, loopVars, LoopIsSound, Resting, WorkersGone
<1>8. CASE Restart
  <2>1. /\ state' = "resolved" /\ loop' = "none" /\ doneCh' = "empty" /\ live' = saved.live
    BY <1>8 DEF Restart
  <2>2. WorkersGone'
    BY <1>8, <2>1, RestartConns, Types DEF WorkersGone, ChunksAreSound
  <2> QED BY <2>1, <2>2 DEF LoopIsSound, Resting
<1>9. ASSUME NEW c \in Conn, Work(c) \/ Fails(c)
      PROVE  LoopIsSound'
  <2>1. ~Resting /\ loop # "start" /\ UNCHANGED loopVars
    BY <1>9, WorkerIsActive
  <2> QED BY <1>1, <2>1 DEF LoopIsSound, Resting, loopVars
<1> QED
  BY <1>2, <1>3, <1>4, <1>5, <1>6, <1>7, <1>8, <1>9, StepCases

LEMMA GoneNext == ASSUME IInv, [Next]_vars PROVE GoneIsOver'
<1>1. /\ GoneIsOver /\ ConnsInOrder /\ live \subseteq Conn /\ batch \subseteq live
  BY Types DEF IInv, FInv, TypeOK
<1>2. CASE Control
  <2>1. UNCHANGED <<live, batch, conn>>
    BY <1>2, ControlKeeps
  <2>2. loop' \notin {"none", "start"} /\ ~cancelled' => loop \notin {"none", "start"} /\ ~cancelled
    BY <1>2 DEF Control, PrefetchRead, PrefetchEnds, LoopAlreadyDone, LoopExpands,
       LoopCancelled, LoopUnlocks, LoopCompletes, WaitReturns, PauseBegins, vars, loopVars
  <2> QED BY <1>1, <2>1, <2>2 DEF GoneIsOver, Active
<1>3. CASE Start \/ PauseEnds \/ Restart
  <2>1. loop' \in {"none", "start"}
    BY <1>3 DEF Start, PauseEnds, Restart
  <2> QED BY <2>1 DEF GoneIsOver
<1>4. CASE LoopOpens
  <2>1. live' = {Primary} /\ conn'[Primary].pc = "request"
    BY <1>4, OpenConns DEF LoopOpens
  <2> QED BY <2>1 DEF GoneIsOver, Active
<1>5. CASE LoopResumes
  <2>1. live' = live
    BY <1>5 DEF LoopResumes
  <2>2. \A c \in live : \/ conn'[c].pc = "request" \/ conn'[c].st = "completed"
                        \/ conn'[c].st = "failed" /\ conn'[c].failed
    BY <1>1, <1>5, LaunchConns
  <2> QED BY <2>1, <2>2 DEF GoneIsOver, Active
<1>6. CASE LoopSplits
  <2>1. PICK n \in Conn \ live :
              /\ live' = live \cup {n} /\ batch' = batch \cup {n}
              /\ \A c \in Conn \ {n} : conn'[c] = conn[c]
    BY <1>6, SplitConns
  <2>2. loop = "split" /\ cancelled' = cancelled
    BY <1>6 DEF LoopSplits
  <2> QED BY <1>1, <2>1, <2>2 DEF GoneIsOver, Active
<1>7. CASE LoopLaunches
  <2>1. loop = "launch" /\ batch' = {} /\ UNCHANGED <<live, cancelled>>
    BY <1>7 DEF LoopLaunches
  <2>2. \A c \in live : conn'[c].pc = "request" \/ (conn'[c] = conn[c] /\ c \notin batch)
    BY <1>1, <1>7, LaunchConns
  <2> QED BY <1>1, <2>1, <2>2 DEF GoneIsOver, Active
<1>8. CASE Save
  BY <1>1, <1>8 DEF Save, loopVars, GoneIsOver, Active
<1>9. ASSUME NEW c \in Conn, Work(c) \/ Fails(c)
      PROVE  GoneIsOver'
  <2>1. /\ UNCHANGED <<loop, live, batch, cancelled>>
        /\ \A d \in Conn \ {c} : conn'[d] = conn[d]
    BY <1>9, WorkerFrame
  <2> DEFINE w == conn'[c]
  <2>2. Outcome(c, w)
    BY <1>9, WorkerFrame
  <2> HIDE DEF w
  <2>3. /\ w.pc # "none"
        /\ w.pc = "exit" => cancelled \/ w.st = "completed" \/ (w.st = "failed" /\ w.failed)
    BY <2>2 DEF Outcome
  <2>4. conn'[c] = w
    BY DEF w
  <2> QED BY <1>1, <2>1, <2>3, <2>4 DEF GoneIsOver, Active
<1> QED
  BY <1>2, <1>3, <1>4, <1>5, <1>6, <1>7, <1>8, <1>9, StepCases

LEMMA RangeNext == ASSUME IInv, [Next]_vars PROVE RangeIsKept'
<1>1. /\ RangeIsKept /\ WorkersAreSound /\ TypeOK /\ Primary \in Conn
      /\ live \subseteq Conn /\ batch \subseteq live /\ ConnsInOrder
  BY Types DEF IInv, FInv, TypeOK
<1>2. /\ ~range => /\ live = {Primary} /\ conn[Primary].st = "completed"
                   /\ conn[Primary].total = Size
      /\ ~saved.range => /\ saved.live = {Primary} /\ Primary \in saved.completed
                         /\ saved.total[Primary] = Size
  BY <1>1 DEF RangeIsKept
<1>3. CASE Control
  <2>1. UNCHANGED <<live, conn, range, saved>>
    BY <1>3, ControlKeeps
  <2> QED BY <1>2, <2>1 DEF RangeIsKept
<1>4. CASE Start
  <2>1. UNCHANGED <<live, range, saved>>
    BY <1>4 DEF Start
  <2>2. /\ conn'[Primary].total = conn[Primary].total
        /\ conn[Primary].st = "completed" => conn'[Primary].st = "completed"
    BY <1>1, <1>4, StartConns
  <2> QED BY <1>2, <2>1, <2>2 DEF RangeIsKept
<1>5. CASE LoopOpens
  <2>1. live = {} /\ UNCHANGED <<range, saved>>
    BY <1>5 DEF LoopOpens, preVars
  <2> QED BY <1>2, <2>1 DEF RangeIsKept
<1>6. CASE LoopResumes \/ LoopLaunches
  <2>1. UNCHANGED <<live, range, saved>>
    BY <1>6 DEF LoopResumes, LoopLaunches, preVars
  <2>2. conn[Primary].st = "completed" => Primary \notin batch
    BY <1>1 DEF WorkersAreSound
  <2>3. conn[Primary].st = "completed" => conn'[Primary] = conn[Primary]
    BY <1>1, <1>6, <2>2, LaunchConns
  <2> QED BY <1>2, <2>1, <2>3 DEF RangeIsKept
<1>7. CASE LoopSplits
  <2>1. PICK v \in live : conn[v].st # "completed"
    BY <1>7 DEF LoopSplits, IsMaxRemainConn, Splittable
  <2>2. range /\ UNCHANGED <<range, saved>>
    BY <1>2, <1>7, <2>1 DEF LoopSplits, preVars
  <2> QED BY <1>2, <2>2 DEF RangeIsKept
<1>8. CASE PauseEnds
  <2>1. UNCHANGED <<live, range, saved>>
    BY <1>8 DEF PauseEnds
  <2>2. \A c \in live : conn[c].st = "completed" => conn'[c] = conn[c]
    BY <1>8, PauseConns
  <2>3. live = {Primary} => Primary \in live
    OBVIOUS
  <2> QED BY <1>2, <2>1, <2>2, <2>3 DEF RangeIsKept
<1>9. CASE Save
  <2>1. /\ UNCHANGED <<live, conn, range>>
        /\ saved'.live = live /\ saved'.range = range
        /\ saved'.total = [c \in Conn |-> conn[c].total]
        /\ saved'.completed = {c \in live : conn[c].st = "completed"}
    BY <1>9 DEF Save, loopVars, preVars
  <2> QED BY <1>1, <1>2, <2>1 DEF RangeIsKept
<1>10. CASE Restart
  <2>1. live' = saved.live /\ range' = saved.range /\ saved' = saved
    BY <1>10 DEF Restart
  <2>2. conn'[Primary].total = saved.total[Primary]
        /\ (conn'[Primary].st = "completed" <=> Primary \in saved.completed)
    BY <1>1, <1>10, RestartConns
  <2> QED BY <1>2, <2>1, <2>2 DEF RangeIsKept
<1>11. ASSUME NEW c \in Conn, Work(c) \/ Fails(c)
       PROVE  RangeIsKept'
  <2>1. range /\ UNCHANGED <<live, saved>>
    BY <1>11, WorkerIsActive DEF loopVars
  <2>2. CASE FallbackCompletes(c)
    <3>1. PICK w : Outcome(c, w) /\ w.total = Size /\ w.st = "completed"
      BY <2>2, FallbackOutcome
    <3>2. live = {Primary} /\ c = Primary
      BY <2>2, FallbackOutcome
    <3>3. conn'[Primary] = w
      BY <1>1, <3>1, <3>2 DEF Outcome, TypeOK
    <3> QED BY <1>2, <2>1, <3>1, <3>2, <3>3 DEF RangeIsKept
  <2>3. CASE ~FallbackCompletes(c)
    <3>1. range' = range
      BY <1>11, <2>3 DEF Work, Fails, Cancelled, NothingLeft, ResponseOk, FallbackFails,
         FallbackCancelled, WakeUp, Claim, Put, Count, Helps, Completes, RequestFails,
         PutFails, BodyBreaks, preVars
    <3> QED BY <1>2, <2>1, <3>1 DEF RangeIsKept
  <2> QED BY <2>2, <2>3
<1> QED
  BY <1>3, <1>4, <1>5, <1>6, <1>7, <1>8, <1>9, <1>10, <1>11, StepCases

\* An error that is recorded is one the environment may cause.
LEMMA ForbiddenNext == ASSUME IInv, [Next]_vars PROVE NobodyIsForbidden'
<1> SUFFICES ASSUME "forbidden" \notin budget'.kinds, NEW d \in Conn
             PROVE  conn'[d].err # "forbidden"
  BY DEF NobodyIsForbidden
<1>1. conn[d].err # "forbidden" /\ "forbidden" \notin budget.kinds
  BY BudgetStep DEF IInv, FInv, NobodyIsForbidden
<1>2. CASE Control \/ Save
  <2>1. conn' = conn
    BY <1>2, ControlKeeps DEF Save
  <2> QED BY <1>1, <2>1
<1>3. CASE Start
  <2>1. conn'[d] = conn[d] \/ conn'[d].err = "none"
    BY <1>3, StartConns
  <2> QED BY <1>1, <2>1
<1>4. CASE LoopOpens
  <2>1. conn'[d] = conn[d] \/ conn'[d].err = "none"
    BY <1>4, OpenConns
  <2> QED BY <1>1, <2>1
<1>5. CASE LoopResumes \/ LoopLaunches
  BY <1>1, <1>5, LaunchConns
<1>6. CASE LoopSplits
  <2>1. conn'[d] = conn[d] \/ conn'[d].err = "none"
    BY <1>6, SplitConns, NewWorkers
  <2> QED BY <1>1, <2>1
<1>7. CASE PauseEnds
  BY <1>1, <1>7, PauseConns
<1>8. CASE Restart
  <2>1. conn'[d].err = "none"
    BY <1>8, RestartConns
  <2> QED BY <2>1
<1>9. ASSUME NEW c \in Conn, Work(c) \/ Fails(c)
      PROVE  conn'[d].err # "forbidden"
  <2>1. conn'[d] = conn[d] \/ d = c
    BY <1>9, WorkerFrame
  <2> DEFINE w == conn'[c]
  <2>2. Outcome(c, w)
    BY <1>9, WorkerFrame
  <2> HIDE DEF w
  <2>3. w.err = "forbidden" => conn[c].err = "forbidden" \/ "forbidden" \in budget.kinds
    BY <2>2 DEF Outcome
  <2> QED BY <1>1, <2>1, <2>3 DEF w
<1> QED
  BY <1>2, <1>3, <1>4, <1>5, <1>6, <1>7, <1>8, <1>9, StepCases

\* What Start copies before there is a connection.
LEMMA CopiedNext == ASSUME IInv, [Next]_vars PROVE CopiedBeforeOpen'
<1> SUFFICES ASSUME loop' = "start", live' = {}
             PROVE  (\/ fallback /\ dataPos <= pre /\ (dataPos = Size => budget.early)
                     \/ ~fallback /\ pre = 0 /\ preDone /\ 0 .. dataPos - 1 \subseteq written)'
  BY DEF CopiedBeforeOpen
<1>1. /\ pre \in 0 .. Size /\ dataPos \in 0 .. Size
      /\ preDone \in BOOLEAN /\ fallback \in BOOLEAN /\ range \in BOOLEAN
      /\ written \subseteq written' /\ budget'.early = budget.early
  BY HeldFacts, FileNext, BudgetStep
<1>2. CASE Start
  <2>1. live' = live /\ range
    <3>1. live' = live
      BY <1>2 DEF Start
    <3> QED BY <1>1, <3>1 DEF IInv, FInv, RangeIsKept
  <2>2. dataPos' = pre
    BY <1>2, <2>1 DEF Start
  <2>3. CASE fallback /\ ~(preDone /\ pre = Size)
    <3>1. fallback' = fallback /\ pre' = pre
      BY <1>2, <2>1, <2>3 DEF Start
    <3>2. preDone \/ pre < Size \/ budget.early
      BY <1>2 DEF Start
    <3>3. dataPos' = Size => budget'.early
      BY <1>1, <2>2, <2>3, <3>2
    <3> QED BY <1>1, <2>2, <2>3, <3>1, <3>3
  <2>4. CASE ~(fallback /\ ~(preDone /\ pre = Size))
    <3>1. CopyPrefix
      BY <1>2, <2>1, <2>4 DEF Start
    <3>2. 0 .. dataPos' - 1 \subseteq written'
      BY <2>2, <3>1 DEF CopyPrefix
    <3>3. pre' = 0 /\ preDone' /\ ~fallback'
      BY <3>1 DEF CopyPrefix
    <3> QED BY <3>2, <3>3
  <2> QED BY <2>3, <2>4
<1>3. CASE ~Start
  <2>1. CASE Control \/ Save
    <3>1. UNCHANGED <<live, fallback, dataPos>>
      BY <2>1, ControlKeeps DEF Save, loopVars, preVars
    <3>2. /\ loop = "start"
          /\ \/ UNCHANGED <<pre, preDone>>
             \/ ~preDone /\ pre' = pre + 1
             \/ ~preDone /\ pre' = pre
      BY <2>1 DEF Save, Control, PrefetchRead, PrefetchEnds, LoopAlreadyDone, LoopExpands,
         LoopCancelled, LoopUnlocks, LoopCompletes, WaitReturns, PauseBegins, vars, loopVars,
         preVars
    <3>3. \/ fallback /\ dataPos <= pre /\ (dataPos = Size => budget.early)
          \/ ~fallback /\ pre = 0 /\ preDone /\ 0 .. dataPos - 1 \subseteq written
      BY <3>1, <3>2 DEF IInv, FInv, CopiedBeforeOpen
    <3>4. CASE fallback
      <4>1. pre <= pre'
        BY <1>1, <3>2
      <4>2. dataPos <= pre' /\ pre' \in Int
        BY <1>1, <3>2, <3>3, <3>4
      <4> QED BY <1>1, <3>1, <3>3, <3>4, <4>2
    <3>5. CASE ~fallback
      <4>1. UNCHANGED <<pre, preDone>>
        BY <3>2, <3>3, <3>5
      <4>2. 0 .. dataPos' - 1 \subseteq written'
        BY <1>1, <3>1, <3>3, <3>5
      <4> QED BY <3>1, <3>3, <3>5, <4>1, <4>2
    <3> QED BY <3>4, <3>5
  <2>2. CASE \/ LoopOpens \/ LoopResumes \/ LoopSplits \/ LoopLaunches \/ PauseEnds \/ Restart
    BY <2>2 DEF LoopOpens, LoopResumes, LoopSplits, LoopLaunches, PauseEnds, Restart
  <2>3. CASE \E c \in Conn : Work(c) \/ Fails(c)
    BY <2>3, WorkerIsActive DEF loopVars
  <2> QED BY <1>3, <2>1, <2>2, <2>3, StepCases
<1> QED BY <1>2, <1>3

\* A worker takes the fallback only from a failed request.
LEMMA PrimaryWorks ==
  ASSUME IInv, NEW c \in Conn, Work(c),
         ~(FallbackCompletes(c) \/ FallbackFails(c) \/ FallbackCancelled(c)),
         conn[c].pc # "fallback"
  PROVE  conn'[c].pc # "fallback"
<1>1. conn \in [Conn -> Worker]
  BY Types DEF TypeOK
<1>2. ASSUME NEW w, Outcome(c, w), w.pc # "fallback"
      PROVE  conn'[c].pc # "fallback"
  BY <1>1, <1>2 DEF Outcome
<1>3. CASE Cancelled(c) \/ NothingLeft(c) \/ WakeUp(c)
  <2>1. PICK p \in {"request", "help", "exit"} : conn' = [conn EXCEPT ![c] = At(c, p)]
    BY <1>3 DEF Cancelled, NothingLeft, WakeUp, Become, At
  <2>2. conn'[c].pc = p
    BY <1>1, <2>1, WorkerRecord
  <2> QED BY <2>2
<1>4. CASE (\E n \in 1 .. Buf : Claim(c, n)) \/ Put(c)
  <2>1. conn' = conn
    BY <1>4 DEF Claim, Put
  <2> QED BY <2>1
<1>5. CASE ResponseOk(c)
  BY <1>2, <1>5, ResponseOutcome
<1>6. CASE Count(c)
  BY <1>1, <1>6 DEF Count, Become, Worker
<1>7. CASE \E v \in Conn : Helps(c, v)
  BY <1>1, <1>7 DEF Helps, Become, Worker
<1>8. CASE Completes(c)
  BY <1>1, <1>8 DEF Completes, Become, Worker
<1> QED BY <1>3, <1>4, <1>5, <1>6, <1>7, <1>8 DEF Work

\* When Pause has ended nothing is held, and nothing after a restart.
LEMMA NothingHeld == ASSUME IInv, PauseEnds \/ Restart PROVE ~Held'
<1>1. CASE PauseEnds
  <2>1. conn[Primary].pc # "fallback" /\ Primary \in Conn
    BY <1>1, Types, NobodyWorks DEF PauseEnds, Active
  <2>2. conn'[Primary].pc # "fallback"
    BY <1>1, <2>1, PauseConns
  <2>3. preDone' /\ pre' = 0 /\ ~fallback'
    BY <1>1 DEF PauseEnds
  <2> QED BY <2>2, <2>3 DEF Held
<1>2. CASE Restart
  <2>1. conn'[Primary].pc # "fallback"
    BY <1>2, Types, RestartConns
  <2>2. ~fallback' /\ preDone' /\ pre' = 0
    BY <1>2 DEF Restart
  <2> QED BY <2>1, <2>2 DEF Held
<1> QED BY <1>1, <1>2

\* What is held is let go for good: by no step but Restart, which holds nothing, does a
\* response come back.
LEMMA LetGo ==
  ASSUME IInv, [Next]_vars, ~Held
  PROVE  ~Held'
<1>1. /\ ~fallback /\ preDone /\ pre = 0 /\ conn[Primary].pc # "fallback" /\ Primary \in Conn
  BY HeldFacts DEF Held
<1>2. CASE Control
  <2>1. UNCHANGED <<conn, fallback>>
    BY <1>2, ControlKeeps
  <2>2. pre' = 0 /\ preDone'
    BY <1>1, <1>2 DEF Control, PrefetchRead, PrefetchEnds, LoopAlreadyDone, LoopExpands,
       LoopCancelled, LoopUnlocks, LoopCompletes, WaitReturns, PauseBegins, vars, preVars
  <2> QED BY <1>1, <2>1, <2>2 DEF Held
<1>3. CASE Start
  <2>1. conn'[Primary].pc # "fallback"
    BY <1>1, <1>3, StartConns
  <2>2. ~fallback' /\ preDone' /\ pre' = 0
    BY <1>1, <1>3 DEF Start, CopyPrefix
  <2> QED BY <1>1, <2>1, <2>2 DEF Held
<1>4. CASE LoopOpens \/ LoopResumes \/ LoopSplits \/ LoopLaunches \/ Save
  <2>1. conn'[Primary].pc # "fallback"
    BY <1>1, <1>4, OpenConns, LaunchConns, SplitConns DEF Save
  <2>2. UNCHANGED <<fallback, preDone, pre>>
    BY <1>4 DEF LoopOpens, LoopResumes, LoopSplits, LoopLaunches, Save, preVars
  <2> QED BY <1>1, <2>1, <2>2 DEF Held
<1>5. CASE PauseEnds \/ Restart
  BY <1>5, NothingHeld
<1>7. ASSUME NEW c \in Conn, Work(c)
      PROVE  ~Held'
  <2>1. ~fallback' /\ preDone' /\ pre' = 0
    <3>1. CASE ResponseOk(c)
      BY <1>1, <3>1 DEF ResponseOk, CopyPrefix
    <3>2. CASE FallbackCompletes(c)
      BY <1>1, <3>2 DEF FallbackCompletes
    <3>3. CASE FallbackFails(c)
      BY <1>1, <3>3 DEF FallbackFails
    <3>4. CASE ~(ResponseOk(c) \/ FallbackCompletes(c) \/ FallbackFails(c))
      <4>1. UNCHANGED preVars
        BY <1>7, <3>4 DEF Work, Cancelled, NothingLeft, FallbackCancelled, WakeUp, Claim, Put,
           Count, Helps, Completes
      <4> QED BY <1>1, <4>1 DEF preVars
    <3> QED BY <3>1, <3>2, <3>3, <3>4
  <2>2. CASE c # Primary
    <3>1. conn'[Primary] = conn[Primary]
      BY <1>1, <1>7, <2>2, WorkerFrame
    <3> QED BY <1>1, <2>1, <3>1 DEF Held
  <2>3. CASE c = Primary
    <3>1. ~(FallbackCompletes(c) \/ FallbackFails(c) \/ FallbackCancelled(c))
      BY <1>1, <2>3 DEF FallbackCompletes, FallbackFails, FallbackCancelled
    <3>2. conn'[c].pc # "fallback"
      BY <1>1, <1>7, <2>3, <3>1, PrimaryWorks
    <3> QED BY <2>1, <2>3, <3>2 DEF Held
  <2> QED BY <2>2, <2>3
<1>8. ASSUME NEW c \in Conn, Fails(c)
      PROVE  ~Held'
  <2>1. PICK w : Outcome(c, w) /\ w.pc \in {"sleep", "exit"}
    <3>1. CASE \E kind \in FaultKind : RequestFails(c, kind)
      BY <1>1, <3>1, RequestFailsOutcome
    <3>2. CASE ~\E kind \in FaultKind : RequestFails(c, kind)
      BY <1>8, <3>2, FailingOutcome DEF Fails
    <3> QED BY <3>1, <3>2
  <2>2. UNCHANGED <<preDone, pre>> /\ ~fallback'
    <3>1. CASE \E kind \in FaultKind : RequestFails(c, kind)
      <4>1. UNCHANGED <<preDone, pre>>
        BY <3>1 DEF RequestFails
      <4>2. fallback' = FALSE \/ fallback' = fallback
        BY <3>1 DEF RequestFails
      <4> QED BY <1>1, <4>1, <4>2
    <3>2. CASE BodyBreaks(c) \/ \E k \in 0 .. Buf : PutFails(c, k)
      <4>1. UNCHANGED preVars
        BY <3>2 DEF PutFails, BodyBreaks
      <4> QED BY <1>1, <4>1 DEF preVars
    <3> QED BY <1>8, <3>1, <3>2 DEF Fails
  <2>3. conn'[Primary].pc # "fallback"
    BY <1>1, <2>1, Types DEF Outcome, TypeOK
  <2> QED BY <1>1, <2>2, <2>3 DEF Held
<1> QED
  BY <1>2, <1>3, <1>4, <1>5, <1>7, <1>8, StepCases

LEMMA HeldControl ==
  ASSUME IInv, Control, Held, live # {}
  PROVE  PrimaryWaits'
<1>1. PrimaryWaits /\ pre \in Nat /\ dataPos \in Nat
  BY HeldFacts
<1>2. /\ live = {Primary} /\ range /\ state = "slowStart"
      /\ chunk[Primary] = NewChunk(dataPos, Size - 1) /\ dataPos < Size /\ dataPos <= pre
      /\ conn[Primary].total = dataPos /\ flight[Primary] = 0 /\ batch = {}
      /\ conn[Primary].pc \in {"request", "sleep", "fallback", "exit"}
      /\ loop \in {"select", "wait", "none"}
      /\ conn[Primary].st # "completed"
      /\ ~(fallback /\ conn[Primary].pc = "fallback")
  BY <1>1 DEF PrimaryWaits
<1>3. /\ fallback \/ conn[Primary].pc = "fallback" => loop # "wait" /\ ~ss.signal
      /\ ~(fallback \/ conn[Primary].pc = "fallback") => cancelled /\ conn[Primary].st = "failed"
  BY <1>1 DEF PrimaryWaits
<1>4. UNCHANGED <<live, batch, conn, chunk, flight, fallback, dataPos, range>>
  BY ControlKeeps
<1>5. pre' = pre \/ pre' = pre + 1
  BY DEF Control, PrefetchRead, PrefetchEnds, LoopAlreadyDone, LoopExpands,
     LoopCancelled, LoopUnlocks, LoopCompletes, WaitReturns, PauseBegins, vars, preVars
<1>6. dataPos' <= pre'
  BY <1>1, <1>2, <1>4, <1>5
<1>7. ASSUME state' = state, loop' \in {"select", "wait", "none"},
             fallback \/ conn[Primary].pc = "fallback" => loop' # "wait" /\ ~ss'.signal,
             cancelled => cancelled'
      PROVE  PrimaryWaits'
  <2>1. IF fallback' \/ conn'[Primary].pc = "fallback"
        THEN loop' # "wait" /\ ~ss'.signal
        ELSE cancelled' /\ conn'[Primary].st = "failed"
    BY <1>3, <1>4, <1>7
  <2>2. /\ conn'[Primary].pc \in {"request", "sleep", "fallback", "exit"}
        /\ conn'[Primary].st # "completed" /\ conn'[Primary].total = dataPos'
        /\ ~(fallback' /\ conn'[Primary].pc = "fallback")
    BY <1>2, <1>4
  <2>3. /\ live' = {Primary} /\ range' /\ state' = "slowStart"
        /\ chunk'[Primary] = NewChunk(dataPos', Size - 1) /\ dataPos' < Size
        /\ flight'[Primary] = 0 /\ batch' = {}
    BY <1>2, <1>4, <1>7
  <2> QED BY <1>6, <1>7, <2>1, <2>2, <2>3 DEF PrimaryWaits
<1>8. CASE PrefetchRead \/ PrefetchEnds \/ WaitReturns \/ PauseBegins \/ UNCHANGED vars
  <2>1. /\ UNCHANGED <<state, loop, ss>> /\ (cancelled => cancelled')
    BY <1>8 DEF PrefetchRead, PrefetchEnds, WaitReturns, PauseBegins, vars, loopVars
  <2> QED BY <1>2, <1>3, <1>7, <2>1
<1>9. CASE LoopExpands
  <2>1. ss.signal /\ cancelled' = cancelled /\ loop = "select"
    BY <1>9 DEF LoopExpands
  <2>2. ~(fallback \/ conn[Primary].pc = "fallback") /\ conn[Primary].st = "failed"
    BY <1>3, <2>1
  <2>3. checkCompletion
    BY <1>2, <2>2 DEF checkCompletion
  <2>4. state' = state /\ loop' = "wait"
    BY <1>2, <1>9, <2>3 DEF LoopExpands
  <2> QED BY <1>7, <2>1, <2>2, <2>4
<1>10. CASE LoopCancelled
  <2>1. state' = state /\ loop' = "none" /\ UNCHANGED <<cancelled, ss>>
    BY <1>10 DEF LoopCancelled
  <2> QED BY <1>3, <1>7, <2>1
<1>11. CASE LoopCompletes
  <2>1. loop = "wait" /\ loop' = "none" /\ UNCHANGED <<cancelled, ss>>
    BY <1>11 DEF LoopCompletes
  <2>2. ~(fallback \/ conn[Primary].pc = "fallback") /\ cancelled
    BY <1>3, <2>1
  <2>3. state' = state
    BY <1>11, <2>2 DEF LoopCompletes
  <2> QED BY <1>7, <2>1, <2>2, <2>3
<1>12. ~LoopAlreadyDone /\ ~LoopUnlocks
  BY <1>2 DEF LoopAlreadyDone, LoopUnlocks
<1> QED BY <1>8, <1>9, <1>10, <1>11, <1>12 DEF Control

\* The connection that is opened waits for the response of Resolve, if it is still there.
LEMMA HeldOpens == ASSUME IInv, LoopOpens, Held' PROVE PrimaryWaits'
<1>1. /\ loop = "start" /\ live = {} /\ dataPos < Size /\ live' = {Primary}
      /\ chunk' = [chunk EXCEPT ![Primary] = NewChunk(dataPos, Size - 1)]
      /\ ss' = commitBatch(ss, 1) /\ loop' = "select"
      /\ UNCHANGED <<state, batch, flight, pre, preDone, fallback, dataPos, range>>
  BY DEF LoopOpens, preVars
<1>2. /\ conn'[Primary].pc = "request" /\ conn'[Primary].st = "connecting"
      /\ conn'[Primary].total = dataPos
  BY OpenConns
<1>3. fallback
  <2>1. \/ fallback \/ (~fallback /\ pre = 0 /\ preDone)
    BY <1>1 DEF IInv, FInv, CopiedBeforeOpen
  <2> QED BY <1>1, <1>2, <2>1 DEF Held
<1>4. dataPos <= pre
  BY <1>1, <1>3 DEF IInv, FInv, CopiedBeforeOpen
<1>5. /\ state = "slowStart" /\ ss = NewSlowStart /\ range
  BY <1>1, Types DEF IInv, FInv, LoopIsSound, RangeIsKept
<1>6. ~ss'.signal
  <2>1. 1 \in 0 .. MaxConns /\ ss \in SlowStart /\ ss.signal = FALSE
    BY <1>5, SlowStartTypes DEF NewSlowStart
  <2>2. ss'.signal = ss.signal
    BY <1>1, <2>1, SlowStartTypes
  <2> QED BY <2>1, <2>2
<1>7. flight[Primary] = 0
  BY <1>1, Types DEF ChunksAreSound
<1>8. batch = {}
  BY <1>1, Types DEF TypeOK
<1>9. chunk'[Primary] = NewChunk(dataPos, Size - 1)
  BY <1>1, Types DEF ChunksAreSound
<1> QED
  BY <1>1, <1>2, <1>3, <1>4, <1>5, <1>6, <1>7, <1>8, <1>9 DEF PrimaryWaits

LEMMA HeldWorker ==
  ASSUME IInv, NEW c \in Conn, Work(c) \/ Fails(c), Held, Held'
  PROVE  PrimaryWaits'
<1>1. PrimaryWaits /\ pre \in Nat /\ dataPos \in Nat /\ c \in live
  BY HeldFacts, WorkerIsActive
<1>2. /\ live = {Primary} /\ c = Primary /\ range /\ state = "slowStart"
      /\ chunk[Primary] = NewChunk(dataPos, Size - 1) /\ dataPos < Size /\ dataPos <= pre
      /\ conn[Primary].total = dataPos /\ flight[Primary] = 0 /\ batch = {}
      /\ conn[Primary].pc \in {"request", "sleep", "fallback", "exit"}
      /\ loop \in {"select", "wait", "none"}
      /\ conn[Primary].st # "completed"
      /\ ~(fallback /\ conn[Primary].pc = "fallback")
  BY <1>1 DEF PrimaryWaits
<1>3. /\ fallback \/ conn[Primary].pc = "fallback" => loop # "wait" /\ ~ss.signal
      /\ ~(fallback \/ conn[Primary].pc = "fallback") => cancelled /\ conn[Primary].st = "failed"
  BY <1>1 DEF PrimaryWaits
<1>4. /\ remain(chunk[Primary]) > 0 /\ ~put[Primary] /\ conn \in [Conn -> Worker]
  BY <1>1, <1>2, Types DEF remain, NewChunk, ChunksAreSound, TypeOK
<1>5. UNCHANGED <<state, loop, batch, live, cancelled>>
  BY WorkerIsActive DEF loopVars
<1>6. ASSUME NEW w, conn'[Primary] = w, w.total = dataPos,
             w.pc \in {"request", "sleep", "fallback", "exit"}, w.st # "completed",
             UNCHANGED <<chunk, flight, dataPos, range, pre>>,
             ~(fallback' /\ w.pc = "fallback"),
             IF fallback' \/ w.pc = "fallback" THEN loop # "wait" /\ ~ss'.signal
             ELSE cancelled /\ w.st = "failed"
      PROVE  PrimaryWaits'
  BY <1>2, <1>5, <1>6 DEF PrimaryWaits
<1>7. CASE Cancelled(c) \/ WakeUp(c)
  <2>1. PICK p \in {"exit", "request"} : conn' = [conn EXCEPT ![c] = At(c, p)]
    BY <1>7 DEF Cancelled, WakeUp, Become, At
  <2> DEFINE w == At(c, p)
  <2>2. /\ conn'[Primary] = w /\ w.pc = p /\ w.total = dataPos /\ w.st = conn[Primary].st
    BY <1>2, <1>4, <2>1, WorkerRecord
  <2> HIDE DEF w
  <2>3. UNCHANGED <<chunk, flight, dataPos, range, pre, fallback, ss>>
    BY <1>7 DEF Cancelled, WakeUp, preVars
  <2>4. conn[Primary].pc # "fallback"
    BY <1>2, <1>7 DEF Cancelled, WakeUp
  <2> QED BY <1>2, <1>3, <1>6, <2>2, <2>3, <2>4
<1>8. CASE FallbackCancelled(c)
  <2>1. PICK w : Outcome(c, w) /\ w.total = conn[c].total /\ w.st = "failed"
                 /\ w.pc \in {"sleep", "exit"}
    BY <1>8, FailingOutcome
  <2>2. conn'[Primary] = w
    BY <1>2, <1>4, <2>1 DEF Outcome
  <2>3. /\ UNCHANGED <<chunk, flight, dataPos, range, pre, fallback>>
        /\ cancelled /\ conn[Primary].pc = "fallback"
    BY <1>2, <1>8 DEF FallbackCancelled, preVars
  <2>4. ~fallback
    BY <1>2, <2>3
  <2> QED BY <1>2, <1>6, <2>1, <2>2, <2>3, <2>4
<1>9. CASE \E kind \in FaultKind : RequestFails(c, kind)
  <2>1. PICK w : /\ Outcome(c, w) /\ w.total = conn[c].total
                 /\ w.st = conn[c].st \/ w.st = "failed"
                 /\ \/ w.pc \in {"sleep", "exit"} /\ fallback' = fallback
                    \/ w.pc = "fallback" /\ c = Primary /\ fallback /\ ~fallback'
                       /\ ss' = ss
                 /\ c = Primary /\ fallback /\ fallback' => w.pc = "sleep" /\ ss' = ss
    BY <1>9, RequestFailsOutcome
  <2>2. conn'[Primary] = w
    BY <1>2, <1>4, <2>1 DEF Outcome
  <2>3. UNCHANGED <<chunk, flight, dataPos, range, pre>> /\ ~cancelled
    BY <1>9 DEF RequestFails
  <2>4. conn[Primary].pc = "request"
    BY <1>2, <1>9 DEF RequestFails
  <2>5. fallback /\ loop # "wait" /\ ~ss.signal
    BY <1>3, <2>3, <2>4
  <2>6. /\ w.pc \in {"sleep", "exit", "fallback"} /\ ss' = ss
        /\ fallback' \/ w.pc = "fallback"
        /\ ~(fallback' /\ w.pc = "fallback")
    BY <1>2, <2>1, <2>5
  <2>7. w.total = dataPos /\ w.st # "completed" /\ w.pc \in {"request", "sleep", "fallback", "exit"}
    BY <1>2, <2>1, <2>6
  <2> QED BY <1>6, <2>2, <2>3, <2>5, <2>6, <2>7
<1>10. CASE ResponseOk(c)
  <2>1. PICK w : Outcome(c, w) /\ w.pc = "body"
    BY <1>10, ResponseOutcome
  <2>2. conn'[Primary] = w
    BY <1>2, <1>4, <2>1 DEF Outcome
  <2>3. fallback
    BY <1>2, <1>3, <1>10 DEF ResponseOk
  <2>4. CopyPrefix
    BY <1>2, <1>10, <2>3 DEF ResponseOk
  <2>5. ~Held'
    BY <2>1, <2>2, <2>4 DEF CopyPrefix, Held
  <2> QED BY <2>5
<1>11. CASE FallbackCompletes(c)
  <2>1. PICK w : Outcome(c, w) /\ w.st = "completed"
    BY <1>11, FallbackOutcome
  <2>2. conn'[Primary] = w /\ w.pc = "exit"
    BY <1>2, <1>4, <2>1 DEF Outcome
  <2>3. preDone' /\ pre' = 0 /\ ~fallback'
    BY <1>2, <1>11 DEF FallbackCompletes
  <2>4. ~Held'
    BY <2>2, <2>3 DEF Held
  <2> QED BY <2>4
<1>12. CASE FallbackFails(c)
  <2>1. PICK w : Outcome(c, w) /\ w.pc \in {"sleep", "exit"}
    BY <1>12, FailingOutcome
  <2>2. conn'[Primary] = w
    BY <1>2, <1>4, <2>1 DEF Outcome
  <2>3. preDone' /\ pre' = 0 /\ ~fallback'
    BY <1>2, <1>12 DEF FallbackFails
  <2>4. ~Held'
    BY <2>1, <2>2, <2>3 DEF Held
  <2> QED BY <2>4
<1>13. /\ ~Put(c) /\ ~Count(c) /\ ~Completes(c) /\ ~BodyBreaks(c) /\ ~NothingLeft(c)
       /\ \A n : ~Claim(c, n)
       /\ \A v : ~Helps(c, v)
       /\ \A k \in 0 .. Buf : ~PutFails(c, k)
  <2>1. flight[c] = 0 /\ ~put[c] /\ remain(chunk[c]) > 0 /\ conn[c].pc \notin {"body", "help"}
    BY <1>2, <1>4
  <2>2. ~Put(c) /\ ~Count(c)
    BY <2>1 DEF Put, Count
  <2>3. ~Completes(c) /\ ~BodyBreaks(c)
    BY <2>1 DEF Completes, BodyBreaks
  <2>4. ~NothingLeft(c)
    <3>1. remain(chunk[c]) \in Int
      BY <1>2, HeldFacts DEF remain, NewChunk
    <3>2. NothingLeft(c) => remain(chunk[c]) <= 0
      BY DEF NothingLeft
    <3> QED BY <2>1, <3>1, <3>2
  <2>5. \A n : ~Claim(c, n)
    BY <2>1 DEF Claim
  <2>6. \A v : ~Helps(c, v)
    BY <2>1 DEF Helps
  <2>7. \A k \in 0 .. Buf : ~PutFails(c, k)
    BY <2>1 DEF PutFails
  <2> QED BY <2>2, <2>3, <2>4, <2>5, <2>6, <2>7
<1> QED
  BY <1>7, <1>8, <1>9, <1>10, <1>11, <1>12, <1>13 DEF Work, Fails

LEMMA HeldNext == ASSUME IInv, [Next]_vars PROVE HeldByPrimary'
<1>1. (Held /\ live # {} => PrimaryWaits) /\ (state = "paused" => ~Held)
  BY DEF IInv, FInv, HeldByPrimary
<1>2. ASSUME state' = "paused" PROVE ~Held'
  <2>1. CASE PauseEnds \/ Restart
    BY <2>1, NothingHeld
  <2>2. CASE ~(PauseEnds \/ Restart)
    <3>1. state = "paused"
      <4>1. CASE Control
        BY <1>2, <4>1 DEF Control, PrefetchRead, PrefetchEnds, LoopAlreadyDone, LoopExpands,
           LoopCancelled, LoopUnlocks, LoopCompletes, WaitReturns, PauseBegins, vars, loopVars
      <4>2. CASE Start \/ LoopOpens \/ LoopResumes \/ LoopSplits \/ LoopLaunches \/ Save
        BY <1>2, <4>2
        DEF Start, LoopOpens, LoopResumes, LoopSplits, LoopLaunches, Save, loopVars
      <4>3. CASE \E c \in Conn : Work(c) \/ Fails(c)
        BY <1>2, <4>3, WorkerFrame
      <4> QED BY <2>2, <4>1, <4>2, <4>3, StepCases
    <3> QED BY <1>1, <3>1, LetGo
  <2> QED BY <2>1, <2>2
<1>3. ASSUME Held', live' # {} PROVE PrimaryWaits'
  <2>1. Held
    BY <1>3, LetGo
  <2>2. CASE Control
    <3>1. live # {}
      BY <1>3, <2>2, ControlKeeps
    <3> QED BY <2>1, <2>2, <3>1, HeldControl
  <2>3. CASE Start
    <3>1. live # {} /\ state # "slowStart"
      BY <1>3, <2>3 DEF Start
    <3> QED BY <1>1, <2>1, <3>1 DEF PrimaryWaits
  <2>4. CASE LoopOpens
    BY <1>3, <2>4, HeldOpens
  <2>5. CASE LoopResumes \/ LoopSplits \/ LoopLaunches
    <3>1. live # {} /\ loop \in {"start", "split", "launch"}
      BY <2>5 DEF LoopResumes, LoopSplits, LoopLaunches, IInv, FInv, ConnsInOrder
    <3> QED BY <1>1, <2>1, <3>1 DEF PrimaryWaits
  <2>6. CASE PauseEnds \/ Restart
    BY <1>3, <2>6, NothingHeld
  <2>7. CASE Save
    <3>1. UNCHANGED <<loopVars, ss, conn, chunk, flight, preVars>>
      BY <2>7 DEF Save
    <3>2. live # {}
      BY <1>3, <3>1 DEF loopVars
    <3> QED BY <1>1, <2>1, <3>1, <3>2 DEF PrimaryWaits, loopVars, preVars
  <2>8. CASE \E c \in Conn : Work(c) \/ Fails(c)
    BY <1>3, <2>1, <2>8, HeldWorker
  <2> QED
    BY <2>2, <2>3, <2>4, <2>5, <2>6, <2>7, <2>8, StepCases
<1> QED BY <1>2, <1>3 DEF HeldByPrimary

-----------------------------------------------------------------------------
(* The counters.                                                           *)

Totals == [c \in Conn |-> conn[c].total]
Rests == [c \in Conn |-> remain(chunk[c])]

\* The terms of the two sums, before a step and after it.
LEMMA Terms ==
  ASSUME IInv
  PROVE  /\ live \subseteq Conn /\ IsFiniteSet(live)
         /\ \A c \in live : /\ Totals[c] \in Nat /\ Totals[c] = conn[c].total
                            /\ Rests[c] \in Nat /\ Rests[c] = remain(chunk[c])
         /\ live # {} => Sum(live, Totals) + Sum(live, Rests) = Size
<1>1. /\ live \subseteq Conn /\ IsFiniteSet(live) /\ conn \in [Conn -> Worker]
      /\ \A c \in live : chunk[c] \in Chunk /\ 0 <= flight[c] /\ flight[c] <= remain(chunk[c])
                         /\ flight[c] \in 0 .. Buf
  BY Types DEF TypeOK, ChunksAreSound
<1>2. \A c \in live : /\ Totals[c] \in Nat /\ Totals[c] = conn[c].total
                      /\ Rests[c] \in Nat /\ Rests[c] = remain(chunk[c])
  BY <1>1 DEF Totals, Rests, Worker, Chunk, remain
<1>3. CountersMatchChunks
  BY DEF IInv, FInv, FetcherIsConsistent
<1> QED BY <1>1, <1>2, <1>3 DEF CountersMatchChunks, totalDownloaded, Totals, Rests

LEMMA NextTerms ==
  ASSUME IInv, [Next]_vars
  PROVE  /\ live' \subseteq Conn /\ IsFiniteSet(live')
         /\ \A c \in live' : /\ Totals'[c] \in Nat /\ Totals'[c] = conn'[c].total
                             /\ Rests'[c] \in Nat /\ Rests'[c] = remain(chunk'[c])
         /\ (live' # {} => Sum(live', Totals') + Sum(live', Rests') = Size)
              => CountersMatchChunks'
<1>1. /\ live' \subseteq Conn /\ conn' \in [Conn -> Worker]
      /\ \A c \in live' : /\ chunk'[c] \in Chunk /\ flight'[c] \in 0 .. Buf
                          /\ 0 <= flight'[c] /\ flight'[c] <= remain(chunk'[c])
  BY ChunksNext, TypesNext DEF TypeOK, ChunksAreSound
<1>2. IsFiniteSet(live')
  BY <1>1, FiniteConns
<1>3. \A c \in live' : /\ Totals'[c] \in Nat /\ Totals'[c] = conn'[c].total
                       /\ Rests'[c] \in Nat /\ Rests'[c] = remain(chunk'[c])
  BY <1>1 DEF Totals, Rests, Worker, Chunk, remain
<1> QED BY <1>1, <1>2, <1>3 DEF CountersMatchChunks, totalDownloaded, Totals, Rests

\* A step after which every connection has the same terms.
LEMMA CountersKept ==
  ASSUME IInv, [Next]_vars, live' = live,
         \A c \in live : conn'[c].total = conn[c].total /\ remain(chunk'[c]) = remain(chunk[c])
  PROVE  CountersMatchChunks'
<1>1. \A c \in live : Totals'[c] = Totals[c] /\ Rests'[c] = Rests[c]
  BY Terms, NextTerms
<1>2. Sum(live, Totals') = Sum(live, Totals) /\ Sum(live, Rests') = Sum(live, Rests)
  BY <1>1, SumSame
<1> QED BY <1>2, Terms, NextTerms

\* A step after which the primary is alone.
LEMMA CountersOfOne ==
  ASSUME IInv, [Next]_vars, live' = {Primary},
         conn'[Primary].total + remain(chunk'[Primary]) = Size
  PROVE  CountersMatchChunks'
<1>1. Sum({Primary}, Totals') = conn'[Primary].total
  BY NextTerms, SumOfOne
<1>2. Sum({Primary}, Rests') = remain(chunk'[Primary])
  BY NextTerms, SumOfOne
<1> QED BY <1>1, <1>2, NextTerms

\* A sum of which one term changes.
LEMMA OneTerm ==
  ASSUME IInv, NEW x \in live, NEW g, g[x] \in Nat
  PROVE  /\ (\A d \in live \ {x} : g[d] = Rests[d]) =>
              Sum(live, g) = Sum(live, Rests) - Rests[x] + g[x]
         /\ (\A d \in live \ {x} : g[d] = Totals[d]) =>
              Sum(live, g) = Sum(live, Totals) - Totals[x] + g[x]
<1>1. IsFiniteSet(live) /\ \A d \in live : Rests[d] \in Nat
  BY Terms
<1>2. IsFiniteSet(live) /\ \A d \in live : Totals[d] \in Nat
  BY Terms
<1>3. ASSUME \A d \in live \ {x} : g[d] = Rests[d]
      PROVE  Sum(live, g) = Sum(live, Rests) - Rests[x] + g[x]
  BY <1>1, <1>3, SumChanges
<1>4. ASSUME \A d \in live \ {x} : g[d] = Totals[d]
      PROVE  Sum(live, g) = Sum(live, Totals) - Totals[x] + g[x]
  BY <1>2, <1>4, SumChanges
<1> QED BY <1>3, <1>4

\* What a split does to the chunks: what is left is divided.
LEMMA SplitEffect ==
  ASSUME IInv, LoopSplits
  PROVE  \E n \in Conn \ live, v \in live :
           /\ live' = live \cup {n}
           /\ \A c \in live : conn'[c].total = conn[c].total
           /\ conn'[n].total = 0
           /\ \A c \in live \ {v} : chunk'[c] = chunk[c]
           /\ remain(chunk'[v]) + remain(chunk'[n]) = remain(chunk[v])
<1>1. PICK n \in Conn \ live :
        /\ n = Cardinality(live) /\ live' = live \cup {n} /\ conn'[n] = NoWorker
        /\ \A c \in Conn \ {n} : conn'[c] = conn[c]
  BY SplitConns
<1>2. PICK v \in live : chunk' = SplitChunks(chunk, v, n)
  BY <1>1 DEF LoopSplits
<1>3. chunk \in [Conn -> Chunk] /\ live \subseteq Conn /\ v \in Conn /\ v # n
  BY <1>1, Types DEF ChunksAreSound
<1> DEFINE e == chunk[v].end
           sp == e - remain(chunk[v]) \div 2
<1>4. chunk' = [chunk EXCEPT ![v].end = sp, ![n] = NewChunk(sp + 1, e)]
  BY <1>2 DEF SplitChunks
<1>5. /\ remain(chunk[v]) \in Int /\ e \in Int /\ sp \in Int
      /\ chunk[v].begin \in Int /\ chunk[v].dl \in Int
      /\ remain(chunk[v]) = e - chunk[v].begin + 1 - chunk[v].dl
  BY <1>3 DEF remain, Chunk
<1> HIDE DEF e, sp
<1>6. /\ chunk'[v] = [chunk[v] EXCEPT !.end = sp] /\ chunk'[n] = NewChunk(sp + 1, e)
      /\ \A c \in live \ {v} : chunk'[c] = chunk[c]
  BY <1>1, <1>3, <1>4
<1>7. /\ chunk'[v].end = sp /\ chunk'[v].begin = chunk[v].begin /\ chunk'[v].dl = chunk[v].dl
      /\ chunk'[n].end = e /\ chunk'[n].begin = sp + 1 /\ chunk'[n].dl = 0
  BY <1>3, <1>6 DEF Chunk, NewChunk
<1>8. remain(chunk'[v]) + remain(chunk'[n]) = remain(chunk[v])
  BY <1>5, <1>7 DEF remain
<1> QED BY <1>1, <1>3, <1>6, <1>8, NewWorkers

\* The counters of every connection keep agreeing with its chunk, in memory and in the
\* snapshot.
LEMMA CountersNext ==
  ASSUME IInv, [Next]_vars
  PROVE  CountersMatchChunks' /\ SavedCountersMatch'
<1>1. SavedCountersMatch /\ live \subseteq Conn /\ saved.live \subseteq Conn
  BY Types DEF IInv, FInv, ChunksAreSound
<1>2. SavedCountersMatch'
  <2>1. CASE saved' = saved
    BY <1>1, <2>1 DEF SavedCountersMatch
  <2>2. CASE Save
    <3>1. /\ saved'.live = live /\ saved'.total = Totals
          /\ saved'.chunk = chunk
      BY <2>2 DEF Save, SnapshotChunks, Totals
    <3> QED BY <3>1, Terms DEF SavedCountersMatch, Rests
  <2> QED BY <2>1, <2>2, SavedNext
<1> SUFFICES CountersMatchChunks'
  BY <1>2
<1>3. CASE Control \/ Start \/ LoopResumes \/ LoopLaunches \/ Save
  <2>1. live' = live /\ chunk' = chunk
    BY <1>3, ControlKeeps
    DEF Start, LoopResumes, LoopLaunches, Save, loopVars
  <2>2. \A c \in live : conn'[c].total = conn[c].total
    BY <1>1, <1>3, ControlKeeps, StartConns, LaunchConns DEF Save
  <2> QED BY <2>1, <2>2, CountersKept
<1>4. CASE LoopOpens
  <2>1. live' = {Primary} /\ conn'[Primary].total = dataPos
    BY <1>4, OpenConns DEF LoopOpens
  <2>2. chunk'[Primary] = NewChunk(dataPos, Size - 1)
    BY <1>4, Types DEF LoopOpens, ChunksAreSound
  <2>3. remain(chunk'[Primary]) = Size - dataPos
    BY <2>2, HeldFacts DEF NewChunk, remain
  <2>4. conn'[Primary].total + remain(chunk'[Primary]) = Size
    BY <2>1, <2>3, HeldFacts
  <2> QED BY <2>1, <2>4, CountersOfOne
<1>5. CASE LoopSplits
  <2>1. PICK n \in Conn \ live, v \in live :
           /\ live' = live \cup {n}
           /\ \A c \in live : conn'[c].total = conn[c].total
           /\ conn'[n].total = 0
           /\ \A c \in live \ {v} : chunk'[c] = chunk[c]
           /\ remain(chunk'[v]) + remain(chunk'[n]) = remain(chunk[v])
    BY <1>5, SplitEffect
  <2>2. live' \ {n} = live /\ n \in live'
    BY <2>1
  <2>3. /\ \A c \in live : Totals'[c] = Totals[c] /\ Totals'[n] = 0
        /\ \A c \in live \ {v} : Rests'[c] = Rests[c]
        /\ Rests'[v] + Rests'[n] = Rests[v]
    <3>1. \A c \in live' : /\ Totals'[c] = conn'[c].total
                           /\ Rests'[c] = remain(chunk'[c])
      BY NextTerms
    <3>2. \A c \in live : /\ Totals[c] = conn[c].total /\ Rests[c] = remain(chunk[c])
      BY Terms
    <3>3. \A c \in live : /\ c \in live' /\ conn'[c].total = conn[c].total
                          /\ c # v => remain(chunk'[c]) = remain(chunk[c])
      BY <2>1
    <3>4. n \in live' /\ v \in live' /\ v \in live /\ conn'[n].total = 0
      BY <2>1
    <3>5. remain(chunk'[v]) + remain(chunk'[n]) = remain(chunk[v])
      BY <2>1
    <3> QED BY <3>1, <3>2, <3>3, <3>4, <3>5
  <2>4. Sum(live', Totals') = Sum(live, Totals)
    <3>1. Sum(live', Totals') = Sum(live, Totals') + Totals'[n] /\ Sum(live, Totals') \in Nat
      BY <2>2, NextTerms, SumSplit
    <3>2. Sum(live, Totals') = Sum(live, Totals)
      BY <2>3, SumSame
    <3> QED BY <2>3, <3>1, <3>2
  <2>5. Sum(live', Rests') = Sum(live, Rests)
    <3>1. Sum(live', Rests') = Sum(live, Rests') + Rests'[n]
      <4>1. IsFiniteSet(live') /\ \A c \in live' : Rests'[c] \in Nat
        BY NextTerms
      <4>2. Sum(live', Rests') = Sum(live' \ {n}, Rests') + Rests'[n]
        BY <2>2, <4>1, SumSplit
      <4> QED BY <2>2, <4>2
    <3>2. /\ Sum(live, Rests) \in Nat
          /\ Sum(live, Rests') = Sum(live, Rests) - Rests[v] + Rests'[v]
      <4>1. Rests'[v] \in Nat
        BY <2>1, NextTerms
      <4>2. IsFiniteSet(live) /\ v \in live /\ \A c \in live : Rests[c] \in Nat
        BY Terms
      <4>3. Sum(live, Rests) \in Nat
        BY <4>2, SumZero
      <4>4. Sum(live, Rests') = Sum(live, Rests) - Rests[v] + Rests'[v]
        BY <2>3, <4>1, <4>2, SumChanges
      <4> QED BY <4>3, <4>4
    <3>3. Rests[v] \in Nat /\ Rests'[v] \in Nat /\ Rests'[n] \in Nat
      BY <2>1, Terms, NextTerms
    <3> QED BY <2>3, <3>1, <3>2, <3>3
  <2> QED BY <2>1, <2>4, <2>5, Terms, NextTerms
<1>6. CASE PauseEnds
  <2>1. live' = live
    BY <1>6 DEF PauseEnds
  <2>2. CASE UNCHANGED <<chunk, conn>>
    BY <2>1, <2>2, CountersKept
  <2>3. CASE ~UNCHANGED <<chunk, conn>>
    <3>1. /\ live = {Primary} /\ conn'[Primary].total = pre
          /\ chunk'[Primary] = NewChunk(pre, Size - 1)
      BY <1>6, <2>3, PauseConns
    <3>2. conn'[Primary].total + remain(chunk'[Primary]) = Size
      BY <3>1, HeldFacts DEF NewChunk, remain
    <3> QED BY <2>1, <3>1, <3>2, CountersOfOne
  <2> QED BY <2>2, <2>3
<1>7. CASE Restart
  <2>1. live' = saved.live /\ chunk' = saved.chunk
    BY <1>7 DEF Restart
  <2>2. \A c \in saved.live : Totals'[c] = saved.total[c]
                              /\ Rests'[c] = [d \in Conn |-> remain(saved.chunk[d])][c]
    BY <1>1, <1>7, <2>1, NextTerms, RestartConns
  <2>3. /\ Sum(live', Totals') = Sum(saved.live, saved.total)
        /\ Sum(live', Rests') = Sum(saved.live, [d \in Conn |-> remain(saved.chunk[d])])
    BY <2>1, <2>2, SumSame
  <2> QED BY <1>1, <2>1, <2>3, NextTerms DEF SavedCountersMatch
<1>8. ASSUME NEW c \in Conn, Work(c) \/ Fails(c)
      PROVE  CountersMatchChunks'
  <2>1. /\ live' = live /\ c \in live
        /\ \A d \in Conn \ {c} : conn'[d] = conn[d]
    BY <1>8, WorkerFrame
  <2>2. ASSUME chunk' = chunk, conn'[c].total = conn[c].total
        PROVE  CountersMatchChunks'
    BY <1>1, <2>1, <2>2, CountersKept
  <2>3. ASSUME NEW w, Outcome(c, w)
        PROVE  conn'[c] = w
    BY <2>3, Types DEF Outcome, TypeOK
  <2>4. CASE Cancelled(c) \/ NothingLeft(c) \/ WakeUp(c)
    <3>1. PICK p \in {"request", "help", "exit"} : conn' = [conn EXCEPT ![c] = At(c, p)]
      BY <2>4 DEF Cancelled, NothingLeft, WakeUp, Become, At
    <3>2. conn'[c].total = conn[c].total
      BY <3>1, WorkerRecord, Types DEF TypeOK
    <3>3. chunk' = chunk
      BY <2>4 DEF Cancelled, NothingLeft, WakeUp
    <3> QED BY <2>2, <3>2, <3>3
  <2>5. CASE (\E n \in 1 .. Buf : Claim(c, n)) \/ Put(c)
    <3>1. conn' = conn /\ chunk' = chunk
      BY <2>5 DEF Claim, Put
    <3> QED BY <2>2, <3>1
  <2>6. CASE FallbackFails(c) \/ FallbackCancelled(c) \/ Fails(c)
    <3>1. \E w : Outcome(c, w) /\ w.total = conn[c].total
      <4>1. CASE \E kind \in FaultKind : RequestFails(c, kind)
        BY <4>1, RequestFailsOutcome
      <4>2. CASE ~\E kind \in FaultKind : RequestFails(c, kind)
        BY <2>6, <4>2, FailingOutcome DEF Fails
      <4> QED BY <4>1, <4>2
    <3>2. chunk' = chunk
      BY <2>6 DEF FallbackFails, FallbackCancelled, Fails, RequestFails, PutFails, BodyBreaks
    <3> QED BY <2>2, <2>3, <3>1, <3>2
  <2>7. CASE Completes(c)
    <3>1. chunk' = chunk
      BY <2>7 DEF Completes
    <3> QED BY <2>2, <2>3, <2>7, <3>1, CompletesOutcome
  <2>8. CASE ResponseOk(c)
    <3>1. PICK w : Outcome(c, w)
                   /\ w.total = IF c = Primary /\ fallback THEN pre ELSE conn[c].total
      BY <2>8, ResponseOutcome
    <3>2. conn'[c] = w
      BY <2>3, <3>1
    <3>3. CASE ~(c = Primary /\ fallback)
      <4>1. chunk' = chunk
        BY <2>8, <3>3 DEF ResponseOk
      <4> QED BY <2>2, <3>1, <3>2, <3>3, <4>1
    <3>4. CASE c = Primary /\ fallback
      <4>1. live = {Primary} /\ chunk[Primary] = NewChunk(dataPos, Size - 1)
        BY <2>1, <3>4, HeldFacts DEF Held, PrimaryWaits
      <4>2. chunk' = [chunk EXCEPT ![Primary].dl = pre - Offset(chunk[Primary])]
        BY <2>8, <3>4 DEF ResponseOk, Overlap
      <4>3. chunk'[Primary].end = Size - 1 /\ chunk'[Primary].begin = dataPos
            /\ chunk'[Primary].dl = pre - dataPos
        <5>1. Offset(chunk[Primary]) = dataPos
          BY <4>1, HeldFacts DEF Offset, NewChunk
        <5>2. chunk'[Primary] = [chunk[Primary] EXCEPT !.dl = pre - dataPos]
          BY <4>2, <5>1, HeldFacts DEF ChunksAreSound
        <5> QED BY <4>1, <5>2 DEF NewChunk
      <4>4. remain(chunk'[Primary]) = Size - pre
        BY <4>3, HeldFacts DEF remain
      <4>5. conn'[Primary].total = pre
        BY <3>1, <3>2, <3>4
      <4>6. conn'[Primary].total + remain(chunk'[Primary]) = Size
        BY <4>4, <4>5, HeldFacts
      <4> QED BY <2>1, <4>1, <4>6, CountersOfOne
    <3> QED BY <3>3, <3>4
  <2>9. CASE FallbackCompletes(c)
    <3>1. PICK w : Outcome(c, w) /\ w.total = Size
      BY <2>9, FallbackOutcome
    <3>2. /\ conn'[c].total = Size /\ c = Primary /\ live = {Primary}
          /\ remain(chunk'[Primary]) = 0
      BY <2>3, <2>9, <3>1, FallbackOutcome
    <3> QED BY <2>1, <3>2, CountersOfOne
  <2>10. CASE Count(c)
    <3>1. /\ conn'[c].total = conn[c].total + flight[c]
          /\ chunk'[c] = [chunk[c] EXCEPT !.dl = @ + flight[c]]
          /\ \A d \in Conn \ {c} : chunk'[d] = chunk[d]
      BY <2>3, <2>10, CountOutcome
    <3>2. /\ chunk[c] \in Chunk /\ flight[c] \in Nat
          /\ Totals'[c] = Totals[c] + flight[c]
      BY <2>1, <3>1, Types, Terms, NextTerms DEF ChunksAreSound
    <3>3. Rests'[c] = Rests[c] - flight[c]
      <4>1. remain(chunk'[c]) = remain(chunk[c]) - flight[c]
        BY <3>1, <3>2 DEF Chunk, remain
      <4> QED BY <2>1, <4>1, Terms, NextTerms
    <3>4. \A d \in live \ {c} : Totals'[d] = Totals[d] /\ Rests'[d] = Rests[d]
      BY <1>1, <2>1, <3>1, Terms, NextTerms
    <3>5. Totals'[c] \in Nat /\ Rests'[c] \in Nat
      BY <2>1, NextTerms
    <3>6. Sum(live, Totals') = Sum(live, Totals) - Totals[c] + Totals'[c]
      <4>1. Totals'[c] \in Nat /\ \A d \in live \ {c} : Totals'[d] = Totals[d]
        BY <3>4, <3>5
      <4> QED BY <2>1, <4>1, OneTerm
    <3>7. Sum(live, Rests') = Sum(live, Rests) - Rests[c] + Rests'[c]
      <4>1. Rests'[c] \in Nat /\ \A d \in live \ {c} : Rests'[d] = Rests[d]
        BY <3>4, <3>5
      <4> QED BY <2>1, <4>1, OneTerm
    <3> Sum(live, Totals) \in Nat /\ Sum(live, Rests) \in Nat
      BY Terms, SumZero
    <3>8. Totals[c] \in Nat /\ Rests[c] \in Nat
      BY <2>1, Terms
    <3>9. Sum(live, Totals') + Sum(live, Rests') = Sum(live, Totals) + Sum(live, Rests)
      BY <3>2, <3>3, <3>5, <3>6, <3>7, <3>8
    <3> QED BY <2>1, <3>9, Terms, NextTerms
  <2>11. ASSUME NEW v \in Conn, Helps(c, v)
         PROVE  CountersMatchChunks'
    <3>1. /\ v \in live /\ c # v /\ remain(chunk[c]) = 0
          /\ \A d \in Conn \ {c, v} : chunk'[d] = chunk[d]
          /\ remain(chunk'[c]) + remain(chunk'[v]) = remain(chunk[v])
      BY <2>11, StealEffect
    <3>2. conn'[c].total = conn[c].total
      BY <2>3, <2>11, HelpsOutcome
    <3>3. \A d \in live : Totals'[d] = Totals[d]
      BY <1>1, <2>1, <3>2, Terms, NextTerms
    <3>4. Sum(live, Totals') = Sum(live, Totals)
      BY <3>3, SumSame
    <3>5. /\ Rests[c] = 0 /\ Rests'[c] + Rests'[v] = Rests[v]
          /\ \A d \in live \ {c, v} : Rests'[d] = Rests[d]
      BY <1>1, <2>1, <3>1, Terms, NextTerms
    <3>6. /\ Rests[v] \in Nat /\ Rests'[c] \in Nat /\ Rests'[v] \in Nat
      BY <2>1, <3>1, Terms, NextTerms
    <3> DEFINE g == [d \in Conn |-> IF d = c THEN Rests'[c] ELSE Rests[d]]
    <3>7. /\ \A d \in live : g[d] = IF d = c THEN Rests'[c] ELSE Rests[d]
          /\ \A d \in live : g[d] \in Nat
      BY <1>1, <3>6, Terms
    <3> HIDE DEF g
    <3>8. /\ Sum(live, Rests) \in Nat /\ Sum(live, g) \in Nat
          /\ Sum(live, g) = Sum(live, Rests) - Rests[c] + g[c]
      <4>1. g[c] \in Nat /\ \A d \in live \ {c} : g[d] = Rests[d]
        BY <2>1, <3>7
      <4>2. IsFiniteSet(live) /\ c \in live /\ \A d \in live : Rests[d] \in Nat
        BY <2>1, Terms
      <4>3. Sum(live, Rests) \in Nat /\ Sum(live, g) \in Nat
        BY <3>7, <4>2, SumZero
      <4>4. Sum(live, g) = Sum(live, Rests) - Rests[c] + g[c]
        BY <2>1, <4>1, OneTerm
      <4> QED BY <4>3, <4>4
    <3>9. Sum(live, Rests') = Sum(live, g) - g[v] + Rests'[v]
      <4>1. \A d \in live \ {v} : Rests'[d] = g[d]
        BY <3>5, <3>7
      <4> QED BY <3>1, <3>6, <3>7, <4>1, Terms, SumChanges
    <3>10. g[c] = Rests'[c] /\ g[v] = Rests[v]
      BY <2>1, <3>1, <3>7
    <3>11. Sum(live, Rests') = Sum(live, Rests)
      BY <3>5, <3>6, <3>8, <3>9, <3>10
    <3> QED BY <2>1, <3>4, <3>11, Terms, NextTerms
  <2> QED
    BY <1>8, <2>4, <2>5, <2>6, <2>7, <2>8, <2>9, <2>10, <2>11 DEF Work
<1> QED
  BY <1>2, <1>3, <1>4, <1>5, <1>6, <1>7, <1>8, StepCases

-----------------------------------------------------------------------------
(* What the fetcher keeps about itself.                                    *)

\* An error is about bytes that are missing: somebody who is not complete has some left.
LEMMA ErrorNext == ASSUME IInv, [Next]_vars PROVE ErrorMeansUnfinished'
<1> SUFFICES ASSUME state' = "error"
             PROVE  \E c \in live' : remain(chunk'[c]) > 0 \/ conn'[c].err = "terminal"
  BY DEF ErrorMeansUnfinished
<1>1. CASE LoopCompletes /\ state # "error"
  <2>1. UNCHANGED <<live, chunk, conn>>
    BY <1>1 DEF LoopCompletes
  <2>2. finalErr
    BY <1>1 DEF LoopCompletes
  <2>3. CASE \E c \in live : conn[c].err = "terminal"
    BY <2>1, <2>3
  <2>4. CASE ~\E c \in live : conn[c].err = "terminal"
    <3>1. ~allChunksComplete
      BY <2>2, <2>4 DEF finalErr
    <3>2. PICK c \in live : needsMoreData(c) /\ conn[c].st # "completed"
      BY <3>1 DEF allChunksComplete
    <3>3. range
      BY <3>2, HeldFacts DEF IInv, FInv, RangeIsKept
    <3>4. remain(chunk[c]) > 0
      BY <3>2, <3>3 DEF needsMoreData
    <3> QED BY <2>1, <3>2, <3>4
  <2> QED BY <2>3, <2>4
<1>2. CASE ~(LoopCompletes /\ state # "error")
  <2>1. state = "error" /\ UNCHANGED <<live, chunk, conn>>
    <3>1. CASE Control
      <4>1. state = "error"
        BY <1>2, <3>1 DEF Control, PrefetchRead, PrefetchEnds, LoopAlreadyDone, LoopExpands,
           LoopCancelled, LoopUnlocks, LoopCompletes, WaitReturns, PauseBegins, vars, loopVars
      <4> QED BY <3>1, <4>1, ControlKeeps
    <3>2. CASE Start \/ PauseEnds \/ Restart
      BY <3>2 DEF Start, PauseEnds, Restart
    <3>3. CASE LoopOpens \/ LoopResumes \/ LoopSplits \/ LoopLaunches
      <4>1. state' = state /\ loop # "none"
        BY <3>3 DEF LoopOpens, LoopResumes, LoopSplits, LoopLaunches
      <4> QED BY <4>1 DEF IInv, FInv, LoopIsSound, Resting
    <3>4. CASE Save
      BY <3>4 DEF Save, loopVars
    <3>5. CASE \E c \in Conn : Work(c) \/ Fails(c)
      BY <3>5, WorkerIsActive DEF loopVars, Resting
    <3> QED BY <3>1, <3>2, <3>3, <3>4, <3>5, StepCases
  <2>2. ErrorMeansUnfinished
    BY DEF IInv, FInv, FetcherIsConsistent
  <2> QED BY <2>1, <2>2 DEF ErrorMeansUnfinished
<1> QED BY <1>1, <1>2

\* The Resolve response is taken over by a primary that is alone.
LEMMA Alone == HeldByPrimary /\ WorkersAreSound /\ live \subseteq Conn => TakeoverIsAlone
  BY DEF HeldByPrimary, Held, PrimaryWaits, WorkersAreSound, TakeoverIsAlone, Primary

\* A cycle has no result before it ends, and begins without one.
LEMMA OwnResultNext == ASSUME IInv, [Next]_vars PROVE OwnResult'
<1> SUFFICES ASSUME loop' # "none" PROVE doneCh' = "empty"
  BY DEF OwnResult
<1>1. OwnResult
  BY DEF IInv, FInv, FetcherIsConsistent
<1>2. CASE Start
  <2>1. state = "resolved" => doneCh = "empty"
    BY DEF IInv, FInv, LoopIsSound
  <2> QED BY <1>2, <2>1 DEF Start, DrainedDoneCh
<1>3. CASE ~Start
  <2>1. \/ loop # "none" /\ doneCh' = doneCh
        \/ doneCh' = "empty"
    <3>1. CASE Control
      BY <3>1 DEF Control, PrefetchRead, PrefetchEnds, LoopAlreadyDone, LoopExpands,
         LoopCancelled, LoopUnlocks, LoopCompletes, WaitReturns, PauseBegins, vars, loopVars
    <3>2. CASE LoopOpens \/ LoopResumes \/ LoopSplits \/ LoopLaunches \/ PauseEnds \/ Save
               \/ Restart
      BY <3>2
      DEF LoopOpens, LoopResumes, LoopSplits, LoopLaunches, PauseEnds, Save, Restart, loopVars
    <3>3. CASE \E c \in Conn : Work(c) \/ Fails(c)
      BY <3>3, WorkerIsActive DEF loopVars
    <3> QED BY <1>3, <3>1, <3>2, <3>3, StepCases
  <2> QED BY <1>1, <2>1 DEF OwnResult
<1> QED BY <1>2, <1>3

LEMMA ConsistentNext == ASSUME IInv, [Next]_vars PROVE FetcherIsConsistent'
<1>1. (HeldByPrimary /\ WorkersAreSound /\ live \subseteq Conn => TakeoverIsAlone)'
  BY Alone, PTL
<1>2. live' \subseteq Conn
  BY TypesNext DEF TypeOK
<1>3. TakeoverIsAlone'
  BY <1>1, <1>2, HeldNext, WorkersNext
<1> QED
  BY <1>3, ErrorNext, CountersNext, OwnResultNext DEF FetcherIsConsistent

-----------------------------------------------------------------------------
(* Budgets under which no byte of a prefix is lost.                        *)

\* What a worker does to the response of Resolve while it is held.
LEMMA HeldWorkerSteps ==
  ASSUME IInv, NEW c \in Conn, Work(c) \/ Fails(c), Held'
  PROVE  /\ UNCHANGED <<pre, preDone, dataPos, state, cancelled>>
         /\ fallback' => fallback
         /\ conn'[Primary].pc = "fallback" =>
              \/ conn[Primary].pc = "fallback"
              \/ fallback /\ \E kind \in budget.kinds : kind \in Errors /\ kind # "exempt"
<1>1. /\ c \in live /\ UNCHANGED <<state, cancelled>> /\ Primary \in Conn
      /\ conn \in [Conn -> Worker] /\ fallback \in BOOLEAN
      /\ \A d \in Conn \ {c} : conn'[d] = conn[d]
  BY WorkerFrame, Types DEF TypeOK
<1>2. ASSUME NEW w, Outcome(c, w)
      PROVE  conn'[c] = w
  BY <1>1, <1>2 DEF Outcome
<1>3. conn[c].pc = "fallback" => c = Primary /\ ~fallback
  <2>1. conn[c].pc = "fallback" => c = Primary
    BY DEF IInv, FInv, WorkersAreSound
  <2>2. ASSUME c = Primary, conn[c].pc = "fallback" PROVE ~fallback
    BY <1>1, <2>2, HeldFacts DEF Held, PrimaryWaits
  <2> QED BY <2>1, <2>2
<1>4. ~(FallbackCompletes(c) \/ FallbackFails(c))
  <2> SUFFICES ASSUME FallbackCompletes(c) \/ FallbackFails(c) PROVE FALSE
    OBVIOUS
  <2>1. preDone' /\ pre' = 0 /\ fallback' = fallback /\ conn[c].pc = "fallback"
    BY DEF FallbackCompletes, FallbackFails
  <2>2. PICK w : Outcome(c, w) /\ w.pc # "fallback"
    <3>1. CASE FallbackCompletes(c)
      <4>1. PICK w : Outcome(c, w) /\ w.st = "completed"
        BY <3>1, FallbackOutcome
      <4> QED BY <4>1 DEF Outcome
    <3>2. CASE FallbackFails(c)
      <4>1. PICK w : Outcome(c, w) /\ w.pc \in {"sleep", "exit"}
        BY <3>2, FailingOutcome
      <4> QED BY <4>1
    <3> QED BY <3>1, <3>2
  <2>3. conn'[Primary].pc # "fallback"
    BY <1>2, <1>3, <2>1, <2>2
  <2> QED BY <1>3, <2>1, <2>3 DEF Held
<1>5. ~(ResponseOk(c) /\ c = Primary /\ fallback)
  <2> SUFFICES ASSUME ResponseOk(c), c = Primary, fallback PROVE FALSE
    OBVIOUS
  <2>1. CopyPrefix
    BY DEF ResponseOk
  <2>2. conn'[Primary].pc = "body"
    BY <1>2, ResponseOutcome
  <2> QED BY <2>1, <2>2 DEF CopyPrefix, Held
<1>6. CASE Work(c)
  <2>1. UNCHANGED preVars
    BY <1>4, <1>5, <1>6
    DEF Work, Cancelled, NothingLeft, ResponseOk, FallbackCancelled, WakeUp, Claim, Put,
        Count, Helps, Completes, preVars
  <2>2. conn'[Primary].pc = "fallback" => conn[Primary].pc = "fallback"
    <3>1. CASE c # Primary
      BY <1>1, <3>1
    <3>2. CASE c = Primary /\ conn[c].pc # "fallback"
      <4>1. ~FallbackCancelled(c)
        BY <3>2 DEF FallbackCancelled
      <4> QED BY <1>4, <1>6, <3>2, <4>1, PrimaryWorks
    <3> QED BY <3>1, <3>2
  <2> QED BY <1>1, <2>1, <2>2 DEF preVars
<1>7. CASE \E kind \in FaultKind : RequestFails(c, kind)
  <2>1. PICK kind \in FaultKind : RequestFails(c, kind)
    BY <1>7
  <2>2. UNCHANGED <<pre, preDone, dataPos>> /\ kind \in budget.kinds /\ kind \in Errors
    BY <2>1 DEF RequestFails, Fault, Errors
  <2>3. fallback' => fallback
    BY <1>1, <2>1 DEF RequestFails
  <2>4. PICK w : /\ Outcome(c, w)
                 /\ \/ w.pc \in {"sleep", "exit"}
                    \/ w.pc = "fallback" /\ c = Primary /\ fallback /\ kind # "exempt"
    BY <2>1, RequestFailsOutcome
  <2>5. conn'[c] = w
    BY <1>2, <2>4
  <2>6. conn'[Primary].pc = "fallback" =>
              \/ conn[Primary].pc = "fallback"
              \/ fallback /\ kind # "exempt"
    BY <1>1, <2>4, <2>5
  <2> QED BY <1>1, <2>2, <2>3, <2>6
<1>8. CASE BodyBreaks(c) \/ \E k \in 0 .. Buf : PutFails(c, k)
  <2>1. UNCHANGED preVars
    BY <1>8 DEF BodyBreaks, PutFails
  <2>2. PICK w : Outcome(c, w) /\ w.pc \in {"sleep", "exit"}
    BY <1>8, FailingOutcome
  <2>3. conn'[Primary].pc = "fallback" => conn[Primary].pc = "fallback"
    BY <1>1, <1>2, <2>2
  <2> QED BY <1>1, <2>1, <2>3 DEF preVars
<1> QED BY <1>6, <1>7, <1>8 DEF Fails

\* And what any step does to it.
LEMMA HeldSteps ==
  ASSUME IInv, [Next]_vars, Held'
  PROVE  /\ Held
         /\ fallback' => fallback
         /\ conn'[Primary].pc = "fallback" =>
              \/ conn[Primary].pc = "fallback"
              \/ fallback /\ \E kind \in budget.kinds : kind \in Errors /\ kind # "exempt"
         /\ \/ UNCHANGED <<pre, preDone>>
            \/ /\ ~preDone' /\ pre' = pre + 1 /\ state' = state
               /\ state = "resolved" => pre < budget.prefix
            \/ /\ pre' = pre
               /\ pre = Size \/ cancelled \/ "prefetch" \in budget.kinds
         /\ dataPos' = dataPos \/ (Start /\ dataPos' = pre)
         /\ state' = "resolved" => state = "resolved"
<1>1. Held /\ Primary \in Conn /\ fallback \in BOOLEAN /\ ~(PauseEnds \/ Restart)
  BY LetGo, NothingHeld, HeldFacts
<1>2. CASE Control
  <2>1. UNCHANGED <<conn, fallback, dataPos>>
    BY <1>2, ControlKeeps
  <2>2. /\ \/ UNCHANGED <<pre, preDone>>
           \/ /\ ~preDone' /\ pre' = pre + 1 /\ state' = state
              /\ state = "resolved" => pre < budget.prefix
           \/ /\ pre' = pre
              /\ pre = Size \/ cancelled \/ "prefetch" \in budget.kinds
        /\ state' = "resolved" => state = "resolved"
    <3>1. CASE PrefetchRead
      BY <3>1 DEF PrefetchRead, loopVars
    <3>2. CASE PrefetchEnds
      BY <3>2 DEF PrefetchEnds, Fault, loopVars
    <3>3. CASE ~(PrefetchRead \/ PrefetchEnds)
      BY <1>2, <3>3 DEF Control, LoopAlreadyDone, LoopExpands,
         LoopCancelled, LoopUnlocks, LoopCompletes, WaitReturns, PauseBegins, vars, loopVars,
         preVars
    <3> QED BY <3>1, <3>2, <3>3
  <2> QED BY <1>1, <2>1, <2>2
<1>3. CASE Start
  <2>1. WorkersGone
    BY <1>3 DEF Start, IInv, FInv, LoopIsSound, Resting
  <2>2. conn'[Primary].pc # "fallback"
    BY <1>1, <1>3, <2>1, NobodyWorks, StartConns DEF Active
  <2>3. ~CopyPrefix
    BY <2>2 DEF CopyPrefix, Held
  <2>4. UNCHANGED <<pre, preDone, fallback>>
    BY <1>3, <2>3 DEF Start
  <2>5. dataPos' \in {pre, dataPos} /\ state' = "slowStart"
    BY <1>3 DEF Start
  <2> QED BY <1>1, <1>3, <2>2, <2>4, <2>5
<1>4. CASE LoopOpens \/ LoopResumes \/ LoopSplits \/ LoopLaunches \/ Save
  <2>1. UNCHANGED preVars /\ state' = state
    BY <1>4 DEF LoopOpens, LoopResumes, LoopSplits, LoopLaunches, Save, loopVars
  <2>2. conn'[Primary].pc = "fallback" => conn[Primary].pc = "fallback"
    BY <1>1, <1>4, OpenConns, LaunchConns, SplitConns DEF Save
  <2> QED BY <1>1, <2>1, <2>2 DEF preVars
<1>5. CASE \E c \in Conn : Work(c) \/ Fails(c)
  BY <1>1, <1>5, HeldWorkerSteps
<1> QED BY <1>1, <1>2, <1>3, <1>4, <1>5, StepCases

\* Only Pause cancels.
LEMMA PauseCancels ==
  ASSUME IInv, [Next]_vars
  PROVE  cancelled' => cancelled \/ budget.pauses > 0
<1>1. cancelled \in BOOLEAN
  BY Types DEF TypeOK
<1>2. CASE Control
  BY <1>1, <1>2 DEF Control, PrefetchRead, PrefetchEnds, LoopAlreadyDone, LoopExpands,
     LoopCancelled, LoopUnlocks, LoopCompletes, WaitReturns, PauseBegins, vars, loopVars
<1>3. CASE Start \/ LoopOpens \/ LoopResumes \/ LoopSplits \/ LoopLaunches \/ PauseEnds
           \/ Save \/ Restart
  BY <1>1, <1>3
  DEF Start, LoopOpens, LoopResumes, LoopSplits, LoopLaunches, PauseEnds, Save, Restart,
      loopVars
<1>4. CASE \E c \in Conn : Work(c) \/ Fails(c)
  BY <1>1, <1>4, WorkerFrame
<1> QED BY <1>2, <1>3, <1>4, StepCases

LEMMA PrefixNext ==
  ASSUME IInv, PrefixIsKept, [Next]_vars
  PROVE  PrefixIsKept'
<1>1. /\ budget'.kinds = budget.kinds /\ budget'.prefix = budget.prefix
      /\ budget.prefix \in Nat
      /\ budget.restarts = 0 => budget'.restarts = 0
      /\ budget.pauses = 0 => budget'.pauses = 0 /\ ~(budget.pauses > 0)
  BY BudgetStep DEF Budget
<1>2. KeepsPrefix(budget)'
  BY <1>1 DEF PrefixIsKept, KeepsPrefix
<1>3. pre \in 0 .. Size /\ pre' \in 0 .. Size
  BY HeldFacts, FileNext
<1>4. ASSUME budget.prefix = 0, Held'
      PROVE  dataPos' = 0 /\ (state' = "resolved" => pre' = 0)
  <2>1. Held /\ dataPos = 0 /\ (state = "resolved" => pre = 0)
    BY <1>4, HeldSteps DEF PrefixIsKept
  <2>2. dataPos' = 0
    <3>1. CASE Start
      <4>1. state \in {"resolved", "paused", "error"}
        BY <3>1 DEF Start
      <4>2. state # "paused"
        BY <2>1 DEF IInv, FInv, HeldByPrimary
      <4>3. state # "error"
        <5>1. state = "error" => live # {}
          BY DEF IInv, FInv, FetcherIsConsistent, ErrorMeansUnfinished
        <5> QED BY <2>1, <5>1, HeldFacts DEF PrimaryWaits
      <4> QED BY <1>4, <2>1, <4>1, <4>2, <4>3, HeldSteps
    <3> QED BY <1>4, <2>1, <3>1, HeldSteps
  <2>3. ASSUME state' = "resolved" PROVE pre' = 0
    <3>1. state = "resolved" /\ pre = 0
      BY <1>4, <2>1, <2>3, HeldSteps
    <3> QED BY <1>3, <1>4, <3>1, HeldSteps
  <2> QED BY <2>2, <2>3
<1>5. ASSUME budget.prefix > 0
      PROVE  \/ budget.kinds \subseteq {"exempt", "disk"} /\ conn'[Primary].pc # "fallback"
             \/ /\ ~cancelled' /\ budget'.pauses = 0
                /\ fallback' \/ conn'[Primary].pc = "fallback" => (preDone' => pre' = Size)
  <2>1. "prefetch" \notin budget.kinds
    BY <1>5 DEF PrefixIsKept, KeepsPrefix
  <2>2. CASE budget.kinds \subseteq {"exempt", "disk"} /\ conn[Primary].pc # "fallback"
    <3>1. ASSUME conn'[Primary].pc = "fallback" PROVE FALSE
      <4>1. Held'
        BY <3>1 DEF Held
      <4>2. PICK kind \in budget.kinds : kind \in Errors /\ kind # "exempt"
        BY <2>2, <3>1, <4>1, HeldSteps
      <4> QED BY <2>2, <4>2 DEF Errors
    <3> QED BY <2>2, <3>1
  <2>3. CASE /\ ~cancelled /\ budget.pauses = 0
             /\ fallback \/ conn[Primary].pc = "fallback" => (preDone => pre = Size)
    <3>1. ~cancelled' /\ budget'.pauses = 0
      BY <1>1, <2>3, PauseCancels
    <3>2. ASSUME fallback' \/ conn'[Primary].pc = "fallback", preDone'
          PROVE  pre' = Size
      <4>1. Held'
        BY <3>2 DEF Held
      <4>2. fallback \/ conn[Primary].pc = "fallback"
        BY <3>2, <4>1, HeldSteps
      <4>3. preDone => pre = Size
        BY <2>3, <4>2
      <4>4. \/ UNCHANGED <<pre, preDone>>
            \/ pre' = pre /\ pre = Size
        BY <2>1, <2>3, <3>2, <4>1, HeldSteps
      <4> QED BY <3>2, <4>3, <4>4
    <3> QED BY <3>1, <3>2
  <2> QED BY <1>5, <2>2, <2>3 DEF PrefixIsKept
<1> QED BY <1>1, <1>2, <1>4, <1>5 DEF PrefixIsKept

-----------------------------------------------------------------------------
(* The invariant.                                                          *)

LEMMA InitIInv == ASSUME Init PROVE IInv
<1>1. /\ live = {} /\ batch = {} /\ saved.live = {} /\ saved.completed = {} /\ saved.range
      /\ conn = [c \in Conn |-> NoWorker] /\ chunk = [c \in Conn |-> NoChunk]
      /\ flight = [c \in Conn |-> 0] /\ put = [c \in Conn |-> FALSE] /\ written = {}
      /\ state = "resolved" /\ loop = "none" /\ range /\ dataPos = 0 /\ pre = 0
      /\ ~cancelled /\ doneCh = "empty" /\ saved.chunk = chunk /\ ~preDone
  BY DEF Init
<1>2. /\ NoWorker \in Worker /\ NoWorker.pc = "none" /\ NoWorker.st = "notStarted"
      /\ NoWorker.err = "none" /\ NoChunk \in Chunk
  BY NewWorkers DEF NoChunk, Chunk
<1>3. budget \in Budgets /\ budget \in Budget
  BY BudgetsAssumption DEF Init
<1>4. TypeOK
  <2>1. NewSlowStart \in [launched : Nat, pending : 0 .. MaxConns, ready : Nat,
                          next : 1 .. MaxConns, signal : BOOLEAN]
    <3>1. 0 \in 0 .. MaxConns /\ 1 \in 1 .. MaxConns /\ 0 \in Nat
      OBVIOUS
    <3> QED BY <3>1 DEF NewSlowStart
  <2>2. saved \in [live : SUBSET Conn, chunk : [Conn -> Chunk], total : [Conn -> Nat],
                   completed : SUBSET Conn, range : BOOLEAN]
    <3>1. [c \in Conn |-> 0] \in [Conn -> Nat]
      OBVIOUS
    <3>2. chunk \in [Conn -> Chunk]
      BY <1>1, <1>2
    <3>3. saved = [live |-> {}, chunk |-> chunk, total |-> [c \in Conn |-> 0],
                   completed |-> {}, range |-> TRUE]
      BY DEF Init
    <3> QED BY <3>1, <3>2, <3>3
  <2>3. /\ conn \in [Conn -> Worker] /\ chunk \in [Conn -> Chunk]
        /\ flight \in [Conn -> 0 .. Buf] /\ put \in [Conn -> BOOLEAN]
    BY <1>1, <1>2
  <2>4. /\ toSplit \in 0 .. MaxConns /\ {pre, dataPos} \subseteq 0 .. Size
    BY <1>1 DEF Init
  <2>5. {preDone, fallback, range, cancelled} \subseteq BOOLEAN
    BY DEF Init
  <2>6. ss \in [launched : Nat, pending : 0 .. MaxConns, ready : Nat,
                next : 1 .. MaxConns, signal : BOOLEAN]
    BY <2>1 DEF Init
  <2> QED BY <1>1, <1>3, <2>2, <2>3, <2>4, <2>5, <2>6 DEF TypeOK, States
<1>5. ConnsInOrder
  <2>1. Cardinality({}) = 0
    BY FS_EmptySet
  <2> QED BY <1>1, <2>1 DEF ConnsInOrder, InOrder, Expanding, Conn
<1>6. WorkersAreSound /\ NobodyIsForbidden
  BY <1>1, <1>2 DEF WorkersAreSound, NobodyIsForbidden, Active
<1>7. LoopIsSound /\ GoneIsOver /\ RangeIsKept /\ HeldByPrimary /\ CopiedBeforeOpen
  BY <1>1
  DEF LoopIsSound, GoneIsOver, RangeIsKept, HeldByPrimary, CopiedBeforeOpen, Resting, WorkersGone
<1>8. SavedCountersMatch
  BY <1>1 DEF SavedCountersMatch
<1>9. FetcherIsConsistent
  BY <1>1, <1>2, PrimaryIsConn
  DEF FetcherIsConsistent, ErrorMeansUnfinished, CountersMatchChunks, TakeoverIsAlone, OwnResult
<1>10. RCP!IInv
  <2>1. W \subseteq Byte
    BY <1>1, NoPrefix DEF W
  <2>2. RCP!TypeOK
    BY <1>1, <1>2, <2>1, SameOperators DEF RCP!TypeOK
  <2>3. /\ RCP!ChunkBounds(live, chunk) /\ RCP!ChunkBounds(saved.live, saved.chunk)
        /\ RCP!FlightState /\ RCP!FlightOwned /\ RCP!ChunksDisjoint /\ RCP!ChunksCover
        /\ RCP!SnapshotSafe
    BY <1>1
    DEF RCP!ChunkBounds, RCP!FlightState, RCP!FlightOwned, RCP!ChunksDisjoint,
        RCP!ChunksCover, RCP!SnapshotSafe, RCP!Disjoint, RCP!Covered
  <2> QED BY <2>2, <2>3 DEF RCP!IInv
<1>11. Keeps => PrefixIsKept
  <2>1. conn[Primary].pc = "none"
    BY <1>1, <1>2, PrimaryIsConn
  <2>2. ASSUME KeepsPrefix(budget), budget.prefix > 0
        PROVE  \/ budget.kinds \subseteq {"exempt", "disk"}
               \/ budget.pauses = 0
    BY <2>2 DEF KeepsPrefix
  <2> QED BY <1>1, <1>3, <2>1, <2>2 DEF Keeps, PrefixIsKept
<1> QED
  BY <1>4, <1>5, <1>6, <1>7, <1>8, <1>9, <1>10, <1>11 DEF IInv, FInv

LEMMA NextIInv == ASSUME IInv, [Next]_vars PROVE IInv'
<1>1. FInv'
  BY TypesNext, OrderNext, WorkersNext, LoopNext, GoneNext, RangeNext, HeldNext, CopiedNext,
     ForbiddenNext, CountersNext, ConsistentNext DEF FInv
<1>2. RCP!IInv'
  BY ChunksNext
<1>3. Keeps => PrefixIsKept'
  BY PrefixNext DEF IInv
<1>4. Keeps' = Keeps
  BY DEF Keeps, KeepsPrefix
<1> QED BY <1>1, <1>2, <1>3, <1>4 DEF IInv

\* Whatever is downloaded, split, stolen, failed, paused and restarted, for every size,
\* number of connections and budget, the invariant of the fetcher holds.
THEOREM Invariance == Spec => []IInv
<1>1. Init => IInv
  BY InitIInv
<1>2. IInv /\ [Next]_vars => IInv'
  BY NextIInv
<1> QED BY <1>1, <1>2, PTL DEF Spec

\* Every variable of the fetcher keeps its type: no slow start launches more connections
\* than there may be, no worker retries more often than maxRetries, no offset leaves the file.
THEOREM TypeCorrect == Spec => []TypeOK
<1>1. IInv => TypeOK
  BY DEF IInv, FInv
<1> QED BY <1>1, Invariance, PTL

\* An error is about bytes that are missing, the counters agree with the chunks, a takeover
\* of the Resolve response finds the primary alone, and no cycle starts with the result of
\* another: in every state of downloadLoop, Pause, Start and the workers.
THEOREM StaysConsistent == Spec => []FetcherIsConsistent
<1>1. IInv => FetcherIsConsistent
  BY DEF IInv, FInv
<1> QED BY <1>1, Invariance, PTL

-----------------------------------------------------------------------------
(* Done means whole.                                                       *)

\* When the loop finds everybody gone, nobody cancelled and no error, nothing is left.
LEMMA NothingIsLeft ==
  ASSUME IInv, "forbidden" \notin budget.kinds, loop = "wait", WorkersGone, ~cancelled,
         ~finalErr
  PROVE  live # {} /\ \A c \in live : remain(chunk[c]) = 0
<1>1. live # {} /\ batch = {}
  BY DEF IInv, FInv, ConnsInOrder
<1>2. \A c \in live : conn[c].st = "completed" => remain(chunk[c]) = 0
  BY DEF IInv, FInv, WorkersAreSound
<1>3. \A c \in live : ~Active(c) /\ conn[c].err # "forbidden"
  BY Types DEF WorkersGone, Active, TypeOK, IInv, FInv, NobodyIsForbidden
<1>4. \A c \in live : \/ conn[c].st = "completed"
                      \/ conn[c].st = "failed" /\ conn[c].failed
  BY <1>1, <1>3 DEF IInv, FInv, GoneIsOver
<1>5. CASE downloadComplete
  <2>1. Sum(live, Totals) + Sum(live, Rests) = Size
    BY <1>1, Terms
  <2>2. Sum(live, Totals) >= Size
    BY <1>5 DEF downloadComplete, totalDownloaded, Totals
  <2>3. IsFiniteSet(live) /\ \A c \in live : Rests[c] \in Nat /\ Totals[c] \in Nat
    BY Terms
  <2>4. Sum(live, Rests) \in Nat /\ Sum(live, Totals) \in Nat
    BY <2>3, SumZero
  <2>5. Sum(live, Rests) = 0
    BY <2>1, <2>2, <2>4
  <2>6. \A c \in live : Rests[c] = 0
    BY <2>3, <2>5, SumZero
  <2> QED BY <1>1, <2>6, Terms
<1>6. CASE ~downloadComplete
  <2>1. allChunksComplete \/ \A c \in live : conn[c].st = "completed"
    BY <1>3, <1>4, <1>6 DEF finalErr
  <2>2. ASSUME allChunksComplete, NEW c \in live
        PROVE  remain(chunk[c]) = 0
    <3>1. ~needsMoreData(c) \/ conn[c].st = "completed"
      BY <1>3, <2>2 DEF allChunksComplete
    <3>2. CASE conn[c].st = "completed"
      BY <1>2, <3>2
    <3>3. CASE ~needsMoreData(c) /\ range
      <4>1. ~(remain(chunk[c]) > 0)
        BY <3>3 DEF needsMoreData
      <4>2. remain(chunk[c]) \in Nat
        BY Terms
      <4> QED BY <4>1, <4>2
    <3>4. CASE ~range
      BY <1>2, <3>4 DEF IInv, FInv, RangeIsKept
    <3> QED BY <3>1, <3>2, <3>3, <3>4
  <2> QED BY <1>1, <1>2, <2>1, <2>2
<1> QED BY <1>5, <1>6

\* And then the file is whole: no byte is waiting in the temporary file.
LEMMA WholeFile ==
  ASSUME IInv, Keeps, live # {}, \A c \in live : remain(chunk[c]) = 0
  PROVE  written = Byte
<1>1. W = Byte
  <2>1. RCP!IInv => RCP!ExhaustedMeansWhole
    BY PrimaryIsConn, RCP!ExhaustedIsWhole
  <2> QED BY <2>1, SameOperators DEF IInv, RCP!ExhaustedMeansWhole
<1>2. ~Held
  <2> SUFFICES ASSUME Held PROVE FALSE
    OBVIOUS
  <2>1. /\ live = {Primary} /\ chunk[Primary] = NewChunk(dataPos, Size - 1)
        /\ dataPos < Size /\ dataPos \in Nat
    BY HeldFacts DEF PrimaryWaits
  <2>2. remain(chunk[Primary]) = Size - dataPos
    BY <2>1 DEF remain, NewChunk
  <2>3. remain(chunk[Primary]) = 0
    BY <2>1
  <2> QED BY <2>1, <2>2, <2>3
<1>3. Prefix = {}
  BY <1>2, HeldFacts, NoPrefix DEF Held
<1> QED BY <1>1, <1>3 DEF W

\* The invariant about done, for budgets that keep every byte.
DoneInv ==
  /\ ~budget.early /\ "forbidden" \notin budget.kinds
  /\ DoneMeansWhole

LEMMA DoneNext == ASSUME IInv, Keeps, DoneInv, [Next]_vars PROVE DoneInv'
<1>1. ~budget'.early /\ "forbidden" \notin budget'.kinds
  BY BudgetStep DEF DoneInv
<1>2. written' \subseteq Byte /\ written \subseteq written'
  BY FileNext
<1>3. ASSUME state' = "done", written = Byte PROVE written' = Byte
  BY <1>2, <1>3
<1>4. ASSUME state' = "done" PROVE written = Byte
  <2>1. CASE state = "done"
    BY <2>1 DEF DoneInv, DoneMeansWhole
  <2>2. CASE LoopAlreadyDone
    <3>1. 0 .. Size - 1 \subseteq written
      BY <2>2 DEF LoopAlreadyDone, IInv, FInv, CopiedBeforeOpen, DoneInv
    <3>2. written \subseteq Byte
      BY Types DEF TypeOK
    <3> QED BY <3>1, <3>2 DEF Byte
  <2>3. CASE LoopCompletes /\ state # "done"
    <3>1. loop = "wait" /\ WorkersGone /\ ~cancelled /\ ~finalErr
      BY <1>4, <2>3 DEF LoopCompletes
    <3> QED BY <3>1, NothingIsLeft, WholeFile DEF DoneInv
  <2>4. CASE state # "done" /\ ~LoopAlreadyDone /\ ~LoopCompletes
    <3>1. ~Control
      BY <1>4, <2>4 DEF Control, PrefetchRead, PrefetchEnds, LoopExpands, LoopCancelled,
         LoopUnlocks, WaitReturns, PauseBegins, vars, loopVars
    <3>2. ~(Start \/ PauseEnds \/ Restart)
      BY <1>4 DEF Start, PauseEnds, Restart
    <3>3. ~(LoopOpens \/ LoopResumes \/ LoopSplits \/ LoopLaunches \/ Save)
      BY <1>4, <2>4
      DEF LoopOpens, LoopResumes, LoopSplits, LoopLaunches, Save, loopVars
    <3>4. ~\E c \in Conn : Work(c) \/ Fails(c)
      BY <1>4, <2>4, WorkerFrame
    <3> QED BY <3>1, <3>2, <3>3, <3>4, StepCases
  <2> QED BY <2>1, <2>2, <2>3, <2>4
<1> QED BY <1>1, <1>3, <1>4 DEF DoneInv, DoneMeansWhole

\* What onDownloadComplete reports as done is whole: every byte of the resource is in the
\* target file, under every budget that keeps the bytes of the prefix, in which Start does
\* not come between the last byte of the Resolve response and its end, and in which no
\* connection is refused with 403, which onDownloadComplete passes over.
THEOREM DoneIsWhole ==
  ASSUME \A b \in Budgets : KeepsDone(b)
  PROVE  Spec => []DoneMeansWhole
<1>1. Keeps
  BY DEF Keeps, KeepsDone
<1>2. Init => DoneInv
  BY DEF Init, DoneInv, DoneMeansWhole, KeepsDone
<1>3. IInv /\ DoneInv /\ [Next]_vars => DoneInv'
  BY <1>1, DoneNext
<1>4. DoneInv => DoneMeansWhole
  BY DEF DoneInv
<1> QED BY <1>2, <1>3, <1>4, Invariance, PTL DEF Spec

-----------------------------------------------------------------------------
(* The refinement.                                                         *)

\* The two instances of RangeChunks are one.
LEMMA SameChunks ==
  ASSUME Keeps
  PROVE  /\ RC!Init <=> RCP!Init
         /\ RC!Next <=> RCP!Next
         /\ RC!vars = RCP!vars
         /\ RC!vars' = RCP!vars'
<1>1. W = written \cup Prefix /\ W' = (written \cup Prefix)'
  <2>1. Keeps' = Keeps
    BY DEF Keeps, KeepsPrefix
  <2> QED BY <2>1 DEF W
<1>2. RC!Init <=> RCP!Init
  BY <1>1 DEF RC!Init, RCP!Init, RC!NoChunk, RCP!NoChunk
<1>3. RC!vars = RCP!vars /\ RC!vars' = RCP!vars'
  BY <1>1 DEF RC!vars, RCP!vars
<1>4. /\ RC!Byte = RCP!Byte
      /\ \A k : RC!remain(k) = RCP!remain(k) /\ RC!Offset(k) = RCP!Offset(k)
      /\ \A b, e : /\ RC!NewChunk(b, e) = RCP!NewChunk(b, e)
                   /\ RC!SmallerOf(b, e) = RCP!SmallerOf(b, e)
      /\ \A ch, v, n : /\ RC!SplitChunks(ch, v, n) = RCP!SplitChunks(ch, v, n)
                       /\ RC!StealChunks(ch, v, n) = RCP!StealChunks(ch, v, n)
  BY DEF RC!Byte, RCP!Byte, RC!remain, RCP!remain, RC!Offset, RCP!Offset, RC!NewChunk,
         RCP!NewChunk, RC!SmallerOf, RCP!SmallerOf, RC!SplitChunks, RCP!SplitChunks,
         RC!StealChunks, RCP!StealChunks
<1>5. RC!Deliver <=> RCP!Deliver
  BY <1>1 DEF RC!Deliver, RCP!Deliver
<1>6. RC!Open <=> RCP!Open
  BY <1>1, <1>4 DEF RC!Open, RCP!Open
<1>7. RC!TakeOver <=> RCP!TakeOver
  BY <1>1, <1>4 DEF RC!TakeOver, RCP!TakeOver
<1>8. \A v, n : RC!Split(v, n) <=> RCP!Split(v, n)
  BY <1>1, <1>4 DEF RC!Split, RCP!Split
<1>9. \A h, v : RC!Steal(h, v) <=> RCP!Steal(h, v)
  BY <1>1, <1>4 DEF RC!Steal, RCP!Steal
<1>10. \A c, n : RC!Claim(c, n) <=> RCP!Claim(c, n)
  BY <1>1, <1>4 DEF RC!Claim, RCP!Claim
<1>11. \A c : RC!Put(c) <=> RCP!Put(c)
  BY <1>1, <1>4 DEF RC!Put, RCP!Put, RC!InFlight, RCP!InFlight
<1>12. \A c, k : RC!PutFails(c, k) <=> RCP!PutFails(c, k)
  BY <1>1, <1>4 DEF RC!PutFails, RCP!PutFails
<1>13. \A c : RC!Count(c) <=> RCP!Count(c)
  BY <1>1 DEF RC!Count, RCP!Count
<1>14. (RC!Save <=> RCP!Save) /\ (RC!Restart <=> RCP!Restart)
  BY <1>1 DEF RC!Save, RCP!Save, RC!Restart, RCP!Restart
<1>15. RC!Next <=> RCP!Next
  BY <1>5, <1>6, <1>7, <1>8, <1>9, <1>10, <1>11, <1>12, <1>13, <1>14 DEF RC!Next, RCP!Next
<1> QED BY <1>2, <1>3, <1>15

\* The fetcher implements RangeChunks: with the bytes of the prefix it still holds counted
\* as written, its connections, chunks and file behave as RangeChunks says, under every
\* budget that keeps these bytes.
THEOREM Refinement ==
  ASSUME \A b \in Budgets : KeepsPrefix(b)
  PROVE  Spec => ImplementsRangeChunks
<1>1. Keeps
  BY DEF Keeps
<1>2. Init => RC!Init
  <2> SUFFICES ASSUME Init PROVE RCP!Init
    BY <1>1, SameChunks
  <2>1. W = {}
    BY <1>1, NoPrefix DEF W, Init
  <2> QED BY <2>1, SameOperators DEF Init, RCP!Init
<1>3. IInv /\ [Next]_vars => [RC!Next]_(RC!vars)
  BY <1>1, SameChunks, Simulation
<1> QED
  BY <1>2, <1>3, Invariance, PTL DEF Spec, ImplementsRangeChunks, RC!Spec
=============================================================================
