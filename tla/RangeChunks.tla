---------------------------- MODULE RangeChunks ----------------------------
(***************************************************************************)
(* Ownership of the bytes of one file while several HTTP range connections *)
(* download it (internal/protocol/http/fetcher.go).                        *)
(*                                                                         *)
(* Every connection owns one chunk: the bytes begin + dl .. end are still  *)
(* to be fetched.  expandConnections splits the longest chunk for a new    *)
(* connection and helpOtherConnection lets an idle connection steal half   *)
(* of another one's chunk; both run under connMu.  A read is NOT atomic    *)
(* with its bookkeeping: downloadChunkOnce clips the data and computes the *)
(* offset under connMu, releases it for WriteAt, and takes it again to add *)
(* to Downloaded.  A split or a steal may come in between.                 *)
(*                                                                         *)
(* This module keeps the chunks, the write in flight of each connection,   *)
(* the bytes that are in the target file and the last stored snapshot.     *)
(* RangeFetcher adds the life cycle of the fetcher and implements it.      *)
(***************************************************************************)
EXTENDS Chunks

CONSTANTS Conn,       \* connection identities, connection.ID
          Primary     \* connection 0, the first one to be launched

ASSUME PrimaryAssumption == Primary \in Conn

VARIABLES live,      \* the connections appended to f.connections
          chunk,     \* connection.Chunk
          flight,    \* bytes clipped for WriteAt and not yet in Downloaded
          put,       \* WriteAt of the bytes in flight has returned
          written,   \* offsets of the target file that hold their content
          saved      \* the snapshot in bucketSave: its live and chunk

vars == <<live, chunk, flight, put, written, saved>>

-----------------------------------------------------------------------------

TypeOK ==
  /\ live \subseteq Conn
  /\ chunk \in [Conn -> Chunk]
  /\ flight \in [Conn -> 0 .. Buf]
  /\ put \in [Conn -> BOOLEAN]
  /\ written \subseteq Byte
  /\ saved \in [live : SUBSET Conn, chunk : [Conn -> Chunk]]

Init ==
  /\ live = {}
  /\ chunk = [c \in Conn |-> NoChunk]
  /\ flight = [c \in Conn |-> 0]
  /\ put = [c \in Conn |-> FALSE]
  /\ written = {}
  /\ saved = [live |-> {}, chunk |-> chunk]

-----------------------------------------------------------------------------

\* Start copies what the resolve response has delivered, before any connection
\* is there: all of the file, or what a broken response left of it.
Deliver ==
  /\ live = {}
  /\ \E p \in 0 .. Size : written' = written \cup (0 .. p - 1)
  /\ UNCHANGED <<live, chunk, flight, put, saved>>

\* The first batch of expandConnections: one connection takes everything the
\* resolve response has not already delivered.
Open ==
  /\ live = {}
  /\ \E p \in Byte :
       /\ written' = written \cup (0 .. p - 1)
       /\ chunk' = [chunk EXCEPT ![Primary] = NewChunk(p, Size - 1)]
  /\ live' = {Primary}
  /\ UNCHANGED <<flight, put, saved>>

\* While it is the only connection, the primary's chunk may be replaced by
\* what a longer prefix from the resolve response leaves to fetch
\* (commitResolveTakeover, completeFromResolveFallback, Pause).
TakeOver ==
  /\ live = {Primary} /\ flight[Primary] = 0
  /\ chunk[Primary].end = Size - 1
  /\ \E p \in Offset(chunk[Primary]) .. Size : \E b \in 0 .. p :
       /\ written' = written \cup (0 .. p - 1)
       /\ chunk' = [chunk EXCEPT ![Primary] =
                      [begin |-> b, end |-> Size - 1, dl |-> p - b]]
  /\ UNCHANGED <<live, flight, put, saved>>

\* A further connection of a batch takes the latter half of chunk v.
Split(v, n) ==
  /\ v \in live /\ n \in Conn \ live
  /\ remain(chunk[v]) > 2 * MinSteal
  /\ chunk' = SplitChunks(chunk, v, n)
  /\ live' = live \cup {n}
  /\ UNCHANGED <<flight, put, written, saved>>

\* helpOtherConnection: the idle connection h steals half of what is left of v.
Steal(h, v) ==
  /\ {h, v} \subseteq live /\ h # v
  /\ remain(chunk[h]) = 0 /\ flight[h] = 0
  /\ remain(chunk[v]) >= MinSteal
  /\ chunk' = StealChunks(chunk, h, v)
  /\ UNCHANGED <<live, flight, put, written, saved>>

\* Mutant: a second read is claimed before the first one is counted.
ClaimAgain(c, n) ==
  /\ c \in live /\ remain(chunk[c]) > flight[c]
  /\ flight' = [flight EXCEPT ![c] = @ + SmallerOf(n, remain(chunk[c]) - @)]
  /\ UNCHANGED <<live, chunk, put, written, saved>>

\* A read returned n bytes: under connMu they are clipped to the chunk.
Claim(c, n) ==
  /\ c \in live /\ flight[c] = 0
  /\ remain(chunk[c]) > 0
  /\ flight' = [flight EXCEPT ![c] = SmallerOf(n, remain(chunk[c]))]
  /\ UNCHANGED <<live, chunk, put, written, saved>>

InFlight(c) == Offset(chunk[c]) .. Offset(chunk[c]) + flight[c] - 1

\* WriteAt, outside connMu.
Put(c) ==
  /\ flight[c] > 0 /\ ~put[c]
  /\ written' = written \cup InFlight(c)
  /\ put' = [put EXCEPT ![c] = TRUE]
  /\ UNCHANGED <<live, chunk, flight, saved>>

\* Mutant: a failed write starts the chunk all over.
PutFailsAfresh(c, k) ==
  /\ k < flight[c] /\ ~put[c]
  /\ chunk' = [chunk EXCEPT ![c].dl = 0]
  /\ flight' = [flight EXCEPT ![c] = 0]
  /\ UNCHANGED <<live, put, written, saved>>

\* WriteAt fails after k bytes: the connection forgets the data and retries.
PutFails(c, k) ==
  /\ k < flight[c] /\ ~put[c]
  /\ written' = written \cup (Offset(chunk[c]) .. Offset(chunk[c]) + k - 1)
  /\ flight' = [flight EXCEPT ![c] = 0]
  /\ UNCHANGED <<live, chunk, put, saved>>

\* Back under connMu: the bytes are added to Downloaded.
Count(c) ==
  /\ put[c]
  /\ chunk' = [chunk EXCEPT ![c].dl = @ + flight[c]]
  /\ flight' = [flight EXCEPT ![c] = 0]
  /\ put' = [put EXCEPT ![c] = FALSE]
  /\ UNCHANGED <<live, written, saved>>

\* Mutant: the snapshot counts what is still on its way to the file.
SaveEarly ==
  /\ saved' = [live |-> live,
                chunk |-> [c \in Conn |-> [chunk[c] EXCEPT !.dl = @ + flight[c]]]]
  /\ UNCHANGED <<live, chunk, flight, put, written>>

\* FetcherManager.Store copies the connections under connMu.
Save ==
  /\ saved' = [live |-> live, chunk |-> chunk]
  /\ UNCHANGED <<live, chunk, flight, put, written>>

\* The process dies; the next one restores the connections from the snapshot
\* and finds the file as it was left.
Restart ==
  /\ live' = saved.live
  /\ chunk' = saved.chunk
  /\ flight' = [c \in Conn |-> 0]
  /\ put' = [c \in Conn |-> FALSE]
  /\ UNCHANGED <<written, saved>>

Next ==
  \/ Deliver
  \/ Open
  \/ TakeOver
  \/ \E v, n \in Conn : Split(v, n)
  \/ \E h, v \in Conn : Steal(h, v)
  \/ \E c \in Conn : \E n \in 1 .. Buf : Claim(c, n)
  \/ \E c \in Conn : Put(c)
  \/ \E c \in Conn : \E k \in 0 .. Buf : PutFails(c, k)
  \/ \E c \in Conn : Count(c)
  \/ Save
  \/ Restart

Spec == Init /\ [][Next]_vars

-----------------------------------------------------------------------------

\* A steal or a split may shrink a chunk while one of its reads is between
\* the two critical sections of downloadChunkOnce; the bytes that read is
\* about to count are still its own.
FlightOwned ==
  \A c \in live : flight[c] <= remain(chunk[c])

Disjoint(lv, ch) ==
  \A c, d \in lv : c # d => Pending(ch[c]) \cap Pending(ch[d]) = {}

Covered(lv, ch) ==
  lv # {} => \A b \in Byte : b \in written \/ \E c \in lv : b \in Pending(ch[c])

\* No byte is ever due to two connections, whatever splits and steals
\* happened: two workers never download the same part of the file.
ChunksDisjoint == Disjoint(live, chunk)

\* No byte is lost by a split, a steal, a failed write or a restart: it is in
\* the file or some connection still has to fetch it.
ChunksCover == Covered(live, chunk)

\* The same of the stored snapshot, which is what a crash falls back to while
\* the workers go on splitting, stealing and writing.
SnapshotSafe == Covered(saved.live, saved.chunk) /\ Disjoint(saved.live, saved.chunk)

\* When every chunk is exhausted the file is complete.
ExhaustedMeansWhole ==
  (live # {} /\ \A c \in live : remain(chunk[c]) = 0) => written = Byte

ToFetch == UNION {Pending(chunk[c]) : c \in live}

\* Only a new process forgets progress: within one process what is still to be
\* fetched never grows, so no byte that was counted is requested again.
NoByteIsFetchedAgain ==
  [][ (live # {} /\ <<live', chunk'>> # <<saved.live, saved.chunk>>)
        => ToFetch' \subseteq ToFetch ]_vars
-----------------------------------------------------------------------------

\* What makes the properties inductive: a chunk never runs past its end or the
\* file, now or in the snapshot, and only launched connections have a write in
\* flight, whose bytes are in the file once WriteAt has returned.
ChunkBounds(lv, ch) ==
  \A c \in lv : remain(ch[c]) >= 0 /\ ch[c].end < Size

FlightState ==
  \A c \in Conn :
    /\ flight[c] > 0 => c \in live
    /\ put[c] => flight[c] > 0 /\ InFlight(c) \subseteq written

IInv ==
  /\ TypeOK
  /\ ChunkBounds(live, chunk)
  /\ ChunkBounds(saved.live, saved.chunk)
  /\ FlightState
  /\ FlightOwned
  /\ ChunksDisjoint
  /\ ChunksCover
  /\ SnapshotSafe
=============================================================================
