------------------------------- MODULE Chunks -------------------------------
(***************************************************************************)
(* The chunk of a connection and the operators on it, as                   *)
(* internal/protocol/http/fetcher.go defines them, for range mode with a   *)
(* known size (Chunk.End is set).                                          *)
(***************************************************************************)
EXTENDS Integers

CONSTANTS Size,       \* Res.Size, known and positive in range mode
          Buf,        \* len(buf), the largest single read (8192)
          MinSteal    \* stealMinChunkSize (512 * 1024)

ASSUME SizeAssumption == Size \in Nat \ {0}
ASSUME BufAssumption == Buf \in Nat \ {0}

\* The code never states this relation between its two constants: half of
\* the smallest chunk that may be stolen from still holds a whole buffer.
ASSUME StealAssumption == MinSteal \in Nat /\ 2 * Buf + 1 <= MinSteal

Byte == 0 .. Size - 1

Chunk == [begin : Nat, end : Int, dl : Nat]

NoChunk == [begin |-> 0, end |-> -1, dl |-> 0]

NewChunk(b, e) == [begin |-> b, end |-> e, dl |-> 0]

remain(k) == k.end - k.begin + 1 - k.dl

\* The offset the next byte of chunk k goes to: Chunk.Begin + Chunk.Downloaded.
Offset(k) == k.begin + k.dl

\* The bytes chunk k still has to fetch.
Pending(k) == Offset(k) .. k.end

\* Mutant: the new connection starts one byte too late.
SplitChunksLate(ch, v, n) ==
  LET e  == ch[v].end
      sp == e - remain(ch[v]) \div 2
  IN  [ch EXCEPT ![v].end = sp, ![n] = NewChunk(sp + 2, e)]

\* expandConnections: chunk v keeps the first half, connection n starts on the
\* latter half.
SplitChunks(ch, v, n) ==
  LET e  == ch[v].end
      sp == e - remain(ch[v]) \div 2
  IN  [ch EXCEPT ![v].end = sp, ![n] = NewChunk(sp + 1, e)]

\* Mutant: the victim is not told that it lost its latter half.
StealChunksTwice(ch, h, v) ==
  LET e == ch[v].end
      b == e - remain(ch[v]) \div 2
  IN  [ch EXCEPT ![h] = NewChunk(b, e)]

\* helpOtherConnection: helper h takes the latter half of what is left of v.
StealChunks(ch, h, v) ==
  LET e == ch[v].end
      b == e - remain(ch[v]) \div 2
  IN  [ch EXCEPT ![v].end = b - 1, ![h] = NewChunk(b, e)]

SmallerOf(m, n) == IF m <= n THEN m ELSE n
=============================================================================
