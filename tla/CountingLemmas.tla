--------------------------- MODULE CountingLemmas ---------------------------
(***************************************************************************)
(* Facts about finite sets and natural numbers the proofs of several       *)
(* modules need.                                                           *)
(***************************************************************************)
EXTENDS Integers, FiniteSets, FiniteSetTheorems, TLAPS

\* Two sets that agree except on x differ in size as they differ on x.
LEMMA OneElementChanges ==
  ASSUME NEW A, NEW B, NEW x, IsFiniteSet(A), A \ {x} = B \ {x}
  PROVE  /\ IsFiniteSet(B)
         /\ Cardinality(A) \in Nat /\ Cardinality(B) \in Nat
         /\ Cardinality(B) + (IF x \in A THEN 1 ELSE 0)
              = Cardinality(A) + (IF x \in B THEN 1 ELSE 0)
<1> DEFINE C == A \ {x}
<1>1. /\ IsFiniteSet(C) /\ Cardinality(C) \in Nat /\ Cardinality(A) \in Nat
      /\ Cardinality(C) = IF x \in A THEN Cardinality(A) - 1 ELSE Cardinality(A)
  BY FS_RemoveElement, FS_CardinalityType
<1>2. B = IF x \in B THEN C \cup {x} ELSE C
  OBVIOUS
<1>3. x \notin C
  OBVIOUS
<1> HIDE DEF C
<1>4. /\ IsFiniteSet(C \cup {x})
      /\ Cardinality(C \cup {x}) = Cardinality(C) + 1
  BY <1>1, <1>3, FS_AddElement
<1> QED
  BY <1>1, <1>2, <1>4

\* A finite set with an element is not of size zero.
LEMMA HasElement ==
  ASSUME NEW A, IsFiniteSet(A)
  PROVE  /\ Cardinality(A) \in Nat
         /\ Cardinality(A) = 0 <=> A = {}
         /\ \A x \in A : Cardinality(A) >= 1
  BY FS_CardinalityType, FS_EmptySet
=============================================================================
