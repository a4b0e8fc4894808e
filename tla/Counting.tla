------------------------------ MODULE Counting ------------------------------
(***************************************************************************)
(* Facts about counting that the proofs of both notification outboxes use: *)
(* a + Cardinality(U) <= b reads "a mails were accepted, the senders in U  *)
(* may still send one each, and b attempts were made".                     *)
(***************************************************************************)
EXTENDS Naturals, FiniteSets, FiniteSetTheorems, TLAPS

(* Senders that give up leave the count within the attempts.               *)
LEMMA FewerCounted ==
  ASSUME NEW U, NEW W, W \subseteq U, IsFiniteSet(U),
         NEW a \in Nat, NEW b \in Nat, a + Cardinality(U) <= b
  PROVE  IsFiniteSet(W) /\ a + Cardinality(W) <= b
  <1>1. IsFiniteSet(W) /\ Cardinality(W) <= Cardinality(U)
    BY FS_Subset
  <1>2. Cardinality(U) \in Nat /\ Cardinality(W) \in Nat
    BY <1>1, FS_CardinalityType
  <1> QED BY <1>1, <1>2

(* A new attempt has one sender.                                           *)
LEMMA OneMoreCounted ==
  ASSUME NEW U, NEW x, x \notin U, IsFiniteSet(U),
         NEW a \in Nat, NEW b \in Nat, a + Cardinality(U) <= b
  PROVE  IsFiniteSet(U \cup {x}) /\ a + Cardinality(U \cup {x}) <= b + 1
  <1>1. IsFiniteSet(U \cup {x}) /\ Cardinality(U \cup {x}) = Cardinality(U) + 1
    BY FS_AddElement
  <1>2. Cardinality(U) \in Nat
    BY FS_CardinalityType
  <1> QED BY <1>1, <1>2

(* A sender that has mailed is no longer among those who may.              *)
LEMMA OneLessCounted ==
  ASSUME NEW U, NEW x \in U, IsFiniteSet(U),
         NEW a \in Nat, NEW b \in Nat, a + Cardinality(U) <= b
  PROVE  IsFiniteSet(U \ {x}) /\ (a + 1) + Cardinality(U \ {x}) <= b /\ a + 1 <= b
  <1>1. IsFiniteSet(U \ {x}) /\ Cardinality(U \ {x}) = Cardinality(U) - 1
    BY FS_RemoveElement
  <1>2. Cardinality(U) \in Nat /\ Cardinality(U \ {x}) \in Nat
    BY <1>1, FS_CardinalityType
  <1> QED BY <1>1, <1>2
=============================================================================
