-------------------------- MODULE CommitteeProofs --------------------------
(* Facts about the committee's thresholds. *)
EXTENDS Committee, FiniteSetTheorems, TLAPS

(***************************************************************************)
(* The thresholds of config.go are positive numbers, the low one at most   *)
(* the high one, for every committee.                                      *)
(***************************************************************************)
LEMMA ThresholdTypes ==
    /\ Size \in Nat \ {0}
    /\ LowThreshold \in Nat \ {0}
    /\ HightThreshold \in Nat \ {0}
    /\ LowThreshold <= HightThreshold
<1>1. Size \in Nat
  BY CommitteeAssumption, FS_CardinalityType DEF Size
<1>2. Size # 0
  BY CommitteeAssumption, FS_EmptySet DEF Size
<1>3. (Size - 1) \div 3 \in Nat
  BY <1>1, <1>2
<1>4. QED
  BY <1>1, <1>2, <1>3 DEF LowThreshold, HightThreshold

(***************************************************************************)
(* A larger set of nodes has at least as many members.                     *)
(***************************************************************************)
LEMMA NodeSubsets ==
    ASSUME NEW T \in SUBSET Node, NEW S \in SUBSET T
    PROVE  /\ Cardinality(S) \in Nat
           /\ Cardinality(T) \in Nat
           /\ Cardinality(S) <= Cardinality(T)
<1>1. IsFiniteSet(T)
  BY CommitteeAssumption, FS_Subset
<1>2. IsFiniteSet(S) /\ Cardinality(S) <= Cardinality(T)
  BY <1>1, FS_Subset
<1>3. QED
  BY <1>1, <1>2, FS_CardinalityType

(***************************************************************************)
(* In a committee of 3f + 1 nodes any two sets of HightThreshold nodes     *)
(* share at least f + 1 = LowThreshold of them.                            *)
(***************************************************************************)
THEOREM QuorumsIntersect ==
    ASSUME NEW A \in SUBSET Node, NEW B \in SUBSET Node,
           (Size - 1) % 3 = 0,
           Cardinality(A) >= HightThreshold,
           Cardinality(B) >= HightThreshold
    PROVE  Cardinality(A \cap B) >= LowThreshold
<1>1. IsFiniteSet(A) /\ IsFiniteSet(B)
  BY CommitteeAssumption, FS_Subset
<1>2. Cardinality(A \cup B) = Cardinality(A) + Cardinality(B) - Cardinality(A \cap B)
  BY <1>1, FS_Union
<1>3. Cardinality(A \cup B) \in Nat /\ Cardinality(A \cup B) <= Size
  BY NodeSubsets, A \cup B \in SUBSET Node DEF Size
<1>4. /\ Cardinality(A) \in Nat
      /\ Cardinality(B) \in Nat
      /\ Cardinality(A \cap B) \in Nat
  BY NodeSubsets
<1>5. DEFINE f == (Size - 1) \div 3
<1>6. f \in Nat /\ Size = 3 * f + 1
  BY ThresholdTypes
<1>7. HightThreshold = 2 * f + 1 /\ LowThreshold = f + 1
  BY DEF HightThreshold, LowThreshold
<1>8. QED
  <2> HIDE DEF f
  <2> QED BY <1>2, <1>3, <1>4, <1>6, <1>7, ThresholdTypes
=============================================================================
