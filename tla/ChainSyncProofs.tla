-------------------------- MODULE ChainSyncProofs --------------------------
(***************************************************************************)
(* Proofs about the chain of stage 010 (ChainSync): a node that no fetch    *)
(* keeps busy is in sync, double spends have one of two causes, and money   *)
(* is conserved otherwise.  Walks over the chain are reasoned about by      *)
(* strong induction on the hashes, sums by induction on finite sets.        *)
(***************************************************************************)
EXTENDS ChainSync, TLAPS, SequenceTheorems, FiniteSetTheorems, WellFoundedInduction

\* Is a sequence.
IsSeq(s) == s \in Seq(ToSet(s))

Linked(chain) == IsSeq(chain) /\ \A h \in DOMAIN chain : chain[h].prev \in 0..h - 1

-----------------------------------------------------------------------------
(* Sequences. *)

\* Induction on the numbers, for a set of them.
LEMMA StrongInduction ==
    ASSUME NEW S, \A n \in Nat : (\A m \in 0..n - 1 : m \in S) => n \in S
    PROVE  Nat \subseteq S
<1> SUFFICES ASSUME ~(Nat \subseteq S) PROVE FALSE
  OBVIOUS
<1> DEFINE T == {n \in Nat : n \notin S}
           R == OpToRel(<, Nat)
<1>1. T \subseteq Nat /\ T # {}
  OBVIOUS
<1>2. IsWellFoundedOn(R, Nat)
  BY NatLessThanWellFounded
<1>3. \A y, x \in Nat : y < x => <<y, x>> \in R
  BY DEF OpToRel
<1> HIDE DEF R
<1>4. PICK x \in T : \A y \in T : ~(<<y, x>> \in R)
  <2> HIDE DEF T
  <2> QED BY <1>1, <1>2, WFMin
<1>5. ASSUME NEW m \in 0..x - 1 PROVE m \in S
  <2>1. m \in Nat /\ x \in Nat /\ m < x
    BY <1>4
  <2>2. m \notin T
    <3> HIDE DEF T
    <3> QED BY <2>1, <1>3, <1>4
  <2> QED BY <2>1, <2>2
<1> QED BY <1>5

LEMMA SeqOfOwn == ASSUME NEW S, NEW s \in Seq(S) PROVE IsSeq(s) /\ ToSet(s) \subseteq S
BY DEF IsSeq, ToSet

LEMMA ConcatSet ==
    ASSUME NEW s, NEW r, IsSeq(s), IsSeq(r)
    PROVE  /\ IsSeq(s \o r)
           /\ ToSet(s \o r) = ToSet(s) \cup ToSet(r)
<1> DEFINE U == ToSet(s) \cup ToSet(r)
<1>1. s \in Seq(U) /\ r \in Seq(U)
  BY DEF IsSeq
<1>2. s \o r \in Seq(U) /\ Len(s \o r) = Len(s) + Len(r)
  BY <1>1
<1>3. \A k \in 1..Len(s) : (s \o r)[k] = s[k]
  BY <1>1
<1>4. \A k \in 1..Len(r) : (s \o r)[Len(s) + k] = r[k]
  BY <1>1
<1>5. ToSet(s \o r) \subseteq U
  BY <1>2, SeqOfOwn
<1>6. ToSet(s) \subseteq ToSet(s \o r)
  BY <1>1, <1>2, <1>3 DEF ToSet
<1>7. ToSet(r) \subseteq ToSet(s \o r)
  <2> SUFFICES ASSUME NEW k \in DOMAIN r PROVE r[k] \in ToSet(s \o r)
    BY DEF ToSet
  <2>1. Len(s) + k \in DOMAIN (s \o r)
    BY <1>1, <1>2
  <2> QED BY <1>1, <1>4, <2>1 DEF ToSet
<1> QED BY <1>2, <1>5, <1>6, <1>7 DEF IsSeq

LEMMA SingleSet == ASSUME NEW x PROVE IsSeq(<<x>>) /\ ToSet(<<x>>) = {x}
BY DEF IsSeq, ToSet

LEMMA AppendSet ==
    ASSUME NEW s, NEW x, IsSeq(s)
    PROVE  /\ IsSeq(Append(s, x))
           /\ Len(Append(s, x)) = Len(s) + 1
           /\ DOMAIN Append(s, x) = DOMAIN s \cup {Len(s) + 1}
           /\ \A k \in DOMAIN s : Append(s, x)[k] = s[k]
           /\ Append(s, x)[Len(s) + 1] = x
<1> DEFINE U == ToSet(s) \cup {x}
<1>1. s \in Seq(U)
  BY DEF IsSeq
<1>2. Append(s, x) \in Seq(U)
  BY <1>1
<1>3. /\ Len(Append(s, x)) = Len(s) + 1
      /\ \A k \in 1..Len(s) : Append(s, x)[k] = s[k]
      /\ Append(s, x)[Len(s) + 1] = x
  BY <1>1, AppendProperties
<1>4. IsSeq(Append(s, x))
  BY <1>2, SeqOfOwn
<1>5. Len(s) \in Nat /\ DOMAIN s = 1..Len(s) /\ DOMAIN Append(s, x) = 1..Len(Append(s, x))
  BY <1>1, <1>2
<1> QED BY <1>3, <1>4, <1>5

-----------------------------------------------------------------------------
(* Walks. *)

Back(chain, t) ==
    LET back[h \in 0..Len(chain)] == IF h = 0 THEN <<>> ELSE <<h>> \o back[chain[h].prev]
    IN  back[t]

LEMMA WalkIsBack == ASSUME NEW t PROVE Walk(t) = Back(mined, t)
BY DEF Walk, Back

\* A linked chain can be walked from any of its blocks.
LEMMA BackStep ==
    ASSUME NEW chain, Linked(chain)
    PROVE  /\ Back(chain, 0) = <<>>
           /\ \A h \in DOMAIN chain : Back(chain, h) = <<h>> \o Back(chain, chain[h].prev)
<1> DEFINE N == Len(chain)
           Step(h, f) == IF h = 0 THEN <<>> ELSE <<h>> \o f[chain[h].prev]
           Walked(k, f) == f = [h \in 0..k |-> Step(h, f)]
           S == {k \in Nat : k <= N => \E f : Walked(k, f)}
<1>1. N \in Nat /\ DOMAIN chain = 1..N /\ \A h \in 1..N : chain[h].prev \in 0..h - 1
  BY DEF Linked, IsSeq
<1>2. ASSUME NEW k \in Nat, \A m \in 0..k - 1 : m \in S
      PROVE  k \in S
  <2> SUFFICES ASSUME k <= N PROVE \E f : Walked(k, f)
    OBVIOUS
  <2>1. CASE k = 0
    <3> DEFINE g == [h \in 0..k |-> <<>>]
    <3>1. Walked(k, g)
      BY <2>1
    <3> QED BY <3>1
  <2>2. CASE k # 0
    <3>1. k - 1 \in 0..k - 1 /\ k - 1 \in Nat /\ k - 1 <= N
      BY <1>1, <2>2
    <3>2. PICK f : Walked(k - 1, f)
      <4>1. k - 1 \in S
        <5> HIDE DEF S
        <5> QED BY <1>2, <3>1
      <4> HIDE DEF Walked
      <4> QED BY <3>1, <4>1
    <3> DEFINE g == [h \in 0..k |-> IF h = k THEN <<k>> \o f[chain[k].prev] ELSE f[h]]
    <3>3. \A h \in 0..k - 1 : g[h] = f[h]
      OBVIOUS
    <3>4. ASSUME NEW h \in 0..k PROVE g[h] = Step(h, g)
      <4>1. CASE h = k
        <5>1. chain[k].prev \in 0..k - 1
          BY <1>1, <2>2
        <5> QED BY <5>1, <4>1, <3>3, <2>2
      <4>2. CASE h # k
        <5>1. h \in 0..k - 1
          BY <4>2
        <5>2. f[h] = Step(h, f)
          BY <3>2, <5>1
        <5>3. h # 0 => chain[h].prev \in 0..k - 1
          BY <1>1, <5>1
        <5> HIDE DEF g
        <5> QED BY <5>1, <5>2, <5>3, <3>3
      <4> QED BY <4>1, <4>2
    <3>5. Walked(k, g)
      <4>1. g = [h \in 0..k |-> g[h]]
        OBVIOUS
      <4> HIDE DEF g
      <4> QED BY <3>4, <4>1
    <3> QED BY <3>5
  <2> QED BY <2>1, <2>2
<1>3. N \in S
  <2> HIDE DEF S
  <2>1. Nat \subseteq S
    BY <1>2, StrongInduction
  <2> QED BY <2>1, <1>1
<1> DEFINE back == CHOOSE f : Walked(N, f)
<1>4. Walked(N, back)
  <2> HIDE DEF Walked
  <2> QED BY <1>1, <1>3
<1>5. \A t : Back(chain, t) = back[t]
  BY DEF Back
<1>6. \A h \in 0..N : Back(chain, h) = Step(h, back)
  <2> HIDE DEF back, Step
  <2> QED BY <1>4, <1>5
<1>7. ASSUME NEW h \in DOMAIN chain PROVE Back(chain, h) = <<h>> \o Back(chain, chain[h].prev)
  <2>1. h \in 0..N /\ h # 0
    BY <1>1
  <2>2. Back(chain, h) = Step(h, back)
    <3> HIDE DEF back, Step
    <3> QED BY <2>1, <1>6
  <2>3. Back(chain, chain[h].prev) = back[chain[h].prev]
    <3> HIDE DEF back
    <3> QED BY <1>5
  <2> HIDE DEF back
  <2> QED BY <2>1, <2>2, <2>3
<1>8. Back(chain, 0) = <<>>
  <2>1. 0 \in 0..N
    BY <1>1
  <2>2. Back(chain, 0) = Step(0, back)
    <3> HIDE DEF back, Step
    <3> QED BY <2>1, <1>6
  <2> HIDE DEF back
  <2> QED BY <2>2
<1> QED BY <1>7, <1>8

\* A walk lists hashes downwards, each block followed by those of the one before it.
LEMMA BackWalks ==
    ASSUME NEW chain, Linked(chain)
    PROVE  /\ \A t \in 0..Len(chain) : IsSeq(Back(chain, t)) /\ ToSet(Back(chain, t)) \subseteq 1..t
           /\ ToSet(Back(chain, 0)) = {}
           /\ \A h \in DOMAIN chain :
                 ToSet(Back(chain, h)) = {h} \cup ToSet(Back(chain, chain[h].prev))
<1> DEFINE N == Len(chain)
           S == {t \in Nat : t <= N => IsSeq(Back(chain, t)) /\ ToSet(Back(chain, t)) \subseteq 1..t}
<1>1. N \in Nat /\ DOMAIN chain = 1..N /\ \A h \in 1..N : chain[h].prev \in 0..h - 1
  BY DEF Linked, IsSeq
<1>2. ToSet(Back(chain, 0)) = {} /\ IsSeq(Back(chain, 0))
  <2>1. ToSet(<<>>) = {} /\ IsSeq(<<>>)
    BY DEF ToSet, IsSeq
  <2> QED BY <2>1, BackStep
<1>3. ASSUME NEW h \in 1..N, IsSeq(Back(chain, chain[h].prev))
      PROVE  /\ IsSeq(Back(chain, h))
             /\ ToSet(Back(chain, h)) = {h} \cup ToSet(Back(chain, chain[h].prev))
  <2>1. Back(chain, h) = <<h>> \o Back(chain, chain[h].prev)
    BY <1>1, BackStep
  <2> QED BY <1>3, <2>1, ConcatSet, SingleSet
<1>4. ASSUME NEW t \in Nat, \A m \in 0..t - 1 : m \in S
      PROVE  t \in S
  <2>1. CASE t = 0
    BY <1>2, <2>1
  <2>2. CASE t # 0 /\ t <= N
    <3>1. t \in 1..N /\ chain[t].prev \in 0..t - 1 /\ chain[t].prev <= N
      BY <1>1, <2>2
    <3>2. chain[t].prev \in S
      <4> HIDE DEF S
      <4> QED BY <3>1, <1>4
    <3>3. IsSeq(Back(chain, chain[t].prev)) /\ ToSet(Back(chain, chain[t].prev)) \subseteq 1..chain[t].prev
      BY <3>1, <3>2
    <3>4. {t} \cup 1..chain[t].prev \subseteq 1..t
      BY <3>1
    <3> QED BY <3>1, <3>3, <3>4, <1>3
  <2> QED BY <2>1, <2>2
<1>5. Nat \subseteq S
  <2> HIDE DEF S
  <2> QED BY <1>4, StrongInduction
<1>6. \A t \in 0..N : IsSeq(Back(chain, t)) /\ ToSet(Back(chain, t)) \subseteq 1..t
  BY <1>1, <1>5
<1>7. \A h \in 1..N : ToSet(Back(chain, h)) = {h} \cup ToSet(Back(chain, chain[h].prev))
  <2>1. \A h \in 1..N : chain[h].prev \in 0..N
    BY <1>1
  <2> QED BY <2>1, <1>3, <1>6
<1> QED BY <1>1, <1>2, <1>6, <1>7

\* A new block changes no walk from an older one.
LEMMA BackExtended ==
    ASSUME NEW chain, NEW b, Linked(chain), b.prev \in 0..Len(chain)
    PROVE  /\ Linked(Append(chain, b))
           /\ \A t \in 0..Len(chain) : Back(Append(chain, b), t) = Back(chain, t)
<1> DEFINE N == Len(chain)
           next == Append(chain, b)
           S == {t \in Nat : t <= N => Back(next, t) = Back(chain, t)}
<1>1. N \in Nat /\ DOMAIN chain = 1..N /\ \A h \in 1..N : chain[h].prev \in 0..h - 1
  BY DEF Linked, IsSeq
<1>2. /\ IsSeq(next) /\ DOMAIN next = 1..N + 1
      /\ \A k \in 1..N : next[k] = chain[k]
      /\ next[N + 1] = b
  <2>1. DOMAIN next = 1..N \cup {N + 1}
    BY <1>1, AppendSet DEF Linked
  <2> QED BY <1>1, <2>1, AppendSet DEF Linked
<1>3. Linked(next)
  <2> SUFFICES ASSUME NEW h \in 1..N + 1 PROVE next[h].prev \in 0..h - 1
    BY <1>2 DEF Linked
  <2>1. CASE h = N + 1
    BY <1>1, <1>2, <2>1
  <2>2. CASE h # N + 1
    <3>1. h \in 1..N
      BY <1>1, <2>2
    <3> QED BY <3>1, <1>1, <1>2
  <2> QED BY <2>1, <2>2
<1>4. ASSUME NEW t \in Nat, \A m \in 0..t - 1 : m \in S
      PROVE  t \in S
  <2>1. CASE t = 0
    BY <1>3, <2>1, BackStep
  <2>2. CASE t # 0 /\ t <= N
    <3>1. t \in 1..N /\ t \in DOMAIN next /\ chain[t].prev \in 0..t - 1 /\ chain[t].prev <= N
      BY <1>1, <1>2, <2>2
    <3>2. chain[t].prev \in S
      <4> HIDE DEF S
      <4> QED BY <3>1, <1>4
    <3>3. Back(next, chain[t].prev) = Back(chain, chain[t].prev)
      BY <3>1, <3>2
    <3>4. Back(next, t) = <<t>> \o Back(next, next[t].prev) /\ next[t] = chain[t]
      <4> HIDE DEF next
      <4> QED BY <3>1, <1>2, <1>3, BackStep
    <3>5. Back(chain, t) = <<t>> \o Back(chain, chain[t].prev)
      BY <3>1, <1>1, BackStep
    <3> QED BY <3>3, <3>4, <3>5
  <2> QED BY <2>1, <2>2
<1>5. Nat \subseteq S
  <2> HIDE DEF S
  <2> QED BY <1>4, StrongInduction
<1> QED BY <1>1, <1>3, <1>5

\* The transactions of the blocks back from t.
TxsOn(chain, t) == UNION {ToSet(chain[h].txs) : h \in ToSet(Back(chain, t))}

\* The table for the blocks back from t.
ChainTable(chain, t) ==
    LET walk == Back(chain, t)
    IN  FindUTXOMap([k \in DOMAIN walk |-> chain[walk[k]].txs])

LEMMA WalkTxs ==
    ASSUME NEW chain, NEW t \in 0..Len(chain), Linked(chain)
    PROVE  LET walk == Back(chain, t)
               blocks == [k \in DOMAIN walk |-> chain[walk[k]].txs]
           IN  IsSeq(blocks) /\ Txs(blocks) = TxsOn(chain, t)
<1> DEFINE walk == Back(chain, t)
           blocks == [k \in DOMAIN walk |-> chain[walk[k]].txs]
<1>1. IsSeq(walk)
  BY BackWalks
<1>2. Len(walk) \in Nat /\ DOMAIN walk = 1..Len(walk)
  BY <1>1 DEF IsSeq
<1>3. blocks \in Seq({chain[walk[k]].txs : k \in DOMAIN walk})
  <2> HIDE DEF walk
  <2> QED BY <1>2
<1>4. ToSet(blocks) = {chain[h].txs : h \in ToSet(walk)}
  BY DEF ToSet
<1>5. Txs(blocks) = TxsOn(chain, t)
  BY <1>4 DEF Txs, TxsOn
<1>6. IsSeq(blocks)
  BY <1>3, SeqOfOwn
<1> QED BY <1>5, <1>6

LEMMA ChainTableIs ==
    ASSUME NEW chain, NEW t \in 0..Len(chain), Linked(chain)
    PROVE  ChainTable(chain, t) = Unspent(TxsOn(chain, t), TxsOn(chain, t))
BY WalkTxs DEF ChainTable, FindUTXOMap

\* What a new block adds to the chain it extends.
LEMMA TxsExtended ==
    ASSUME NEW chain, NEW b, Linked(chain), b.prev \in 0..Len(chain)
    PROVE  /\ \A t \in 0..Len(chain) : TxsOn(Append(chain, b), t) = TxsOn(chain, t)
           /\ TxsOn(Append(chain, b), Len(chain) + 1) = TxsOn(chain, b.prev) \cup ToSet(b.txs)
<1> DEFINE N == Len(chain)
           next == Append(chain, b)
<1>1. N \in Nat /\ DOMAIN chain = 1..N
  BY DEF Linked, IsSeq
<1>2. /\ Linked(next) /\ N + 1 \in DOMAIN next
      /\ \A k \in 1..N : next[k] = chain[k]
      /\ next[N + 1] = b
  BY <1>1, AppendSet, BackExtended DEF Linked
<1>3. ASSUME NEW t \in 0..N PROVE TxsOn(next, t) = TxsOn(chain, t)
  <2>1. Back(next, t) = Back(chain, t)
    BY BackExtended
  <2>2. ToSet(Back(chain, t)) \subseteq 1..N
    <3>1. ToSet(Back(chain, t)) \subseteq 1..t
      BY BackWalks
    <3> QED BY <3>1, <1>1
  <2> HIDE DEF next, N
  <2> QED BY <1>2, <2>1, <2>2 DEF TxsOn
<1>4. TxsOn(next, N + 1) = TxsOn(next, b.prev) \cup ToSet(b.txs)
  <2>1. ToSet(Back(next, N + 1)) = {N + 1} \cup ToSet(Back(next, b.prev))
    <3> HIDE DEF next
    <3> QED BY <1>2, BackWalks
  <2> HIDE DEF next, N
  <2> QED BY <2>1, <1>2 DEF TxsOn
<1> QED BY <1>3, <1>4

-----------------------------------------------------------------------------
(* Sums. *)

\* Induction on the subsets of a finite set.
LEMMA SubsetInduction ==
    ASSUME NEW U, IsFiniteSet(U), NEW P,
           \A s \in SUBSET U : (\A r \in SUBSET s : r # s => r \in P) => s \in P
    PROVE  SUBSET U \subseteq P
<1> DEFINE N == {k \in Nat : \A s \in SUBSET U : Cardinality(s) = k => s \in P}
<1>1. ASSUME NEW k \in Nat, \A m \in 0..k - 1 : m \in N PROVE k \in N
  <2> SUFFICES ASSUME NEW s \in SUBSET U, Cardinality(s) = k PROVE s \in P
    OBVIOUS
  <2>1. IsFiniteSet(s)
    BY FS_Subset
  <2>2. ASSUME NEW r \in SUBSET s, r # s PROVE r \in P
    <3>1. IsFiniteSet(r) /\ Cardinality(r) \in Nat /\ Cardinality(r) <= Cardinality(s)
          /\ Cardinality(r) # Cardinality(s)
      BY <2>1, <2>2, FS_Subset, FS_CardinalityType
    <3>2. Cardinality(r) \in 0..k - 1 /\ r \in SUBSET U
      BY <3>1
    <3> QED BY <3>2, <1>1
  <2> QED BY <2>2
<1>2. Nat \subseteq N
  <2> HIDE DEF N
  <2> QED BY <1>1, StrongInduction
<1> SUFFICES ASSUME NEW s \in SUBSET U PROVE s \in P
  OBVIOUS
<1>3. Cardinality(s) \in Nat
  BY FS_Subset, FS_CardinalityType
<1>4. Cardinality(s) \in N
  <2> HIDE DEF N
  <2> QED BY <1>2, <1>3
<1> QED BY <1>4

\* The sum of f over one element after another.
SumOver(f, s, g) == IF s = {} THEN 0 ELSE LET x == CHOOSE x \in s : TRUE IN f[x] + g[s \ {x}]
Sums(g, f, S) == g = [s \in SUBSET S |-> SumOver(f, s, g)]
SumOf(f, S) == (CHOOSE g : Sums(g, f, S))[S]

LEMMA SumExists ==
    ASSUME NEW f, NEW S, IsFiniteSet(S)
    PROVE  \E g : Sums(g, f, S)
<1> DEFINE D(k) == {s \in SUBSET S : Cardinality(s) <= k}
           Upto(k, g) == g = [s \in D(k) |-> SumOver(f, s, g)]
           N == {k \in Nat : \E g : Upto(k, g)}
<1>1. \A s \in SUBSET S : IsFiniteSet(s) /\ Cardinality(s) \in Nat
  BY FS_Subset, FS_CardinalityType
<1>2. ASSUME NEW s \in SUBSET S, s # {}
      PROVE  LET x == CHOOSE x \in s : TRUE
             IN  s \ {x} \in SUBSET S /\ Cardinality(s \ {x}) = Cardinality(s) - 1
  BY <1>1, <1>2, FS_RemoveElement
<1>3. ASSUME NEW k \in Nat, \A m \in 0..k - 1 : m \in N PROVE k \in N
  <2>1. CASE k = 0
    <3> DEFINE g == [s \in D(k) |-> 0]
    <3>1. \A s \in D(k) : s = {}
      BY <1>1, <2>1, FS_EmptySet
    <3>2. \A s \in D(k) : SumOver(f, s, g) = 0
      BY <3>1 DEF SumOver
    <3>3. Upto(k, g)
      <4> HIDE DEF D
      <4> QED BY <3>2
    <3> QED BY <3>3
  <2>2. CASE k # 0
    <3>1. k - 1 \in 0..k - 1
      BY <2>2
    <3>2. PICK h : Upto(k - 1, h)
      <4>1. k - 1 \in N
        <5> HIDE DEF N
        <5> QED BY <1>3, <3>1
      <4> HIDE DEF Upto
      <4> QED BY <4>1
    <3> DEFINE g == [s \in D(k) |-> IF s \in D(k - 1) THEN h[s] ELSE SumOver(f, s, h)]
    <3>3. ASSUME NEW s \in D(k) PROVE g[s] = SumOver(f, s, g)
      <4>1. g[s] = SumOver(f, s, h)
        <5> HIDE DEF D
        <5> QED BY <3>2
      <4>2. CASE s = {}
        BY <4>1, <4>2 DEF SumOver
      <4>3. CASE s # {}
        <5> DEFINE x == CHOOSE x \in s : TRUE
        <5>1. s \ {x} \in D(k - 1) /\ s \ {x} \in D(k)
          BY <1>1, <1>2, <3>1, <4>3
        <5>2. g[s \ {x}] = h[s \ {x}]
          <6> HIDE DEF D, x
          <6> QED BY <5>1
        <5> HIDE DEF g
        <5> QED BY <4>1, <4>3, <5>2 DEF SumOver
      <4> QED BY <4>2, <4>3
    <3>4. Upto(k, g)
      <4>1. g = [s \in D(k) |-> g[s]]
        OBVIOUS
      <4> HIDE DEF g, D
      <4> QED BY <3>3, <4>1
    <3> QED BY <3>4
  <2> QED BY <2>1, <2>2
<1>4. Cardinality(S) \in N
  <2> HIDE DEF N
  <2>1. Nat \subseteq N
    BY <1>3, StrongInduction
  <2> QED BY <2>1, <1>1
<1>5. D(Cardinality(S)) = SUBSET S
  <2>1. \A s \in SUBSET S : Cardinality(s) <= Cardinality(S)
    BY FS_Subset
  <2> QED BY <2>1
<1>6. PICK g : Upto(Cardinality(S), g)
  <2> HIDE DEF Upto
  <2> QED BY <1>4
<1> HIDE DEF D
<1> QED BY <1>5, <1>6 DEF Sums

\* Sums over a set agree on what they have in common.
LEMMA SumsAgree ==
    ASSUME NEW f, NEW S, NEW T, IsFiniteSet(T), T \subseteq S,
           NEW g, Sums(g, f, S), NEW h, Sums(h, f, T)
    PROVE  g[T] = h[T]
<1> DEFINE P == {s \in SUBSET T : g[s] = h[s]}
<1>1. ASSUME NEW s \in SUBSET T, \A r \in SUBSET s : r # s => r \in P PROVE s \in P
  <2>1. g[s] = SumOver(f, s, g) /\ h[s] = SumOver(f, s, h)
    BY DEF Sums
  <2>2. CASE s = {}
    BY <2>1, <2>2 DEF SumOver
  <2>3. CASE s # {}
    <3> DEFINE x == CHOOSE x \in s : TRUE
    <3>1. s \ {x} \in SUBSET s /\ s \ {x} # s
      BY <2>3
    <3>2. g[s \ {x}] = h[s \ {x}]
      BY <3>1, <1>1
    <3> QED BY <2>1, <2>3, <3>2 DEF SumOver
  <2> QED BY <2>2, <2>3
<1>2. SUBSET T \subseteq P
  <2> HIDE DEF P
  <2> QED BY <1>1, SubsetInduction
<1> QED BY <1>2

LEMMA SumIs ==
    ASSUME NEW f, NEW S, NEW T, IsFiniteSet(S), T \subseteq S, NEW g, Sums(g, f, S)
    PROVE  SumOf(f, T) = g[T]
<1> DEFINE h == CHOOSE h : Sums(h, f, T)
<1>1. IsFiniteSet(T)
  BY FS_Subset
<1>2. Sums(h, f, T)
  BY <1>1, SumExists
<1>3. SumOf(f, T) = h[T]
  BY DEF SumOf
<1> HIDE DEF h
<1> QED BY <1>1, <1>2, <1>3, SumsAgree

LEMMA SumStep ==
    ASSUME NEW f, NEW S, IsFiniteSet(S)
    PROVE  IF S = {} THEN SumOf(f, S) = 0
           ELSE \E x \in S : SumOf(f, S) = f[x] + SumOf(f, S \ {x})
<1>1. PICK g : Sums(g, f, S)
  BY SumExists
<1>2. SumOf(f, S) = g[S] /\ \A x \in S : SumOf(f, S \ {x}) = g[S \ {x}]
  BY <1>1, SumIs
<1>3. g[S] = SumOver(f, S, g)
  BY <1>1 DEF Sums
<1> QED BY <1>2, <1>3 DEF SumOver

LEMMA SumType ==
    ASSUME NEW f, NEW S, IsFiniteSet(S), \A x \in S : f[x] \in Int
    PROVE  SumOf(f, S) \in Int
<1> DEFINE P == {s \in SUBSET S : SumOf(f, s) \in Int}
<1>1. ASSUME NEW s \in SUBSET S, \A r \in SUBSET s : r # s => r \in P PROVE s \in P
  <2>1. IsFiniteSet(s)
    BY FS_Subset
  <2>2. CASE s = {}
    BY <2>1, <2>2, SumStep
  <2>3. CASE s # {}
    <3>1. PICK x \in s : SumOf(f, s) = f[x] + SumOf(f, s \ {x})
      BY <2>1, <2>3, SumStep
    <3>2. s \ {x} \in P
      BY <1>1
    <3> QED BY <3>1, <3>2
  <2> QED BY <2>2, <2>3
<1>2. SUBSET S \subseteq P
  <2> HIDE DEF P
  <2> QED BY <1>1, SubsetInduction
<1> QED BY <1>2

\* Any element may come first.
LEMMA SumRemove ==
    ASSUME NEW f, NEW S, IsFiniteSet(S), \A x \in S : f[x] \in Int, NEW x \in S
    PROVE  SumOf(f, S) = f[x] + SumOf(f, S \ {x})
<1> DEFINE P == {s \in SUBSET S : \A y \in s : SumOf(f, s) = f[y] + SumOf(f, s \ {y})}
<1>1. ASSUME NEW s \in SUBSET S, \A r \in SUBSET s : r # s => r \in P PROVE s \in P
  <2> SUFFICES ASSUME NEW y \in s PROVE SumOf(f, s) = f[y] + SumOf(f, s \ {y})
    OBVIOUS
  <2>1. PICK c \in s : SumOf(f, s) = f[c] + SumOf(f, s \ {c})
    <3>1. IsFiniteSet(s)
      BY FS_Subset
    <3> QED BY <3>1, SumStep
  <2>2. CASE y # c
    <3> DEFINE r == s \ {c, y}
    <3>1. (s \ {c}) \ {y} = r /\ (s \ {y}) \ {c} = r
      OBVIOUS
    <3>2. s \ {c} \in P /\ s \ {y} \in P
      BY <1>1
    <3>3. SumOf(f, s \ {c}) = f[y] + SumOf(f, r) /\ SumOf(f, s \ {y}) = f[c] + SumOf(f, r)
      <4> HIDE DEF r
      <4> QED BY <2>2, <3>1, <3>2
    <3>4. SumOf(f, r) \in Int
      <4>1. IsFiniteSet(r)
        BY FS_Subset
      <4> QED BY <4>1, SumType
    <3> HIDE DEF r
    <3> QED BY <2>1, <3>3, <3>4
  <2> QED BY <2>1, <2>2
<1>2. SUBSET S \subseteq P
  <2> HIDE DEF P
  <2> QED BY <1>1, SubsetInduction
<1>3. S \in P
  <2> HIDE DEF P
  <2> QED BY <1>2
<1> QED BY <1>3

LEMMA SumUnion ==
    ASSUME NEW f, NEW A, NEW B, IsFiniteSet(A), IsFiniteSet(B), A \cap B = {},
           \A x \in A \cup B : f[x] \in Int
    PROVE  SumOf(f, A \cup B) = SumOf(f, A) + SumOf(f, B)
<1> DEFINE P == {s \in SUBSET B : SumOf(f, A \cup s) = SumOf(f, A) + SumOf(f, s)}
<1>0. SumOf(f, A) \in Int
  BY SumType
<1>1. ASSUME NEW s \in SUBSET B, \A r \in SUBSET s : r # s => r \in P PROVE s \in P
  <2>1. IsFiniteSet(s) /\ IsFiniteSet(A \cup s)
    BY FS_Subset, FS_Union
  <2>2. CASE s = {}
    BY <1>0, <2>1, <2>2, SumStep
  <2>3. CASE s # {}
    <3>1. PICK x \in s : TRUE
      BY <2>3
    <3> DEFINE r == s \ {x}
    <3>2. r \in P /\ (A \cup s) \ {x} = A \cup r
      BY <1>1
    <3>3. SumOf(f, A \cup s) = f[x] + SumOf(f, A \cup r) /\ SumOf(f, s) = f[x] + SumOf(f, r)
      <4> HIDE DEF r, P
      <4>1. SumOf(f, A \cup s) = f[x] + SumOf(f, (A \cup s) \ {x})
        BY <2>1, SumRemove
      <4>2. SumOf(f, s) = f[x] + SumOf(f, s \ {x})
        BY <2>1, SumRemove
      <4> QED BY <3>2, <4>1, <4>2 DEF r
    <3>4. SumOf(f, r) \in Int
      <4>1. IsFiniteSet(r)
        BY <2>1, FS_Subset
      <4> QED BY <4>1, SumType
    <3>5. SumOf(f, A \cup r) = SumOf(f, A) + SumOf(f, r)
      BY <3>2
    <3> HIDE DEF r
    <3> QED BY <1>0, <3>3, <3>4, <3>5
  <2> QED BY <2>2, <2>3
<1>2. SUBSET B \subseteq P
  <2> HIDE DEF P
  <2> QED BY <1>1, SubsetInduction
<1> QED BY <1>2

\* Counted by name or by value.
LEMMA SumRenamed ==
    ASSUME NEW f, NEW v, NEW p, NEW I, IsFiniteSet(I),
           \A i \in I : f[i] \in Int /\ v[p[i]] = f[i],
           \A i, j \in I : p[i] = p[j] => i = j
    PROVE  SumOf(f, I) = SumOf(v, {p[i] : i \in I})
<1> DEFINE V(s) == {p[i] : i \in s}
           P == {s \in SUBSET I : SumOf(f, s) = SumOf(v, V(s))}
<1>1. ASSUME NEW s \in SUBSET I, \A r \in SUBSET s : r # s => r \in P PROVE s \in P
  <2>1. IsFiniteSet(s)
    BY FS_Subset
  <2>2. CASE s = {}
    <3>1. V(s) = {}
      BY <2>2
    <3> HIDE DEF V
    <3> QED BY <2>1, <2>2, <3>1, SumStep
  <2>3. CASE s # {}
    <3>1. PICK x \in s : TRUE
      BY <2>3
    <3> DEFINE r == s \ {x}
    <3>2. r \in P
      BY <1>1
    <3>3. V(s) \ {p[x]} = V(r) /\ p[x] \in V(s) /\ \A y \in V(s) : v[y] \in Int
      OBVIOUS
    <3>4. IsFiniteSet(V(s))
      <4> DEFINE g == [i \in s |-> p[i]]
      <4>1. g \in Surjection(s, V(s))
        BY DEF Surjection
      <4> QED BY <2>1, <4>1, FS_Surjection
    <3>5. SumOf(f, s) = f[x] + SumOf(f, r) /\ SumOf(v, V(s)) = v[p[x]] + SumOf(v, V(r))
      <4> HIDE DEF V, r, P
      <4>1. SumOf(f, s) = f[x] + SumOf(f, s \ {x})
        BY <2>1, SumRemove
      <4>2. SumOf(v, V(s)) = v[p[x]] + SumOf(v, V(s) \ {p[x]})
        BY <3>3, <3>4, SumRemove
      <4> QED BY <3>3, <4>1, <4>2 DEF r
    <3>6. SumOf(f, r) = SumOf(v, V(r)) /\ v[p[x]] = f[x]
      BY <3>2
    <3> HIDE DEF V, r
    <3> QED BY <3>5, <3>6
  <2> QED BY <2>2, <2>3
<1>2. SUBSET I \subseteq P
  <2> HIDE DEF P
  <2> QED BY <1>1, SubsetInduction
<1> QED BY <1>2

LEMMA TotalIs ==
    ASSUME NEW S, IsFiniteSet(S), NEW U, S \subseteq U
    PROVE  Total(S) = SumOf([u \in U |-> u.value], S)
<1> DEFINE f == [u \in U |-> u.value]
           Adding(s, g) == IF s = {} THEN 0
                          ELSE LET x == CHOOSE x \in s : TRUE IN x.value + g[s \ {x}]
           It == CHOOSE g : g = [s \in SUBSET S |-> Adding(s, g)]
<1>1. Total(S) = It[S]
  BY DEF Total, MapThenSumSet, MapThenFoldSet
<1>2. \A g : \A s \in SUBSET S : Adding(s, g) = SumOver(f, s, g)
  BY DEF SumOver
<1>3. \A g : Sums(g, f, S) <=> g = [s \in SUBSET S |-> Adding(s, g)]
  <2> HIDE DEF Adding, f
  <2> QED BY <1>2 DEF Sums
<1>4. Sums(It, f, S)
  <2>1. \E g : g = [s \in SUBSET S |-> Adding(s, g)]
    <3> HIDE DEF Adding, f
    <3> QED BY <1>3, SumExists
  <2>2. It = [s \in SUBSET S |-> Adding(s, It)]
    <3> HIDE DEF Adding
    <3> QED BY <2>1
  <2> HIDE DEF It, Adding, f
  <2> QED BY <1>3, <2>2
<1> HIDE DEF It, f
<1>5. SumOf(f, S) = It[S]
  BY <1>4, SumIs
<1> QED BY <1>1, <1>5 DEF f

LEMMA MoneyIs ==
    ASSUME NEW p, IsFiniteSet(DOMAIN p)
    PROVE  Money(p) = SumOf([k \in DOMAIN p |-> p[k].value], DOMAIN p)
<1> DEFINE f == [k \in DOMAIN p |-> p[k].value]
           S == DOMAIN p
           Adding(s, g) == IF s = {} THEN 0
                          ELSE LET x == CHOOSE x \in s : TRUE IN p[x].value + g[s \ {x}]
           It == CHOOSE g : g = [s \in SUBSET S |-> Adding(s, g)]
<1>1. Money(p) = It[S]
  BY DEF Money, MapThenSumSet, MapThenFoldSet
<1>2. \A g : \A s \in SUBSET S : Adding(s, g) = SumOver(f, s, g)
  BY DEF SumOver
<1>3. \A g : Sums(g, f, S) <=> g = [s \in SUBSET S |-> Adding(s, g)]
  <2> HIDE DEF Adding, f
  <2> QED BY <1>2 DEF Sums
<1>4. Sums(It, f, S)
  <2>1. \E g : g = [s \in SUBSET S |-> Adding(s, g)]
    <3> HIDE DEF Adding, f
    <3> QED BY <1>3, SumExists
  <2>2. It = [s \in SUBSET S |-> Adding(s, It)]
    <3> HIDE DEF Adding
    <3> QED BY <2>1
  <2> HIDE DEF It, Adding, f
  <2> QED BY <1>3, <2>2
<1> HIDE DEF It, f
<1>5. SumOf(f, S) = It[S]
  BY <1>4, SumIs
<1> QED BY <1>1, <1>5 DEF f

-----------------------------------------------------------------------------
(* The messages under way. *)

IsNet(B) == B \in [BagToSet(B) -> Nat \ {0}]

\* One copy of a message is taken, others are added.
LEMMA Exchanged ==
    ASSUME NEW B, NEW m, NEW R, IsNet(B)
    PROVE  LET left == B (-) SetToBag({m})
               next == left (+) SetToBag(R)
           IN  /\ IsNet(left) /\ IsNet(next)
               /\ BagToSet(left) \subseteq BagToSet(B)
               /\ BagToSet(B) \ {m} \subseteq BagToSet(left)
               /\ BagToSet(next) = BagToSet(left) \cup R
<1> DEFINE left == B (-) SetToBag({m})
           rest == {e \in BagToSet(B) : e = m => B[e] > 1}
           next == left (+) SetToBag(R)
<1>1. left = [e \in rest |-> IF e = m THEN B[e] - 1 ELSE B[e]]
  BY DEF IsNet, BagToSet, SetToBag, (-)
<1>2. IsNet(left) /\ BagToSet(left) = rest
  BY <1>1 DEF IsNet, BagToSet
<1>3. IsNet(next) /\ BagToSet(next) = BagToSet(left) \cup R
  <2> HIDE DEF left
  <2> QED BY <1>2 DEF IsNet, BagToSet, SetToBag, (+)
<1> QED BY <1>2, <1>3

LEMMA Added ==
    ASSUME NEW B, NEW R, IsNet(B)
    PROVE  IsNet(B (+) SetToBag(R)) /\ BagToSet(B (+) SetToBag(R)) = BagToSet(B) \cup R
BY DEF IsNet, BagToSet, SetToBag, (+)

LEMMA Lost ==
    ASSUME NEW B, NEW S, S \subseteq BagToSet(B), IsNet(B)
    PROVE  IsNet([m \in S |-> B[m]]) /\ BagToSet([m \in S |-> B[m]]) = S
BY DEF IsNet, BagToSet

-----------------------------------------------------------------------------
(* The table of unspent outputs. *)

LEMMA NothingSpent ==
    ASSUME NEW t, NEW fresh
    PROVE  SpendAll({}, t, fresh) = [table |-> t, aside |-> fresh]
<1> DEFINE b == [table |-> t, aside |-> fresh]
           Step(s, g) == IF s = {} THEN b
                         ELSE LET x == CHOOSE x \in s : TRUE IN Spend(x, g[s \ {x}])
           It == CHOOSE g : g = [s \in SUBSET {} |-> Step(s, g)]
<1>1. SpendAll({}, t, fresh) = It[{}]
  BY DEF SpendAll, FoldSet, MapThenFoldSet
<1>2. [s \in SUBSET {} |-> b] = [s \in SUBSET {} |-> Step(s, [s1 \in SUBSET {} |-> b])]
  OBVIOUS
<1>3. It = [s \in SUBSET {} |-> Step(s, It)]
  <2> HIDE DEF Step
  <2> QED BY <1>2
<1>4. It[{}] = Step({}, It)
  <2> HIDE DEF It, Step
  <2> QED BY <1>3
<1> QED BY <1>1, <1>4

LEMMA UtxosHaveId == ASSUME NEW tx, NEW u \in Utxos(tx) PROVE u.tx = tx.id
BY DEF Utxos

\* Update finds nothing to do in a table that counts the block already.
LEMMA UpdateAfterReset ==
    ASSUME NEW old, NEW new,
           \A tx \in old, ty \in new : tx.id # ty.id /\ \A in \in tx.ins : in.tx # ty.id
    PROVE  Update(Unspent(old \cup new, old \cup new), new) = Unspent(old \cup new, old \cup new)
<1> DEFINE all == old \cup new
           T == Unspent(all, all)
           F == Unspent(new, new)
<1>1. {in \in Ins(new) : \E u \in T : Spends(in, u)} = {}
  BY DEF Unspent, Ins
<1>2. Update(T, new) = {u \in T : {v \in F : v.tx = u.tx} = {}} \cup F
  <2> DEFINE I == {in \in Ins(new) : \E u \in T : Spends(in, u)}
  <2>1. SpendAll(I, T, F) = [table |-> T, aside |-> F]
    <3> HIDE DEF I, T, F
    <3>1. I = {}
      BY <1>1 DEF I
    <3> QED BY <3>1, NothingSpent
  <2>2. Update(T, new) = {u \in SpendAll(I, T, F).table : Entry(SpendAll(I, T, F).aside, u.tx) = {}}
                             \cup SpendAll(I, T, F).aside
    <3> HIDE DEF T
    <3> QED BY DEF Update
  <2> HIDE DEF I, T, F
  <2> QED BY <2>1, <2>2 DEF Entry
<1>3. ASSUME NEW u \in T, NEW v \in F, v.tx = u.tx PROVE u \in F
  <2>1. PICK tx \in all : u \in Utxos(tx) /\ \A in \in Ins(all) : ~Spends(in, u)
    BY DEF Unspent
  <2>2. PICK ty \in new : v \in Utxos(ty)
    BY DEF Unspent
  <2>3. tx.id = ty.id
    BY <1>3, <2>1, <2>2, UtxosHaveId
  <2>4. tx \in new
    BY <2>1, <2>3
  <2>5. Ins(new) \subseteq Ins(all)
    BY DEF Ins
  <2> QED BY <2>1, <2>4, <2>5 DEF Unspent
<1>4. ASSUME NEW u \in F PROVE u \in T
  <2>1. PICK tx \in new : u \in Utxos(tx) /\ \A in \in Ins(new) : ~Spends(in, u)
    BY DEF Unspent
  <2>2. \A in \in Ins(old) : ~Spends(in, u)
    <3>1. u.tx = tx.id
      BY <2>1, UtxosHaveId
    <3> QED BY <3>1 DEF Ins, Spends
  <2>3. Ins(all) = Ins(old) \cup Ins(new)
    BY DEF Ins
  <2> QED BY <2>1, <2>2, <2>3 DEF Unspent
<1> QED BY <1>2, <1>3, <1>4

-----------------------------------------------------------------------------
(* What a transfer spends. *)

LEMMA FiniteImage ==
    ASSUME NEW S, IsFiniteSet(S), NEW f
    PROVE  IsFiniteSet({f[x] : x \in S})
<1> DEFINE g == [x \in S |-> f[x]]
<1>1. g \in Surjection(S, {f[x] : x \in S})
  BY DEF Surjection
<1> QED BY <1>1, FS_Surjection

LEMMA FiniteToSet == ASSUME NEW s, IsSeq(s) PROVE IsFiniteSet(ToSet(s))
<1>1. IsFiniteSet(DOMAIN s)
  BY FS_Interval DEF IsSeq
<1> QED BY <1>1, FiniteImage DEF ToSet

LEMMA FiniteUtxos == ASSUME NEW tx, IsSeq(tx.outs) PROVE IsFiniteSet(Utxos(tx))
<1> DEFINE f == [k \in DOMAIN tx.outs |->
                    [tx |-> tx.id, index |-> k, to |-> tx.outs[k].to, value |-> tx.outs[k].value]]
<1>1. IsFiniteSet(DOMAIN tx.outs)
  BY FS_Interval DEF IsSeq
<1>2. Utxos(tx) = {f[k] : k \in DOMAIN tx.outs}
  BY DEF Utxos
<1> HIDE DEF f
<1> QED BY <1>1, <1>2, FiniteImage

LEMMA DivisionBound ==
    ASSUME NEW t \in Nat \ {0}, NEW n \in Nat, NEW k \in 1..t * n
    PROVE  (k - 1) \div t + 1 \in 1..n
<1> DEFINE q == (k - 1) \div t
<1>1. t * n \in Nat /\ k \in Nat \ {0}
  OBVIOUS
<1>2. q \in Nat /\ t * q <= k - 1
  BY <1>1
<1>3. ASSUME q >= n PROVE FALSE
  <2>1. t * n <= t * q
    <3> DEFINE d == q - n
    <3>1. d \in Nat /\ q = n + d
      <4> HIDE DEF q
      <4> QED BY <1>2, <1>3
    <3>2. t * d \in Nat
      <4> HIDE DEF d
      <4> QED BY <3>1
    <3>3. t * (n + d) = t * n + t * d
      <4> HIDE DEF d
      <4> QED BY <3>1
    <3> HIDE DEF d, q
    <3> QED BY <1>1, <3>1, <3>2, <3>3
  <2> HIDE DEF q
  <2> QED BY <1>1, <1>2, <2>1
<1> HIDE DEF q
<1>4. q + 1 \in 1..n
  BY <1>2, <1>3
<1> QED BY <1>4 DEF q

LEMMA OrdersAreSeqs ==
    ASSUME NEW from, NEW t, IsFiniteSet(t), NEW o \in Orders(from, t)
    PROVE  o \in Seq({u \in t : u.to = from})
<1> DEFINE S == {u \in t : u.to = from}
<1>1. IsFiniteSet(S) /\ Cardinality(S) \in Nat
  BY FS_Subset, FS_CardinalityType
<1>2. o \in [1..Cardinality(S) -> S]
  BY DEF Orders, SetToSeqs
<1> HIDE DEF S
<1>3. o \in Seq(S)
  BY <1>1, <1>2
<1> QED BY <1>3 DEF S

\* Every output a transfer takes is the sender's, from the block or the table.
LEMMA Chosen ==
    ASSUME NEW from, NEW amount, NEW t, NEW pending, IsFiniteSet(t), IsFiniteSet(pending),
           \A tx \in pending : IsSeq(tx.outs) /\ IsFiniteSet(tx.ins),
           NEW p \in FindSpendableUTXOs(from, amount, t, pending)
    PROVE  /\ IsSeq(p) /\ p # <<>> /\ Money(p) >= amount
           /\ ToSet(p) \subseteq {u \in t \cup UNION {Utxos(tx) : tx \in pending} : u.to = from}
<1> DEFINE O == UNION {Utxos(tx) : tx \in pending}
           S == {u \in t \cup O : u.to = from}
<1>1. PICK first \in FindUnPackageSpendableUTXOs(from, pending), second \in Orders(from, t) :
         p \in Prefixes(first \o second) /\ p # <<>> /\ Money(p) >= amount
  BY DEF FindSpendableUTXOs
<1>2. second \in Seq(S)
  <2>1. second \in Seq({u \in t : u.to = from})
    BY OrdersAreSeqs
  <2> QED BY <2>1
<1>3. first \in Seq(S)
  <2>1. IsFiniteSet(O)
    <3> DEFINE f == [tx \in pending |-> Utxos(tx)]
    <3>1. {f[tx] : tx \in pending} = {Utxos(tx) : tx \in pending}
      OBVIOUS
    <3>2. IsFiniteSet({f[tx] : tx \in pending})
      <4> HIDE DEF f
      <4> QED BY FiniteImage
    <3>3. IsFiniteSet({Utxos(tx) : tx \in pending})
      BY <3>1, <3>2
    <3> QED BY <3>3, FS_UNION, FiniteUtxos
  <2> DEFINE K == {in.tx : in \in {i \in Ins(pending) : i.by = from}}
             times == IF Cardinality(K) = 0 THEN 1 ELSE Cardinality(K)
  <2>2. IsFiniteSet(K)
    <3> DEFINE f == [tx \in pending |-> tx.ins]
               I == {i \in Ins(pending) : i.by = from}
               g == [in \in I |-> in.tx]
    <3>1. {f[tx] : tx \in pending} = {tx.ins : tx \in pending}
      OBVIOUS
    <3>2. IsFiniteSet({f[tx] : tx \in pending})
      <4> HIDE DEF f
      <4> QED BY FiniteImage
    <3>3. IsFiniteSet({tx.ins : tx \in pending})
      BY <3>1, <3>2
    <3>4. IsFiniteSet(Ins(pending))
      BY <3>3, FS_UNION DEF Ins
    <3>5. IsFiniteSet(I)
      BY <3>4, FS_Subset
    <3>6. K = {g[in] : in \in I}
      OBVIOUS
    <3> HIDE DEF g, I, K
    <3> QED BY <3>5, <3>6, FiniteImage
  <2>3. times \in Nat \ {0}
    BY <2>2, FS_CardinalityType
  <2>4. PICK own \in Orders(from, O) :
           first = [k \in 1..times * Len(own) |-> own[(k - 1) \div times + 1]]
    BY <1>1 DEF FindUnPackageSpendableUTXOs
  <2>5. own \in Seq(S)
    <3>1. own \in Seq({u \in O : u.to = from})
      BY <2>1, OrdersAreSeqs
    <3> QED BY <3>1
  <2> HIDE DEF times, S, K
  <2>6. Len(own) \in Nat /\ times * Len(own) \in Nat /\ \A j \in 1..Len(own) : own[j] \in S
    BY <2>3, <2>5
  <2>7. \A k \in 1..times * Len(own) : own[(k - 1) \div times + 1] \in S
    BY <2>3, <2>6, DivisionBound
  <2> QED BY <2>4, <2>6, <2>7
<1>4. p \in Seq(S)
  <2>1. first \o second \in Seq(S)
    BY <1>2, <1>3
  <2>2. PICK l \in 0..Len(first \o second) : p = SubSeq(first \o second, 1, l)
    BY <1>1 DEF Prefixes
  <2> HIDE DEF S
  <2> QED BY <2>1, <2>2, SubSeqProperties
<1>5. IsSeq(p) /\ ToSet(p) \subseteq S
  BY <1>4, SeqOfOwn
<1> QED BY <1>1, <1>5

\* Some output of O is what the input spends.
SpendsFrom(in, O) == \E u \in O : Spends(in, u)

\* What the transactions of the model are like.
TxOK(tx) == IsSeq(tx.outs) /\ IsFiniteSet(tx.ins)

LEMMA TransferOK ==
    ASSUME NEW id, NEW t, NEW utxos, NEW pending, IsFiniteSet(utxos), IsFiniteSet(pending),
           \A tx \in pending : TxOK(tx),
           NEW tx \in NewSimpleTransaction(id, t, utxos, pending)
    PROVE  /\ tx.id = id /\ TxOK(tx)
           /\ \A in \in tx.ins : SpendsFrom(in, utxos \cup UNION {Utxos(ty) : ty \in pending})
<1> DEFINE O == utxos \cup UNION {Utxos(ty) : ty \in pending}
           In(u, p) == Input(u.tx, u.index, t.from, Cardinality({k \in DOMAIN p : p[k] = u}))
<1>1. PICK p \in FindSpendableUTXOs(t.from, t.amount, utxos, pending) :
         tx = [id |-> id, ins |-> {In(u, p) : u \in ToSet(p)},
               outs |-> TransferOutputs(t, Money(p))]
  BY DEF NewSimpleTransaction
<1>2. IsSeq(p) /\ ToSet(p) \subseteq {u \in O : u.to = t.from}
  <2> HIDE DEF O
  <2> QED BY Chosen DEF TxOK, O
<1>3. IsSeq(tx.outs)
  BY <1>1 DEF TransferOutputs, IsSeq, ToSet
<1>4. IsFiniteSet(tx.ins)
  <2> DEFINE f == [u \in ToSet(p) |-> In(u, p)]
  <2>1. tx.ins = {f[u] : u \in ToSet(p)}
    BY <1>1
  <2> HIDE DEF f
  <2> QED BY <2>1, <1>2, FiniteToSet, FiniteImage
<1>5. \A in \in tx.ins : SpendsFrom(in, O)
  <2> SUFFICES ASSUME NEW u \in ToSet(p) PROVE SpendsFrom(In(u, p), O)
    BY <1>1
  <2>1. u \in O /\ u.to = t.from
    BY <1>2
  <2>2. Spends(In(u, p), u)
    BY <2>1 DEF Input, Spends
  <2> QED BY <2>1, <2>2 DEF SpendsFrom
<1> QED BY <1>1, <1>3, <1>4, <1>5 DEF TxOK

LEMMA CoinbaseOK ==
    ASSUME NEW id, NEW to
    PROVE  LET tx == NewCoinbaseTransaction(id, to) IN tx.id = id /\ TxOK(tx) /\ tx.ins = {}
BY FS_EmptySet DEF NewCoinbaseTransaction, TxOK, IsSeq, ToSet

\* A packed block spends from the table and from itself.
LEMMA PackedOK ==
    ASSUME NEW next \in Nat, NEW transfers, NEW utxos, IsFiniteSet(utxos),
           NEW txs \in PackedBlocks(next, transfers, utxos)
    PROVE  /\ IsSeq(txs)
           /\ \A tx \in ToSet(txs) :
                 /\ tx.id \in next..next + 2 /\ TxOK(tx)
                 /\ \A in \in tx.ins :
                       SpendsFrom(in, utxos \cup UNION {Utxos(ty) : ty \in ToSet(txs)})
           /\ \A tx, ty \in ToSet(txs) : tx.id = ty.id => tx = ty
<1> DEFINE Coin(id) == NewCoinbaseTransaction(id, transfers[1].from)
           Fine == /\ IsSeq(txs)
                   /\ \A tx \in ToSet(txs) :
                         /\ tx.id \in next..next + 2 /\ TxOK(tx)
                         /\ \A in \in tx.ins :
                               SpendsFrom(in, utxos \cup UNION {Utxos(ty) : ty \in ToSet(txs)})
                   /\ \A tx, ty \in ToSet(txs) : tx.id = ty.id => tx = ty
<1>1. IsFiniteSet({}) /\ \A x : IsFiniteSet({x})
  BY FS_EmptySet, FS_Singleton
<1>2. ASSUME NEW tx \in NewSimpleTransaction(next, transfers[1], utxos, {}),
             txs = <<tx, Coin(next + 1)>>
      PROVE  Fine
  <2>1. tx.id = next /\ TxOK(tx) /\ \A in \in tx.ins : SpendsFrom(in, utxos)
    BY <1>1, TransferOK
  <2>2. Coin(next + 1).id = next + 1 /\ TxOK(Coin(next + 1)) /\ Coin(next + 1).ins = {}
    BY CoinbaseOK
  <2> HIDE DEF Coin
  <2>3. IsSeq(txs) /\ ToSet(txs) = {tx, Coin(next + 1)}
    BY <1>2 DEF IsSeq, ToSet
  <2> QED BY <2>1, <2>2, <2>3 DEF SpendsFrom
<1>3. ASSUME NEW tx \in NewSimpleTransaction(next, transfers[1], utxos, {}),
             NEW ty \in NewSimpleTransaction(next + 1, transfers[2], utxos, {tx}),
             txs = <<tx, ty, Coin(next + 2)>>
      PROVE  Fine
  <2>1. tx.id = next /\ TxOK(tx) /\ \A in \in tx.ins : SpendsFrom(in, utxos)
    BY <1>1, TransferOK
  <2>2. /\ ty.id = next + 1 /\ TxOK(ty)
        /\ \A in \in ty.ins : SpendsFrom(in, utxos \cup Utxos(tx))
    <3> DEFINE pending == {tx}
    <3>1. IsFiniteSet(pending) /\ \A tz \in pending : TxOK(tz)
      BY <1>1, <2>1
    <3>2. ty \in NewSimpleTransaction(next + 1, transfers[2], utxos, pending)
      BY <1>3
    <3>3. UNION {Utxos(tz) : tz \in pending} = Utxos(tx)
      OBVIOUS
    <3> HIDE DEF pending
    <3>4. /\ ty.id = next + 1 /\ TxOK(ty)
          /\ \A in \in ty.ins : SpendsFrom(in, utxos \cup UNION {Utxos(tz) : tz \in pending})
      BY <3>1, <3>2, TransferOK
    <3> QED BY <3>3, <3>4
  <2>3. Coin(next + 2).id = next + 2 /\ TxOK(Coin(next + 2)) /\ Coin(next + 2).ins = {}
    BY CoinbaseOK
  <2> HIDE DEF Coin
  <2>4. IsSeq(txs) /\ ToSet(txs) = {tx, ty, Coin(next + 2)}
    BY <1>3 DEF IsSeq, ToSet
  <2> QED BY <2>1, <2>2, <2>3, <2>4 DEF SpendsFrom
<1>4. \/ \E tx \in NewSimpleTransaction(next, transfers[1], utxos, {}) :
            txs = <<tx, Coin(next + 1)>>
      \/ \E tx \in NewSimpleTransaction(next, transfers[1], utxos, {}) :
            \E ty \in NewSimpleTransaction(next + 1, transfers[2], utxos, {tx}) :
               txs = <<tx, ty, Coin(next + 2)>>
  BY DEF PackedBlocks
<1> QED BY <1>2, <1>3, <1>4

-----------------------------------------------------------------------------
(* The invariant. *)

TypeOK ==
    /\ Linked(mined)
    /\ stored \in [Node -> SUBSET DOMAIN mined]
    /\ tip \in [Node -> 0..Len(mined)]
    /\ table = [n \in Node |-> table[n]]
    /\ up \in [Node -> BOOLEAN]
    /\ transactionArray \in [Node -> Seq(Nat)]
    /\ IsNet(net)

Outputs(txs) == UNION {Utxos(tx) : tx \in txs}

BlockOK(chain, h) ==
    /\ IsSeq(chain[h].txs)
    /\ \A tx \in ToSet(chain[h].txs) :
          /\ tx.id \in 3 * h - 2..3 * h /\ TxOK(tx)
          /\ \A in \in tx.ins : \E g \in 1..h : SpendsFrom(in, Outputs(ToSet(chain[g].txs)))
    /\ \A tx, ty \in ToSet(chain[h].txs) : tx.id = ty.id => tx = ty

AllTxs(chain) == UNION {ToSet(chain[h].txs) : h \in DOMAIN chain}

LedgerOK ==
    /\ \A h \in DOMAIN mined : BlockOK(mined, h)
    /\ \A n \in Node : table[n] \subseteq Outputs(AllTxs(mined))

MessageOK(m) ==
    /\ m.from \in Node /\ m.to \in Node /\ m.from # m.to /\ up[m.to]
    /\ m.kind \in {"inv", "assign"} => m.payload \in Seq(Nat)
    /\ m.kind = "inv" => ToSet(m.payload) \subseteq stored[m.from]
    /\ m.kind = "block" => m.payload \in stored[m.from]

MessagesOK == \A m \in BagToSet(net) : MessageOK(m)

\* There is one node to fetch from.
TwoNodes == \A n, k, l \in Node : n # k /\ n # l => k = l

\* Whoever n fetches from has what is on the list.
Available(n, list) == \A w \in Node \ {n} : ToSet(list) \subseteq stored[w]
AssignOK(m) == m.kind = "assign" => Available(m.to, m.payload)

ListsOK ==
    /\ \A n \in Node : Available(n, transactionArray[n])
    /\ \A m \in BagToSet(net) : AssignOK(m)

\* m, a message or a goroutine, keeps n's fetch going.
Token(m, n) ==
    \/ m.kind = "inv" /\ m.to = n /\ m.payload # <<>>
    \/ m.kind = "getdata" /\ m.from = n /\ m.payload \in stored[m.to]
    \/ m.kind \in {"block", "added", "tested", "request"} /\ m.to = n

GoesOn(n) == up[n] /\ \E m \in BagToSet(net) : Token(m, n)

SyncOK == \A n \in Node : n \in interrupted \/ Synced(n) \/ GoesOn(n)

FetchOK == ListsOK /\ SyncOK

IInv == TypeOK /\ LedgerOK /\ MessagesOK /\ (TwoNodes => FetchOK)

-----------------------------------------------------------------------------
(* Facts about states and steps. *)

\* Being in sync, of constants.
InSync(chain, t, hashes, utxos, stale) ==
    ToSet(Back(chain, t)) \subseteq hashes /\ (stale \/ utxos = ChainTable(chain, t))

LEMMA CompleteIs ==
    ASSUME NEW t, NEW hashes
    PROVE  Complete(t, hashes) <=> ToSet(Back(mined, t)) \subseteq hashes
BY DEF Complete, Walk, Back

LEMMA SyncedIs ==
    ASSUME NEW n
    PROVE  Synced(n) <=> InSync(mined, tip[n], stored[n], table[n], n \in unreset)
<1>1. FindUTXOMap(TxsOf(Walk(tip[n]))) = ChainTable(mined, tip[n])
  BY WalkIsBack DEF TxsOf, ChainTable
<1> QED BY <1>1, CompleteIs DEF Synced, InSync

LEMMA SyncedNext ==
    ASSUME NEW n
    PROVE  Synced(n)' <=> InSync(mined', tip'[n], stored'[n], table'[n], n \in unreset')
<1>1. Walk(tip[n])' = Back(mined', tip'[n])
  BY DEF Walk, Back
<1>2. FindUTXOMap(TxsOf(Walk(tip[n])))' = ChainTable(mined', tip'[n])
  BY <1>1 DEF TxsOf, ChainTable, FindUTXOMap
<1>3. Complete(tip[n], stored[n])' <=> ToSet(Back(mined', tip'[n])) \subseteq stored'[n]
  BY <1>1 DEF Complete
<1> QED BY <1>2, <1>3 DEF Synced, InSync

\* Nothing that n's ledger consists of changes.
SameLedger(n) ==
    /\ stored'[n] = stored[n] /\ tip'[n] = tip[n] /\ table'[n] = table[n]
    /\ n \in unreset' <=> n \in unreset

LEMMA SyncedSame ==
    ASSUME NEW n, mined' = mined, SameLedger(n)
    PROVE  Synced(n)' <=> Synced(n)
BY SyncedIs, SyncedNext DEF SameLedger

\* What is stored stays stored.
LEMMA AvailableNext ==
    ASSUME \A k \in Node : stored[k] \subseteq stored'[k], NEW n, NEW list, Available(n, list)
    PROVE  \A w \in Node \ {n} : ToSet(list) \subseteq stored'[w]
BY DEF Available

LEMMA AssignNext ==
    ASSUME \A k \in Node : stored[k] \subseteq stored'[k], NEW m, AssignOK(m)
    PROVE  AssignOK(m)'
<1>1. CASE m.kind = "assign"
  <2>1. \A w \in Node \ {m.to} : ToSet(m.payload) \subseteq stored'[w]
    BY <1>1, AvailableNext DEF AssignOK
  <2> QED BY <2>1 DEF AssignOK, Available, ToSet
<1>2. CASE m.kind # "assign"
  BY <1>2 DEF AssignOK
<1> QED BY <1>1, <1>2

LEMMA TokenNext ==
    ASSUME \A k \in Node : stored[k] \subseteq stored'[k], NEW m, m.to \in Node, NEW n, Token(m, n)
    PROVE  Token(m, n)'
BY DEF Token

LEMMA TokenMeansFetching ==
    ASSUME NEW n, NEW m \in BagToSet(net), Token(m, n)
    PROVE  Fetching(n)
BY DEF Token, Fetching

\* The lists and what will become of them, after a step.
LEMMA ListsNext ==
    ASSUME ListsOK, \A k \in Node : stored[k] \subseteq stored'[k],
           \A k \in Node : Available(k, transactionArray'[k]),
           \A m \in BagToSet(net') : m \in BagToSet(net) \/ AssignOK(m)
    PROVE  ListsOK'
<1>1. ASSUME NEW k \in Node PROVE Available(k, transactionArray[k])'
  <2>1. \A w \in Node \ {k} : ToSet(transactionArray'[k]) \subseteq stored'[w]
    BY AvailableNext
  <2> QED BY <2>1 DEF Available, ToSet
<1>2. ASSUME NEW m \in BagToSet(net') PROVE AssignOK(m)'
  BY AssignNext DEF ListsOK
<1> QED BY <1>1, <1>2 DEF ListsOK

\* Whoever is not left interrupted by a server that goes down had its blocks.
LEMMA DownStep ==
    ASSUME TypeOK, MessagesOK, NEW n \in Node, Down(n), mined' = mined,
           \A k \in Node : stored[k] \subseteq stored'[k],
           \A k \in Node : Fetching(k) \/ SameLedger(k)
    PROVE  /\ IsNet(net)' /\ up' \in [Node -> BOOLEAN] /\ transactionArray' \in [Node -> Seq(Nat)]
           /\ MessagesOK' /\ (FetchOK => FetchOK')
<1> DEFINE S == {k \in BagToSet(net) : k.to # n}
<1>1. net' = [m \in S |-> net[m]] /\ S \subseteq BagToSet(net)
  BY DEF Down
<1>2. IsNet(net') /\ BagToSet(net') = S
  <2> HIDE DEF S
  <2> QED BY <1>1, Lost DEF TypeOK
<1>3. /\ up' \in [Node -> BOOLEAN] /\ ~up'[n]
      /\ \A k \in Node \ {n} : up'[k] = up[k]
  BY DEF Down, TypeOK
<1>4. /\ transactionArray' \in [Node -> Seq(Nat)] /\ transactionArray'[n] = <<>>
      /\ \A k \in Node \ {n} : transactionArray'[k] = transactionArray[k]
  BY DEF Down, TypeOK
<1>5. MessagesOK'
  <2> SUFFICES ASSUME NEW m \in BagToSet(net') PROVE MessageOK(m)'
    BY DEF MessagesOK
  <2>1. m \in BagToSet(net) /\ m.to # n /\ MessageOK(m)
    BY <1>2 DEF MessagesOK
  <2> QED BY <2>1, <1>3 DEF MessageOK
<1>6. ASSUME FetchOK PROVE FetchOK'
  <2>1. ASSUME NEW k \in Node PROVE Available(k, transactionArray'[k])
    <3>1. CASE k = n
      BY <3>1, <1>4 DEF Available, ToSet
    <3>2. CASE k # n
      BY <3>2, <1>4, <1>6 DEF FetchOK, ListsOK
    <3> QED BY <3>1, <3>2
  <2>2. ListsOK'
    BY <2>1, <1>2, <1>6, ListsNext DEF FetchOK
  <2>3. ASSUME NEW k \in Node PROVE k \in interrupted' \/ Synced(k)'
    <3> SUFFICES ASSUME k \notin interrupted' PROVE Synced(k)'
      OBVIOUS
    <3>1. k \notin interrupted /\ ~Fetching(k)
      BY DEF Down
    <3>2. Synced(k) /\ SameLedger(k)
      BY <3>1, <1>6, TokenMeansFetching DEF FetchOK, SyncOK, GoesOn
    <3> QED BY <3>2, SyncedSame
  <2> QED BY <2>2, <2>3 DEF FetchOK, SyncOK
<1> QED BY <1>2, <1>3, <1>4, <1>5, <1>6

\* A step of a handler keeps the fetches going if what it took from net and
\* kept one going is replaced by what does so too.
LEMMA ReplyStep ==
    ASSUME TypeOK, MessagesOK, mined' = mined,
           NEW m \in BagToSet(net), NEW n, n = m.to,
           NEW next, NEW rest \in Seq(Nat), Reply(n, m, next, rest),
           \A k \in Node : stored[k] \subseteq stored'[k],
           \A k \in Node \ {n} : SameLedger(k),
           SameLedger(n) \/ (Fetching(n) /\ \E r \in next : Token(r, n)'),
           \A r \in next : up'[r.to] = up[r.to] /\ up[r.to] => MessageOK(r)',
           TwoNodes /\ ListsOK =>
               /\ Available(n, rest) /\ \A r \in next : AssignOK(r)
               /\ \A k \in Node : Token(m, k) => \E r \in next : Token(r, k)'
    PROVE  /\ IsNet(net)' /\ up' \in [Node -> BOOLEAN] /\ transactionArray' \in [Node -> Seq(Nat)]
           /\ MessagesOK' /\ (TwoNodes /\ FetchOK => FetchOK')
<1>1. n \in Node /\ up[n]
  BY DEF MessagesOK, MessageOK
<1>2. CASE Down(n)
  <2>1. \A k \in Node : Fetching(k) \/ SameLedger(k)
    OBVIOUS
  <2> QED BY <1>1, <1>2, <2>1, DownStep
<1>3. CASE /\ \A r \in next : up[r.to]
           /\ net' = (net (-) SetToBag({m})) (+) SetToBag(next)
           /\ transactionArray' = [transactionArray EXCEPT ![n] = rest]
           /\ UNCHANGED <<up, interrupted>>
  <2>1. /\ IsNet(net') /\ BagToSet(net') \subseteq BagToSet(net) \cup next
        /\ BagToSet(net) \ {m} \subseteq BagToSet(net') /\ next \subseteq BagToSet(net')
    <3> DEFINE left == net (-) SetToBag({m})
               all == left (+) SetToBag(next)
    <3>1. IsNet(net)
      BY DEF TypeOK
    <3>2. /\ IsNet(all) /\ BagToSet(left) \subseteq BagToSet(net)
          /\ BagToSet(net) \ {m} \subseteq BagToSet(left)
          /\ BagToSet(all) = BagToSet(left) \cup next
      BY <3>1, Exchanged
    <3>3. net' = all
      BY <1>3
    <3> HIDE DEF left, all
    <3> QED BY <3>2, <3>3
  <2>2. /\ transactionArray' \in [Node -> Seq(Nat)] /\ transactionArray'[n] = rest
        /\ \A k \in Node \ {n} : transactionArray'[k] = transactionArray[k]
    BY <1>1, <1>3 DEF TypeOK
  <2>3. MessagesOK'
    <3> SUFFICES ASSUME NEW t \in BagToSet(net') PROVE MessageOK(t)'
      BY DEF MessagesOK
    <3>1. CASE t \in BagToSet(net)
      <4>1. MessageOK(t)
        BY <3>1 DEF MessagesOK
      <4> QED BY <4>1, <1>3 DEF MessageOK
    <3>2. CASE t \in next
      BY <3>2, <1>3
    <3> QED BY <3>1, <3>2, <2>1
  <2>4. ASSUME TwoNodes, FetchOK PROVE FetchOK'
    <3>1. ListsOK'
      <4>1. \A k \in Node : Available(k, transactionArray'[k])
        BY <2>2, <2>4 DEF FetchOK, ListsOK
      <4>2. \A t \in BagToSet(net') : t \in BagToSet(net) \/ AssignOK(t)
        BY <2>1, <2>4 DEF FetchOK
      <4> QED BY <4>1, <4>2, <2>4, ListsNext DEF FetchOK
    <3>2. ASSUME NEW k \in Node PROVE k \in interrupted' \/ Synced(k)' \/ GoesOn(k)'
      <4>1. CASE k \in interrupted
        BY <4>1, <1>3
      <4>2. CASE k = n /\ \E r \in next : Token(r, n)'
        BY <4>2, <1>1, <1>3, <2>1 DEF GoesOn
      <4>3. CASE SameLedger(k) /\ Synced(k)
        BY <4>3, SyncedSame
      <4>4. CASE GoesOn(k)
        <5>1. PICK t \in BagToSet(net) : Token(t, k)
          BY <4>4 DEF GoesOn
        <5>2. \E r \in BagToSet(net') : Token(r, k)'
          <6>1. CASE t = m
            BY <6>1, <5>1, <2>1, <2>4 DEF FetchOK
          <6>2. CASE t # m
            <7>1. t.to \in Node
              BY DEF MessagesOK, MessageOK
            <7>2. Token(t, k)'
              BY <5>1, <7>1, TokenNext
            <7> QED BY <6>2, <7>2, <2>1
          <6> QED BY <6>1, <6>2
        <5> QED BY <5>2, <4>4, <1>3 DEF GoesOn
      <4> QED BY <4>1, <4>2, <4>3, <4>4, <2>4 DEF FetchOK, SyncOK
    <3> QED BY <3>1, <3>2 DEF FetchOK, SyncOK
  <2>5. up' \in [Node -> BOOLEAN]
    BY <1>3 DEF TypeOK
  <2> QED BY <2>1, <2>2, <2>3, <2>4, <2>5
<1> QED BY <1>2, <1>3 DEF Reply

LEMMA LedgerUnchanged ==
    ASSUME TypeOK, LedgerOK, UNCHANGED <<mined, stored, tip, table, unreset>>
    PROVE  /\ \A k \in Node : SameLedger(k)
           /\ LedgerOK'
           /\ IsNet(net)' /\ up' \in [Node -> BOOLEAN] /\ transactionArray' \in [Node -> Seq(Nat)]
                 => TypeOK'
BY DEF TypeOK, LedgerOK, SameLedger

\* Steps that leave the database alone.
LEMMA QuietReply ==
    ASSUME IInv, UNCHANGED <<mined, stored, tip, table, unreset>>,
           NEW m \in BagToSet(net), NEW n, n = m.to,
           NEW next, NEW rest \in Seq(Nat), Reply(n, m, next, rest),
           \A r \in next : up'[r.to] => MessageOK(r)',
           TwoNodes /\ ListsOK =>
               /\ Available(n, rest) /\ \A r \in next : AssignOK(r)
               /\ \A k \in Node : Token(m, k) => \E r \in next : Token(r, k)'
    PROVE  IInv'
<1>1. TypeOK /\ LedgerOK /\ MessagesOK /\ (TwoNodes => FetchOK)
  BY DEF IInv
<1>2. \A k \in Node : SameLedger(k) /\ stored[k] \subseteq stored'[k]
  BY <1>1, LedgerUnchanged DEF SameLedger
<1>3. n \in Node
  BY <1>1 DEF MessagesOK, MessageOK
<1>4. /\ IsNet(net)' /\ up' \in [Node -> BOOLEAN] /\ transactionArray' \in [Node -> Seq(Nat)]
      /\ MessagesOK' /\ (TwoNodes /\ FetchOK => FetchOK')
  <2>1. \A r \in next : up'[r.to] = up[r.to] /\ up[r.to] => MessageOK(r)'
    OBVIOUS
  <2>2. SameLedger(n)
    BY <1>2, <1>3
  <2> QED BY <1>1, <1>2, <2>1, <2>2, ReplyStep
<1> QED BY <1>1, <1>4, LedgerUnchanged DEF IInv

LEMMA QuietDown ==
    ASSUME IInv, UNCHANGED <<mined, stored, tip, table, unreset>>, NEW n \in Node, Down(n)
    PROVE  IInv'
<1>1. TypeOK /\ LedgerOK /\ MessagesOK /\ (TwoNodes => FetchOK)
  BY DEF IInv
<1>2. \A k \in Node : SameLedger(k) /\ stored[k] \subseteq stored'[k]
  BY <1>1, LedgerUnchanged DEF SameLedger
<1>3. /\ IsNet(net)' /\ up' \in [Node -> BOOLEAN] /\ transactionArray' \in [Node -> Seq(Nat)]
      /\ MessagesOK' /\ (FetchOK => FetchOK')
  BY <1>1, <1>2, DownStep
<1> QED BY <1>1, <1>3, LedgerUnchanged DEF IInv

LEMMA TableOfChain ==
    ASSUME NEW chain, NEW t \in 0..Len(chain), Linked(chain)
    PROVE  ChainTable(chain, t) \subseteq Outputs(AllTxs(chain))
<1>1. ToSet(Back(chain, t)) \subseteq DOMAIN chain
  <2>1. Len(chain) \in Nat /\ DOMAIN chain = 1..Len(chain)
    BY DEF Linked, IsSeq
  <2>2. ToSet(Back(chain, t)) \subseteq 1..t
    BY BackWalks
  <2> QED BY <2>1, <2>2
<1>2. TxsOn(chain, t) \subseteq AllTxs(chain)
  BY <1>1 DEF TxsOn, AllTxs
<1>3. Unspent(TxsOn(chain, t), TxsOn(chain, t)) \subseteq Outputs(AllTxs(chain))
  BY <1>2 DEF Unspent, Outputs
<1> QED BY <1>3, ChainTableIs

\* The parts of a list.
LEMMA ListParts ==
    ASSUME NEW S, NEW list \in Seq(S), list # <<>>
    PROVE  /\ Head(list) \in ToSet(list)
           /\ Tail(list) \in Seq(S) /\ ToSet(Tail(list)) \subseteq ToSet(list)
<1>1. /\ Head(list) = list[1] /\ 1 \in DOMAIN list
      /\ Tail(list) \in Seq(S) /\ DOMAIN Tail(list) = 1..Len(list) - 1
      /\ \A i \in 1..Len(list) - 1 : Tail(list)[i] = list[i + 1]
  OBVIOUS
<1>2. \A i \in 1..Len(list) - 1 : i + 1 \in DOMAIN list
  OBVIOUS
<1> QED BY <1>1, <1>2 DEF ToSet

-----------------------------------------------------------------------------
(* The handlers. *)

LEMMA VersionStep ==
    ASSUME IInv, NEW m \in BagToSet(net), HandleVersion(m)
    PROVE  IInv'
<1> DEFINE n == m.to
           best == GetBestHeight(tip[n])
           next == IF best > m.payload THEN {Versions(n, m.from)}
                   ELSE IF best < m.payload THEN {Message("getblocks", n, m.from, 0)} ELSE {}
           rest == transactionArray[n]
<1>1. /\ MessageOK(m) /\ m.kind = "version" /\ Reply(n, m, next, rest)
      /\ UNCHANGED <<mined, stored, tip, table, unreset>>
  BY DEF IInv, MessagesOK, HandleVersion, Received, kills
<1>2. \A r \in next : r.from = n /\ r.to = m.from /\ r.kind \in {"version", "getblocks"}
  BY DEF Versions, Message
<1>3. n \in Node /\ m.from \in Node /\ m.from # n /\ rest \in Seq(Nat)
  BY <1>1 DEF MessageOK, IInv, TypeOK
<1> HIDE DEF next
<1>4. \A r \in next : up'[r.to] => MessageOK(r)'
  BY <1>2, <1>3 DEF MessageOK
<1>5. ListsOK => Available(n, rest) /\ \A r \in next : AssignOK(r)
  BY <1>2, <1>3 DEF ListsOK, AssignOK
<1>6. \A k : ~Token(m, k)
  BY <1>1 DEF Token
<1>7. n = m.to
  BY DEF n
<1> HIDE DEF n, rest
<1> QED BY <1>1, <1>3, <1>4, <1>5, <1>6, <1>7, QuietReply

LEMMA GetBlocksStep ==
    ASSUME IInv, NEW m \in BagToSet(net), HandleGetBlocks(m)
    PROVE  IInv'
<1> DEFINE n == m.to
           next == {Message("inv", n, m.from, Walk(tip[n]))}
           rest == transactionArray[n]
<1>1. /\ MessageOK(m) /\ m.kind = "getblocks"
      /\ IF Complete(tip[n], stored[n]) THEN Reply(n, m, next, rest) ELSE Down(n)
      /\ UNCHANGED <<mined, stored, tip, table, unreset>>
  BY DEF IInv, MessagesOK, HandleGetBlocks, Received, kills
<1>2. /\ n \in Node /\ m.from \in Node /\ m.from # n /\ rest \in Seq(Nat)
      /\ Linked(mined) /\ tip[n] \in 0..Len(mined)
  BY <1>1 DEF MessageOK, IInv, TypeOK
<1>3. CASE Complete(tip[n], stored[n])
  <2>1. IsSeq(Walk(tip[n])) /\ ToSet(Walk(tip[n])) \subseteq 1..tip[n]
    BY <1>2, BackWalks, WalkIsBack
  <2>2. Walk(tip[n]) \in Seq(Nat)
    <3>1. ToSet(Walk(tip[n])) \subseteq Nat
      BY <1>2, <2>1
    <3> QED BY <2>1, <3>1 DEF IsSeq
  <2>3. ToSet(Walk(tip[n])) \subseteq stored[n]
    BY <1>3 DEF Complete
  <2>4. \A r \in next : up'[r.to] => MessageOK(r)'
    BY <1>1, <1>2, <2>2, <2>3 DEF MessageOK, Message
  <2>5. ListsOK => Available(n, rest) /\ \A r \in next : AssignOK(r)
    BY <1>2 DEF ListsOK, AssignOK, Message
  <2>6. \A k : ~Token(m, k)
    BY <1>1 DEF Token
  <2>7. n = m.to /\ Reply(n, m, next, rest)
    BY <1>1, <1>3
  <2> HIDE DEF n, rest, next
  <2> QED BY <1>1, <1>2, <2>4, <2>5, <2>6, <2>7, QuietReply
<1>4. CASE ~Complete(tip[n], stored[n])
  BY <1>1, <1>2, <1>4, QuietDown
<1> QED BY <1>3, <1>4

LEMMA GetDataStep ==
    ASSUME IInv, NEW m \in BagToSet(net), HandleGetData(m)
    PROVE  IInv'
<1> DEFINE n == m.to
           next == IF m.payload \in stored[n] THEN {Message("block", n, m.from, m.payload)} ELSE {}
           rest == transactionArray[n]
<1>1. /\ MessageOK(m) /\ m.kind = "getdata" /\ Reply(n, m, next, rest)
      /\ UNCHANGED <<mined, stored, tip, table, unreset>>
  BY DEF IInv, MessagesOK, HandleGetData, Received, kills
<1>2. n \in Node /\ m.from \in Node /\ m.from # n /\ rest \in Seq(Nat)
  BY <1>1 DEF MessageOK, IInv, TypeOK
<1>3. \A r \in next : up'[r.to] => MessageOK(r)'
  BY <1>1, <1>2 DEF MessageOK, Message
<1>4. ListsOK => Available(n, rest) /\ \A r \in next : AssignOK(r)
  BY <1>2 DEF ListsOK, AssignOK, Message
<1>5. \A k : Token(m, k) => \E r \in next : Token(r, k)'
  BY <1>1 DEF Token, Message
<1>6. n = m.to
  BY DEF n
<1> HIDE DEF n, rest, next
<1> QED BY <1>1, <1>2, <1>3, <1>4, <1>5, <1>6, QuietReply

LEMMA InvStep ==
    ASSUME IInv, NEW m \in BagToSet(net), HandleInv(m)
    PROVE  IInv'
<1> DEFINE n == m.to
           request == Message("getdata", n, m.from, Head(m.payload))
           assign == Amid("assign", m, Tail(m.payload))
           next == IF m.payload = <<>> THEN {}
                   ELSE IF Len(m.payload) = 1 THEN {request} ELSE {request, assign}
           rest == transactionArray[n]
<1>1. /\ MessageOK(m) /\ m.kind = "inv" /\ Reply(n, m, next, rest)
      /\ UNCHANGED <<mined, stored, tip, table, unreset>>
  BY DEF IInv, MessagesOK, HandleInv, Received, kills
<1>2. /\ n \in Node /\ m.from \in Node /\ m.from # n /\ rest \in Seq(Nat) /\ up[n]
      /\ m.payload \in Seq(Nat) /\ ToSet(m.payload) \subseteq stored[m.from]
  BY <1>1 DEF MessageOK, IInv, TypeOK
<1>3. /\ request.kind = "getdata" /\ request.from = n /\ request.to = m.from
      /\ request.payload = Head(m.payload)
      /\ assign.kind = "assign" /\ assign.from = m.from /\ assign.to = n
      /\ assign.payload = Tail(m.payload)
  BY DEF Message, Amid
<1>4. /\ \A r \in next : m.payload # <<>> /\ r \in {request, assign}
      /\ m.payload # <<>> => request \in next
  OBVIOUS
<1> HIDE DEF next, request, assign
<1>5. m.payload # <<>> => /\ Head(m.payload) \in stored[m.from]
                          /\ Tail(m.payload) \in Seq(Nat)
                          /\ ToSet(Tail(m.payload)) \subseteq stored[m.from]
  BY <1>2, ListParts
<1>6. \A r \in next : up'[r.to] => MessageOK(r)'
  BY <1>2, <1>3, <1>4, <1>5 DEF MessageOK
<1>7. TwoNodes /\ ListsOK => Available(n, rest) /\ \A r \in next : AssignOK(r)
  <2> SUFFICES ASSUME TwoNodes, ListsOK PROVE Available(n, rest) /\ \A r \in next : AssignOK(r)
    OBVIOUS
  <2>1. Available(n, rest)
    BY <1>2 DEF ListsOK
  <2>2. \A w \in Node \ {n} : w = m.from
    BY <1>2 DEF TwoNodes
  <2>3. m.payload # <<>> => Available(n, Tail(m.payload))
    BY <1>5, <2>2 DEF Available
  <2> QED BY <2>1, <2>3, <1>3, <1>4 DEF AssignOK
<1>8. \A k : Token(m, k) => \E r \in next : Token(r, k)'
  <2> SUFFICES ASSUME NEW k, Token(m, k) PROVE Token(request, k)' /\ request \in next
    OBVIOUS
  <2>1. k = n /\ m.payload # <<>>
    BY <1>1 DEF Token
  <2> QED BY <2>1, <1>1, <1>3, <1>4, <1>5 DEF Token
<1>9. n = m.to
  BY DEF n
<1> HIDE DEF n, rest
<1> QED BY <1>1, <1>2, <1>6, <1>7, <1>8, <1>9, QuietReply

LEMMA AssignStep ==
    ASSUME IInv, NEW m \in BagToSet(net), Assign(m)
    PROVE  IInv'
<1> DEFINE n == m.to
           next == {}
<1>1. /\ MessageOK(m) /\ m.kind = "assign" /\ Reply(n, m, next, m.payload)
      /\ UNCHANGED <<mined, stored, tip, table, unreset>>
  BY DEF IInv, MessagesOK, Assign, Received, kills
<1>2. m.payload \in Seq(Nat)
  BY <1>1 DEF MessageOK
<1>3. ListsOK => Available(n, m.payload)
  BY <1>1 DEF ListsOK, AssignOK
<1>4. \A k : ~Token(m, k)
  BY <1>1 DEF Token
<1>5. n = m.to /\ \A r \in next : FALSE
  OBVIOUS
<1> HIDE DEF n, next
<1> QED BY <1>1, <1>2, <1>3, <1>4, <1>5, QuietReply

LEMMA BlockStep ==
    ASSUME IInv, NEW m \in BagToSet(net), HandleBlock(m)
    PROVE  IInv'
<1> DEFINE n == m.to
           hashes == stored[n] \cup {m.payload}
           next == {Amid("added", m, 0)}
           rest == transactionArray[n]
<1>1. /\ MessageOK(m) /\ m.kind = "block" /\ Reply(n, m, next, rest)
      /\ UNCHANGED <<mined, table, unreset>>
  BY DEF IInv, MessagesOK, HandleBlock, Received, kills
<1>2. TypeOK /\ LedgerOK /\ MessagesOK /\ (TwoNodes => FetchOK)
  BY DEF IInv
<1>3. /\ n \in Node /\ m.from \in Node /\ m.from # n /\ m.payload \in stored[m.from]
      /\ rest \in Seq(Nat)
  BY <1>1, <1>2 DEF MessageOK, TypeOK
<1>4. /\ Linked(mined) /\ Len(mined) \in Nat /\ DOMAIN mined = 1..Len(mined)
      /\ tip[n] \in 0..Len(mined) /\ m.payload \in DOMAIN mined
  BY <1>2, <1>3 DEF TypeOK, Linked, IsSeq
<1>5. tip' \in [Node -> 0..Len(mined)] /\ \A k \in Node \ {n} : tip'[k] = tip[k]
  <2>1. AddBlock(tip[n], m.payload) \in 0..Len(mined)
    BY <1>4 DEF AddBlock
  <2>2. tip' = tip \/ tip' = [tip EXCEPT ![n] = AddBlock(tip[n], m.payload)]
    BY DEF HandleBlock
  <2> QED BY <2>1, <2>2, <1>2 DEF TypeOK
<1>6. /\ stored' \in [Node -> SUBSET DOMAIN mined]
      /\ \A k \in Node : stored[k] \subseteq stored'[k]
      /\ \A k \in Node \ {n} : stored'[k] = stored[k]
  <2>1. hashes \in SUBSET DOMAIN mined /\ stored[n] \subseteq hashes
    BY <1>2, <1>3, <1>4 DEF TypeOK
  <2>2. stored' = [stored EXCEPT ![n] = hashes]
    BY DEF HandleBlock
  <2> HIDE DEF hashes
  <2> QED BY <2>1, <2>2, <1>2, <1>3 DEF TypeOK
<1>7. \A r \in next : /\ r.kind = "added" /\ r.from = m.from /\ r.to = n
  BY DEF Amid, Message
<1>8. PICK r \in next : TRUE
  OBVIOUS
<1> HIDE DEF next, hashes
<1>9. \A k \in Node \ {n} : SameLedger(k)
  BY <1>1, <1>5, <1>6 DEF SameLedger
<1>10. Token(r, n)' /\ Fetching(n)
  BY <1>1, <1>7 DEF Token, Fetching
<1>11. \A s \in next : up'[s.to] = up[s.to] /\ up[s.to] => MessageOK(s)'
  BY <1>3, <1>7 DEF MessageOK
<1>12. ListsOK => Available(n, rest) /\ \A s \in next : AssignOK(s)
  BY <1>3, <1>7 DEF ListsOK, AssignOK
<1>13. \A k : Token(m, k) => \E s \in next : Token(s, k)'
  <2>1. \A k : Token(m, k) => k = n
    BY <1>1 DEF Token
  <2> QED BY <2>1, <1>10
<1>14. /\ IsNet(net)' /\ up' \in [Node -> BOOLEAN] /\ transactionArray' \in [Node -> Seq(Nat)]
       /\ MessagesOK' /\ (TwoNodes /\ FetchOK => FetchOK')
  <2>1. n = m.to
    BY DEF n
  <2> HIDE DEF n, rest
  <2> QED BY <2>1, <1>1, <1>2, <1>3, <1>6, <1>9, <1>10, <1>11, <1>12, <1>13, ReplyStep
<1>15. TypeOK' /\ LedgerOK'
  BY <1>1, <1>2, <1>5, <1>6, <1>14 DEF TypeOK, LedgerOK
<1> QED BY <1>2, <1>14, <1>15 DEF IInv

\* A reset leaves n in sync, or takes it down.
LEMMA ResetStep ==
    ASSUME IInv, NEW m \in BagToSet(net), NEW n, n = m.to, NEW next, ResetUTXOSet(m, next),
           UNCHANGED <<mined, stored, tip>>,
           \A k \in Node : Token(m, k) => k = n,
           \A r \in next : r.kind = "tested" /\ r.from = m.from /\ r.to = n
    PROVE  IInv'
<1>1. TypeOK /\ LedgerOK /\ MessagesOK /\ (TwoNodes => FetchOK)
  BY DEF IInv
<1>2. MessageOK(m) /\ n \in Node
  BY <1>1 DEF MessagesOK, MessageOK
<1>3. CASE Down(n) /\ UNCHANGED <<table, stops, unreset>>
  BY <1>2, <1>3, QuietDown
<1>4. CASE /\ Complete(tip[n], stored[n])
           /\ Reset(n, FindUTXOMap(TxsOf(Walk(tip[n]))))
           /\ net' = (net (-) SetToBag({m})) (+) SetToBag(next)
           /\ UNCHANGED <<up, transactionArray>>
  <2>1. /\ IsNet(net') /\ BagToSet(net') \subseteq BagToSet(net) \cup next
        /\ BagToSet(net) \ {m} \subseteq BagToSet(net')
    <3> DEFINE left == net (-) SetToBag({m})
               all == left (+) SetToBag(next)
    <3>1. IsNet(net)
      BY <1>1 DEF TypeOK
    <3>2. /\ IsNet(all) /\ BagToSet(left) \subseteq BagToSet(net)
          /\ BagToSet(net) \ {m} \subseteq BagToSet(left)
          /\ BagToSet(all) = BagToSet(left) \cup next
      BY <3>1, Exchanged
    <3>3. net' = all
      BY <1>4
    <3> HIDE DEF left, all
    <3> QED BY <3>2, <3>3
  <2>2. FindUTXOMap(TxsOf(Walk(tip[n]))) = ChainTable(mined, tip[n])
    BY WalkIsBack DEF TxsOf, ChainTable
  <2>3. /\ table' = [k \in Node |-> table'[k]] /\ table'[n] = ChainTable(mined, tip[n])
        /\ \A k \in Node \ {n} : table'[k] = table[k]
    BY <1>1, <1>2, <1>4, <2>2 DEF TypeOK, Reset
  <2>4. interrupted' = interrupted \ {n} /\ unreset' = unreset \ {n}
    BY <1>4 DEF Reset
  <2>5. Synced(n)'
    <3>1. ToSet(Back(mined, tip[n])) \subseteq stored[n]
      BY <1>4, CompleteIs
    <3>2. InSync(mined', tip'[n], stored'[n], table'[n], n \in unreset')
      BY <2>3, <3>1 DEF InSync
    <3> QED BY <3>2, SyncedNext
  <2>6. \A k \in Node \ {n} : SameLedger(k)
    BY <2>3, <2>4 DEF SameLedger
  <2>7. TypeOK'
    BY <1>1, <1>4, <2>1, <2>3 DEF TypeOK
  <2>8. LedgerOK'
    <3>1. Linked(mined) /\ tip[n] \in 0..Len(mined)
      BY <1>1, <1>2 DEF TypeOK
    <3>2. table'[n] \subseteq Outputs(AllTxs(mined))
      BY <3>1, <2>3, TableOfChain
    <3> QED BY <3>2, <1>1, <2>3 DEF LedgerOK
  <2>9. MessagesOK'
    <3> SUFFICES ASSUME NEW r \in BagToSet(net') PROVE MessageOK(r)'
      BY DEF MessagesOK
    <3>1. CASE r \in BagToSet(net)
      <4>1. MessageOK(r)
        BY <3>1, <1>1 DEF MessagesOK
      <4> QED BY <4>1, <1>4 DEF MessageOK
    <3>2. CASE r \in next
      BY <3>2, <1>2, <1>4 DEF MessageOK
    <3> QED BY <3>1, <3>2, <2>1
  <2>10. ASSUME FetchOK PROVE FetchOK'
    <3>1. ListsOK'
      <4>1. \A k \in Node : stored[k] \subseteq stored'[k] /\ Available(k, transactionArray'[k])
        BY <1>4, <2>10 DEF FetchOK, ListsOK
      <4>2. \A r \in BagToSet(net') : r \in BagToSet(net) \/ AssignOK(r)
        BY <2>1 DEF AssignOK
      <4> QED BY <4>1, <4>2, <2>10, ListsNext DEF FetchOK
    <3>2. ASSUME NEW k \in Node \ {n} PROVE k \in interrupted' \/ Synced(k)' \/ GoesOn(k)'
      <4>1. CASE k \in interrupted
        BY <4>1, <2>4
      <4>2. CASE Synced(k)
        BY <4>2, <2>6, SyncedSame
      <4>3. CASE GoesOn(k)
        <5>1. PICK t \in BagToSet(net) : Token(t, k)
          BY <4>3 DEF GoesOn
        <5>2. t \in BagToSet(net')
          BY <5>1, <2>1
        <5>3. t.to \in Node
          BY <1>1 DEF MessagesOK, MessageOK
        <5>4. Token(t, k)'
          BY <5>1, <5>3, TokenNext
        <5> QED BY <5>2, <5>4, <4>3, <1>4 DEF GoesOn
      <4> QED BY <4>1, <4>2, <4>3, <2>10 DEF FetchOK, SyncOK
    <3> QED BY <3>1, <3>2, <2>5 DEF FetchOK, SyncOK
  <2> QED BY <1>1, <2>7, <2>8, <2>9, <2>10 DEF IInv
<1> QED BY <1>3, <1>4 DEF ResetUTXOSet

LEMMA TestStep ==
    ASSUME IInv, NEW m \in BagToSet(net), FirstTest(m) \/ SecondTest(m)
    PROVE  IInv'
<1> DEFINE n == m.to
           next == IF m.kind = "added" THEN {Amid("tested", m, 0)} ELSE {Amid("request", m, 0)}
           after == IF m.kind = "added" THEN {Amid("tested", m, 0)} ELSE {}
           rest == transactionArray[n]
<1>1. MessageOK(m) /\ m.kind \in {"added", "tested"} /\ UNCHANGED <<mined, stored, tip>>
  BY DEF IInv, MessagesOK, FirstTest, SecondTest, Received
<1>2. \/ Reply(n, m, next, rest) /\ UNCHANGED <<table, unreset>>
      \/ ResetUTXOSet(m, after)
  BY DEF FirstTest, SecondTest, Received
<1>3. n \in Node /\ m.from \in Node /\ m.from # n /\ rest \in Seq(Nat)
  BY <1>1 DEF MessageOK, IInv, TypeOK
<1>4. /\ \A r \in next : r.kind \in {"tested", "request"} /\ r.from = m.from /\ r.to = n
      /\ \A r \in after : r.kind = "tested" /\ r.from = m.from /\ r.to = n
  BY DEF Amid, Message
<1>5. \E r \in next : TRUE
  OBVIOUS
<1> HIDE DEF next, after
<1>6. \A k : Token(m, k) => k = n
  BY <1>1 DEF Token
<1>7. CASE Reply(n, m, next, rest) /\ UNCHANGED <<table, unreset>>
  <2>1. \A r \in next : up'[r.to] => MessageOK(r)'
    BY <1>3, <1>4 DEF MessageOK
  <2>2. ListsOK => Available(n, rest) /\ \A r \in next : AssignOK(r)
    BY <1>3, <1>4 DEF ListsOK, AssignOK
  <2>3. \A k : Token(m, k) => \E r \in next : Token(r, k)'
    BY <1>4, <1>5, <1>6 DEF Token
  <2>4. n = m.to
    BY DEF n
  <2> HIDE DEF n, rest
  <2> QED BY <1>1, <1>3, <1>7, <2>1, <2>2, <2>3, <2>4, QuietReply
<1>8. CASE ResetUTXOSet(m, after)
  BY <1>1, <1>4, <1>6, <1>8, ResetStep
<1> QED BY <1>2, <1>7, <1>8

LEMMA RequestStep ==
    ASSUME IInv, NEW m \in BagToSet(net), RequestNext(m)
    PROVE  IInv'
<1> DEFINE n == m.to
           rest == transactionArray[n]
           request == Message("getdata", n, m.from, Head(rest))
           pop == Amid("pop", m, 0)
           next == {request, pop}
<1>1. /\ MessageOK(m) /\ m.kind = "request"
      /\ Down(n) \/ (rest # <<>> /\ Reply(n, m, next, rest))
      /\ UNCHANGED <<mined, stored, tip, table, unreset>>
  BY DEF IInv, MessagesOK, RequestNext, Received, kills
<1>2. n \in Node /\ m.from \in Node /\ m.from # n /\ rest \in Seq(Nat)
  BY <1>1 DEF MessageOK, IInv, TypeOK
<1>3. CASE Down(n)
  BY <1>1, <1>2, <1>3, QuietDown
<1>4. CASE rest # <<>> /\ Reply(n, m, next, rest)
  <2>1. /\ request.kind = "getdata" /\ request.from = n /\ request.to = m.from
        /\ request.payload = Head(rest)
        /\ pop.kind = "pop" /\ pop.from = m.from /\ pop.to = n
    BY DEF Message, Amid
  <2>2. \A r \in next : r \in {request, pop}
    OBVIOUS
  <2>3. request \in next /\ n = m.to
    OBVIOUS
  <2>4. ListsOK => Available(n, rest)
    BY <1>2 DEF ListsOK
  <2> HIDE DEF request, pop, next
  <2>5. \A r \in next : up'[r.to] => MessageOK(r)'
    BY <1>2, <2>1, <2>2 DEF MessageOK
  <2>6. \A r \in next : AssignOK(r)
    BY <2>1, <2>2 DEF AssignOK
  <2>7. Available(n, rest) => \A k : Token(m, k) => \E r \in next : Token(r, k)'
    <3> SUFFICES ASSUME Available(n, rest), NEW k, Token(m, k)
                 PROVE  \E r \in next : Token(r, k)'
      OBVIOUS
    <3>1. k = n
      BY <1>1 DEF Token
    <3>2. Head(rest) \in stored[m.from]
      <4>1. Head(rest) \in ToSet(rest)
        BY <1>2, <1>4, ListParts
      <4> QED BY <4>1, <1>2 DEF Available
    <3>3. PICK r \in next : r = request
      BY <2>3
    <3>4. Token(r, k)'
      BY <3>1, <3>2, <3>3, <2>1, <1>1 DEF Token
    <3> QED BY <3>4
  <2> HIDE DEF n, rest
  <2> QED BY <1>1, <1>2, <1>4, <2>3, <2>4, <2>5, <2>6, <2>7, QuietReply
<1> QED BY <1>1, <1>3, <1>4

LEMMA PopStep ==
    ASSUME IInv, NEW m \in BagToSet(net), Pop(m)
    PROVE  IInv'
<1> DEFINE n == m.to
           rest == transactionArray[n]
           assign == Amid("assign", m, Tail(rest))
           next == {assign}
<1>1. /\ MessageOK(m) /\ m.kind = "pop"
      /\ Down(n) \/ (rest # <<>> /\ Reply(n, m, next, rest))
      /\ UNCHANGED <<mined, stored, tip, table, unreset>>
  BY DEF IInv, MessagesOK, Pop, Received, kills
<1>2. n \in Node /\ m.from \in Node /\ m.from # n /\ rest \in Seq(Nat)
  BY <1>1 DEF MessageOK, IInv, TypeOK
<1>3. CASE Down(n)
  BY <1>1, <1>2, <1>3, QuietDown
<1>4. CASE rest # <<>> /\ Reply(n, m, next, rest)
  <2>1. /\ assign.kind = "assign" /\ assign.from = m.from /\ assign.to = n
        /\ assign.payload = Tail(rest)
    BY DEF Message, Amid
  <2>2. n = m.to /\ \A r \in next : r = assign
    OBVIOUS
  <2>3. ListsOK => Available(n, rest)
    BY <1>2 DEF ListsOK
  <2>4. Tail(rest) \in Seq(Nat) /\ ToSet(Tail(rest)) \subseteq ToSet(rest)
    BY <1>2, <1>4, ListParts
  <2> HIDE DEF assign, next
  <2>5. \A r \in next : up'[r.to] => MessageOK(r)'
    BY <1>2, <2>1, <2>2, <2>4 DEF MessageOK
  <2>6. Available(n, rest) => \A r \in next : AssignOK(r)
    BY <2>1, <2>2, <2>4 DEF AssignOK, Available
  <2>7. \A k : ~Token(m, k)
    BY <1>1 DEF Token
  <2> HIDE DEF n, rest
  <2> QED BY <1>1, <1>2, <1>4, <2>2, <2>3, <2>5, <2>6, <2>7, QuietReply
<1> QED BY <1>1, <1>3, <1>4

LEMMA StartStep ==
    ASSUME IInv, NEW n \in Node, Start(n)
    PROVE  IInv'
<1>1. TypeOK /\ LedgerOK /\ MessagesOK /\ (TwoNodes => FetchOK)
  BY DEF IInv
<1>2. /\ UNCHANGED <<mined, stored, tip, table, transactionArray, interrupted, unreset>>
      /\ up' = [up EXCEPT ![n] = TRUE]
  BY DEF Start, kills
<1>3. up' \in [Node -> BOOLEAN]
  BY <1>1, <1>2 DEF TypeOK
<1>4. \A k \in Node : up[k] => up'[k]
  BY <1>1, <1>2 DEF TypeOK
<1>5. PICK R : /\ IsNet(net') /\ BagToSet(net') = BagToSet(net) \cup R
               /\ \A r \in R : n # Main /\ r = Versions(n, Main)
  <2>1. IsNet(net)
    BY <1>1 DEF TypeOK
  <2>2. CASE n = Main
    <3> DEFINE R == {}
    <3>1. net' = net
      BY <2>2 DEF Start
    <3>2. BagToSet(net') = BagToSet(net) \cup R /\ \A r \in R : FALSE
      BY <3>1
    <3> HIDE DEF R
    <3> QED BY <2>1, <3>1, <3>2
  <2>3. CASE n # Main
    <3> DEFINE R == {Versions(n, Main)}
    <3>1. net' = net (+) SetToBag(R)
      BY <2>3 DEF Start
    <3>2. \A r \in R : r = Versions(n, Main)
      OBVIOUS
    <3> HIDE DEF R
    <3> QED BY <2>1, <2>3, <3>1, <3>2, Added
  <2> QED BY <2>2, <2>3
<1>6. \A k \in Node : SameLedger(k)
  BY <1>1, <1>2, LedgerUnchanged
<1>7. \A r \in R : n # Main /\ up[Main] /\ r.kind = "version" /\ r.from = n /\ r.to = Main
  BY <1>5 DEF Versions, Message, Start
<1>8. MessagesOK'
  <2> SUFFICES ASSUME NEW r \in BagToSet(net') PROVE MessageOK(r)'
    BY DEF MessagesOK
  <2>1. CASE r \in BagToSet(net)
    <3>1. MessageOK(r)
      BY <1>1, <2>1 DEF MessagesOK
    <3> QED BY <3>1, <1>2, <1>4 DEF MessageOK
  <2>2. CASE r \in R
    BY <2>2, <1>4, <1>7, ChainAssumption DEF MessageOK
  <2> QED BY <2>1, <2>2, <1>5
<1>9. ASSUME FetchOK PROVE FetchOK'
  <2>1. ListsOK'
    <3>1. \A k \in Node : stored[k] \subseteq stored'[k] /\ Available(k, transactionArray'[k])
      BY <1>2, <1>9 DEF FetchOK, ListsOK
    <3>2. \A r \in BagToSet(net') : r \in BagToSet(net) \/ AssignOK(r)
      BY <1>5, <1>7 DEF AssignOK
    <3> QED BY <3>1, <3>2, <1>9, ListsNext DEF FetchOK
  <2>2. ASSUME NEW k \in Node PROVE k \in interrupted' \/ Synced(k)' \/ GoesOn(k)'
    <3>1. Synced(k)' <=> Synced(k)
      BY <1>2, <1>6, SyncedSame
    <3>2. GoesOn(k) => GoesOn(k)'
      BY <1>2, <1>4, <1>5 DEF GoesOn, Token
    <3> QED BY <3>1, <3>2, <1>2, <1>9 DEF FetchOK, SyncOK
  <2> QED BY <2>1, <2>2 DEF FetchOK, SyncOK
<1>10. transactionArray' \in [Node -> Seq(Nat)]
  BY <1>1, <1>2 DEF TypeOK
<1> QED BY <1>1, <1>2, <1>3, <1>5, <1>8, <1>9, <1>10, LedgerUnchanged DEF IInv

LEMMA StopStep ==
    ASSUME IInv, NEW n \in Node, Stop(n)
    PROVE  IInv'
<1>1. UNCHANGED <<mined, stored, tip, table, unreset>> /\ Down(n)
  BY DEF Stop, kills
<1> QED BY <1>1, QuietDown

\* The command line works on one ledger, of a node that is down, and leaves
\* it in sync or the node marked.
LEMMA CommandStep ==
    ASSUME IInv, NEW n \in Node, ~up[n], TypeOK', LedgerOK',
           UNCHANGED <<up, transactionArray, net>>,
           \A k \in Node : stored[k] \subseteq stored'[k],
           \A k \in Node \ {n} : (Synced(k) => Synced(k)') /\ (k \in interrupted' <=> k \in interrupted),
           TwoNodes => n \in interrupted' \/ Synced(n)'
    PROVE  IInv'
<1>1. TypeOK /\ LedgerOK /\ MessagesOK /\ (TwoNodes => FetchOK)
  BY DEF IInv
<1>2. MessagesOK'
  <2> SUFFICES ASSUME NEW r \in BagToSet(net) PROVE MessageOK(r)'
    BY DEF MessagesOK
  <2>1. MessageOK(r)
    BY <1>1 DEF MessagesOK
  <2> QED BY <2>1 DEF MessageOK
<1>3. ASSUME TwoNodes, FetchOK PROVE FetchOK'
  <2>1. ListsOK'
    <3>1. \A k \in Node : Available(k, transactionArray'[k])
      BY <1>3 DEF FetchOK, ListsOK
    <3> QED BY <3>1, <1>3, ListsNext DEF FetchOK
  <2>2. ASSUME NEW k \in Node \ {n} PROVE k \in interrupted' \/ Synced(k)' \/ GoesOn(k)'
    <3>1. GoesOn(k) => GoesOn(k)'
      <4> SUFFICES ASSUME up[k], NEW t \in BagToSet(net), Token(t, k) PROVE Token(t, k)'
        BY DEF GoesOn
      <4>1. t.to \in Node
        BY <1>1 DEF MessagesOK, MessageOK
      <4> QED BY <4>1, TokenNext
    <3> QED BY <3>1, <1>3 DEF FetchOK, SyncOK
  <2> QED BY <2>1, <2>2, <1>3 DEF FetchOK, SyncOK
<1> QED BY <1>1, <1>2, <1>3 DEF IInv

LEMMA ResetUTXOStep ==
    ASSUME IInv, NEW n \in Node, ResetUTXO(n)
    PROVE  IInv'
<1>1. TypeOK /\ LedgerOK
  BY DEF IInv
<1>2. /\ ~up[n] /\ Complete(tip[n], stored[n]) /\ Reset(n, FindUTXOMap(TxsOf(Walk(tip[n]))))
      /\ UNCHANGED <<mined, stored, tip, up, transactionArray, net>>
  BY DEF ResetUTXO
<1>3. FindUTXOMap(TxsOf(Walk(tip[n]))) = ChainTable(mined, tip[n])
  BY WalkIsBack DEF TxsOf, ChainTable
<1>4. /\ table' = [k \in Node |-> table'[k]] /\ table'[n] = ChainTable(mined, tip[n])
      /\ \A k \in Node \ {n} : table'[k] = table[k]
      /\ interrupted' = interrupted \ {n} /\ unreset' = unreset \ {n}
  BY <1>1, <1>2, <1>3 DEF TypeOK, Reset
<1>5. Linked(mined) /\ tip[n] \in 0..Len(mined)
  BY <1>1 DEF TypeOK
<1>6. TypeOK'
  BY <1>1, <1>2, <1>4 DEF TypeOK
<1>7. LedgerOK'
  <2>1. table'[n] \subseteq Outputs(AllTxs(mined))
    BY <1>4, <1>5, TableOfChain
  <2> QED BY <2>1, <1>1, <1>2, <1>4 DEF LedgerOK
<1>8. Synced(n)'
  <2>1. ToSet(Back(mined, tip[n])) \subseteq stored[n]
    BY <1>2, CompleteIs
  <2>2. InSync(mined', tip'[n], stored'[n], table'[n], n \in unreset')
    BY <2>1, <1>2, <1>4 DEF InSync
  <2> QED BY <2>2, SyncedNext
<1>9. \A k \in Node \ {n} : (Synced(k) => Synced(k)') /\ (k \in interrupted' <=> k \in interrupted)
  <2>1. \A k \in Node \ {n} : SameLedger(k)
    BY <1>2, <1>4 DEF SameLedger
  <2> QED BY <2>1, <1>2, <1>4, SyncedSame
<1> QED BY <1>2, <1>6, <1>7, <1>8, <1>9, CommandStep

LEMMA FiniteOutputs ==
    ASSUME NEW chain, Linked(chain), \A h \in DOMAIN chain : BlockOK(chain, h)
    PROVE  IsFiniteSet(Outputs(AllTxs(chain)))
<1> DEFINE B == {ToSet(chain[h].txs) : h \in DOMAIN chain}
           f == [h \in DOMAIN chain |-> ToSet(chain[h].txs)]
           O == {Utxos(tx) : tx \in AllTxs(chain)}
           g == [tx \in AllTxs(chain) |-> Utxos(tx)]
<1>1. IsFiniteSet(DOMAIN chain)
  BY FS_Interval DEF Linked, IsSeq
<1>2. IsFiniteSet(B)
  <2>1. B = {f[h] : h \in DOMAIN chain}
    OBVIOUS
  <2> HIDE DEF f, B
  <2> QED BY <1>1, <2>1, FiniteImage
<1>3. \A S \in B : IsFiniteSet(S)
  BY FiniteToSet DEF BlockOK
<1>4. IsFiniteSet(AllTxs(chain))
  <2>1. AllTxs(chain) = UNION B
    BY DEF AllTxs
  <2> HIDE DEF B
  <2> QED BY <1>2, <1>3, <2>1, FS_UNION
<1>5. IsFiniteSet(O)
  <2>1. O = {g[tx] : tx \in AllTxs(chain)}
    OBVIOUS
  <2> HIDE DEF g, O
  <2> QED BY <1>4, <2>1, FiniteImage
<1>6. \A S \in O : IsFiniteSet(S)
  BY FiniteUtxos DEF BlockOK, TxOK, AllTxs
<1>7. Outputs(AllTxs(chain)) = UNION O
  BY DEF Outputs
<1> HIDE DEF O
<1> QED BY <1>5, <1>6, <1>7, FS_UNION

\* The hashes of a new block's transactions are neither used nor referred to.
LEMMA FreshIds ==
    ASSUME NEW chain, Linked(chain), \A h \in DOMAIN chain : BlockOK(chain, h),
           NEW tx \in AllTxs(chain), NEW id \in Nat, id > 3 * Len(chain)
    PROVE  tx.id \in Nat /\ tx.id < id /\ \A in \in tx.ins : in.tx \in Nat /\ in.tx < id
<1>1. Len(chain) \in Nat /\ DOMAIN chain = 1..Len(chain)
  BY DEF Linked, IsSeq
<1>2. PICK h \in 1..Len(chain) : tx \in ToSet(chain[h].txs)
  BY <1>1 DEF AllTxs
<1>3. tx.id \in 3 * h - 2..3 * h
  BY <1>1, <1>2 DEF BlockOK
<1>4. ASSUME NEW in \in tx.ins PROVE in.tx \in Nat /\ in.tx < id
  <2>1. PICK g \in 1..h : SpendsFrom(in, Outputs(ToSet(chain[g].txs)))
    BY <1>1, <1>2 DEF BlockOK
  <2>2. PICK ty \in ToSet(chain[g].txs) : \E u \in Utxos(ty) : Spends(in, u)
    BY <2>1 DEF SpendsFrom, Outputs
  <2>3. in.tx = ty.id
    BY <2>2, UtxosHaveId DEF Spends
  <2>4. ty.id \in 3 * g - 2..3 * g
    BY <1>1, <2>2 DEF BlockOK
  <2> QED BY <1>1, <2>3, <2>4
<1> QED BY <1>1, <1>3, <1>4

\* A packed block keeps the ledger well formed.
LEMMA LedgerExtended ==
    ASSUME NEW chain, Linked(chain), \A h \in DOMAIN chain : BlockOK(chain, h),
           NEW utxos, utxos \subseteq Outputs(AllTxs(chain)), NEW transfers,
           NEW b, b.prev \in 0..Len(chain),
           b.txs \in PackedBlocks(3 * Len(chain) + 1, transfers, utxos)
    PROVE  LET next == Append(chain, b)
           IN  /\ \A h \in DOMAIN next : BlockOK(next, h)
               /\ AllTxs(next) = AllTxs(chain) \cup ToSet(b.txs)
               /\ \A tx \in AllTxs(chain), ty \in ToSet(b.txs) :
                     tx.id # ty.id /\ \A in \in tx.ins : in.tx # ty.id
<1> DEFINE N == Len(chain)
           next == Append(chain, b)
<1>1. N \in Nat /\ DOMAIN chain = 1..N /\ 3 * N + 1 \in Nat
  BY DEF Linked, IsSeq
<1>2. /\ DOMAIN next = 1..N \cup {N + 1} /\ next[N + 1] = b
      /\ \A k \in 1..N : next[k] = chain[k]
  BY <1>1, AppendSet DEF Linked
<1>3. /\ IsSeq(b.txs)
      /\ \A tx \in ToSet(b.txs) :
            /\ tx.id \in 3 * N + 1..3 * N + 3 /\ TxOK(tx)
            /\ \A in \in tx.ins : SpendsFrom(in, utxos \cup UNION {Utxos(ty) : ty \in ToSet(b.txs)})
      /\ \A tx, ty \in ToSet(b.txs) : tx.id = ty.id => tx = ty
  <2>1. IsFiniteSet(utxos)
    BY FiniteOutputs, FS_Subset
  <2>2. (3 * N + 1) + 2 = 3 * N + 3
    BY <1>1
  <2> QED BY <1>1, <2>1, <2>2, PackedOK
<1> HIDE DEF next
<1>4. AllTxs(next) = AllTxs(chain) \cup ToSet(b.txs)
  BY <1>1, <1>2 DEF AllTxs
<1>5. ASSUME NEW tx \in ToSet(b.txs), NEW in \in tx.ins
      PROVE  \E g \in 1..N + 1 : SpendsFrom(in, Outputs(ToSet(next[g].txs)))
  <2>1. PICK u \in utxos \cup Outputs(ToSet(b.txs)) : Spends(in, u)
    BY <1>3 DEF SpendsFrom, Outputs
  <2>2. CASE u \in Outputs(ToSet(b.txs))
    <3>1. N + 1 \in 1..N + 1
      BY <1>1
    <3> QED BY <1>2, <2>1, <2>2, <3>1 DEF SpendsFrom
  <2>3. CASE u \in utxos
    <3>1. PICK g \in 1..N : u \in Outputs(ToSet(chain[g].txs))
      BY <1>1, <2>3 DEF Outputs, AllTxs
    <3>2. g \in 1..N + 1 /\ next[g] = chain[g]
      BY <1>1, <1>2
    <3> QED BY <2>1, <3>1, <3>2 DEF SpendsFrom
  <2> QED BY <2>1, <2>2, <2>3
<1>6. BlockOK(next, N + 1)
  <2>1. \A tx \in ToSet(b.txs) : tx.id \in 3 * (N + 1) - 2..3 * (N + 1)
    BY <1>1, <1>3
  <2> QED BY <1>2, <1>3, <1>5, <2>1 DEF BlockOK
<1>7. ASSUME NEW h \in 1..N PROVE BlockOK(next, h)
  <2>1. BlockOK(chain, h) /\ \A g \in 1..h : next[g] = chain[g]
    BY <1>1, <1>2
  <2>2. next[h] = chain[h]
    BY <1>2
  <2> QED BY <2>1, <2>2 DEF BlockOK
<1>8. ASSUME NEW tx \in AllTxs(chain), NEW ty \in ToSet(b.txs)
      PROVE  tx.id # ty.id /\ \A in \in tx.ins : in.tx # ty.id
  <2>1. ty.id \in Nat /\ ty.id > 3 * N
    BY <1>1, <1>3
  <2> QED BY <2>1, FreshIds
<1> QED BY <1>2, <1>4, <1>6, <1>7, <1>8 DEF next

LEMMA MineStep ==
    ASSUME IInv, NEW n \in Node, NEW transfers, MineNewBlock(n, transfers)
    PROVE  IInv'
<1> DEFINE N == Len(mined)
           t == tip[n]
           Block(txs) == [height |-> GetBestHeight(t) + 1, prev |-> t, txs |-> txs]
<1>1. TypeOK /\ LedgerOK /\ (TwoNodes => FetchOK)
  BY DEF IInv
<1>2. /\ Linked(mined) /\ N \in Nat /\ DOMAIN mined = 1..N /\ t \in 0..N
      /\ \A h \in DOMAIN mined : BlockOK(mined, h)
      /\ table[n] \subseteq Outputs(AllTxs(mined))
  BY <1>1 DEF TypeOK, LedgerOK, Linked, IsSeq
<1>3. PICK txs \in PackedBlocks(NextTx, transfers, table[n]) :
         /\ mined' = Append(mined, Block(txs))
         /\ \/ Killed(n) /\ UNCHANGED interrupted
            \/ /\ Complete(t, stored[n])
               /\ Reset(n, Update(FindUTXOMap(TxsOf(Walk(t)) \o <<txs>>), ToSet(txs)))
            \/ ~Complete(t, stored[n]) /\ UNCHANGED <<table, stops, unreset, interrupted>>
  BY DEF MineNewBlock
<1> DEFINE b == Block(txs)
<1>4. b.prev = t /\ b.txs = txs /\ txs \in PackedBlocks(3 * N + 1, transfers, table[n])
  BY DEF NextTx
<1>5. mined' = Append(mined, b)
  BY <1>3
<1> HIDE DEF b, Block
<1>6. /\ \A h \in DOMAIN mined' : BlockOK(mined', h)
      /\ AllTxs(mined') = AllTxs(mined) \cup ToSet(txs)
      /\ \A tx \in AllTxs(mined), ty \in ToSet(txs) :
            tx.id # ty.id /\ \A in \in tx.ins : in.tx # ty.id
  BY <1>2, <1>4, <1>5, LedgerExtended
<1>7. /\ Linked(mined') /\ Len(mined') = N + 1 /\ DOMAIN mined' = 1..N \cup {N + 1}
      /\ mined'[N + 1] = b
      /\ \A k \in 0..N : Back(mined', k) = Back(mined, k) /\ TxsOn(mined', k) = TxsOn(mined, k)
      /\ TxsOn(mined', N + 1) = TxsOn(mined, t) \cup ToSet(txs)
  BY <1>2, <1>4, <1>5, AppendSet, BackExtended, TxsExtended DEF Linked
<1>8. /\ ~up[n] /\ UNCHANGED <<up, transactionArray, net>>
      /\ tip' = [tip EXCEPT ![n] = N + 1] /\ stored' = [stored EXCEPT ![n] = @ \cup {N + 1}]
  BY <1>7 DEF MineNewBlock
<1>9. ToSet(Back(mined', N + 1)) = {N + 1} \cup ToSet(Back(mined, t))
  <2>1. N + 1 \in DOMAIN mined' /\ mined'[N + 1].prev = t
    BY <1>4, <1>7
  <2> QED BY <2>1, <1>2, <1>7, BackWalks
<1>10. \A k \in 0..N : ChainTable(mined', k) = ChainTable(mined, k)
  <2> SUFFICES ASSUME NEW k \in 0..N PROVE ChainTable(mined', k) = ChainTable(mined, k)
    OBVIOUS
  <2>1. k \in 0..Len(mined')
    BY <1>2, <1>7
  <2> QED BY <2>1, <1>2, <1>7, ChainTableIs
<1>11. /\ stored' \in [Node -> SUBSET DOMAIN mined'] /\ tip' \in [Node -> 0..Len(mined')]
       /\ stored'[n] = stored[n] \cup {N + 1} /\ tip'[n] = N + 1
       /\ \A k \in Node \ {n} : stored'[k] = stored[k] /\ tip'[k] = tip[k]
  <2>1. 0..N \subseteq 0..N + 1 /\ N + 1 \in 0..N + 1
    BY <1>2
  <2>2. SUBSET DOMAIN mined \subseteq SUBSET DOMAIN mined' /\ N + 1 \in DOMAIN mined'
    BY <1>2, <1>7
  <2>3. stored \in [Node -> SUBSET DOMAIN mined] /\ tip \in [Node -> 0..N]
    BY <1>1 DEF TypeOK
  <2>4. stored[n] \cup {N + 1} \in SUBSET DOMAIN mined'
    BY <2>2, <2>3
  <2> QED BY <1>7, <1>8, <2>1, <2>2, <2>3, <2>4
<1>12. ASSUME Complete(t, stored[n])
       PROVE  Update(FindUTXOMap(TxsOf(Walk(t)) \o <<txs>>), ToSet(txs)) = ChainTable(mined', N + 1)
  <2> DEFINE old == TxsOn(mined, t)
             new == ToSet(txs)
             blocks == TxsOf(Walk(t))
  <2>1. IsSeq(blocks) /\ Txs(blocks) = old
    BY <1>2, WalkTxs, WalkIsBack DEF TxsOf
  <2>2. Txs(blocks \o <<txs>>) = old \cup new
    <3> HIDE DEF blocks, old
    <3>1. ToSet(blocks \o <<txs>>) = ToSet(blocks) \cup {txs}
      BY <2>1, ConcatSet, SingleSet
    <3> QED BY <2>1, <3>1 DEF Txs
  <2>3. FindUTXOMap(blocks \o <<txs>>) = Unspent(old \cup new, old \cup new)
    <3> HIDE DEF blocks, old, new
    <3> QED BY <2>2 DEF FindUTXOMap
  <2>4. \A tx \in old, ty \in new : tx.id # ty.id /\ \A in \in tx.ins : in.tx # ty.id
    <3>1. ToSet(Back(mined, t)) \subseteq DOMAIN mined
      <4>1. ToSet(Back(mined, t)) \subseteq 1..t
        BY <1>2, BackWalks
      <4> QED BY <4>1, <1>2
    <3>2. old \subseteq AllTxs(mined)
      BY <3>1 DEF TxsOn, AllTxs
    <3> HIDE DEF old, new
    <3> QED BY <3>2, <1>6 DEF new
  <2>5. ChainTable(mined', N + 1) = Unspent(old \cup new, old \cup new)
    <3>1. N + 1 \in 0..Len(mined')
      BY <1>2, <1>7
    <3> QED BY <3>1, <1>7, ChainTableIs
  <2> HIDE DEF old, new, blocks
  <2>6. Update(Unspent(old \cup new, old \cup new), new) = Unspent(old \cup new, old \cup new)
    BY <2>4, UpdateAfterReset
  <2> QED BY <2>3, <2>5, <2>6 DEF blocks, new
<1>13. ASSUME NEW k \in Node \ {n}, table'[k] = table[k], k \in unreset' <=> k \in unreset
       PROVE  Synced(k) => Synced(k)'
  <2>1. tip[k] \in 0..N
    BY <1>1 DEF TypeOK
  <2> QED BY <2>1, <1>7, <1>10, <1>11, <1>13, SyncedIs, SyncedNext DEF InSync
<1>14. Complete(t, stored[n]) => ToSet(Back(mined', tip'[n])) \subseteq stored'[n]
  BY <1>9, <1>11, CompleteIs
<1>15. TwoNodes /\ n \notin interrupted => Complete(t, stored[n])
  BY <1>1, <1>8 DEF FetchOK, SyncOK, GoesOn, Synced
<1>16. /\ table' = [k \in Node |-> table'[k]]
       /\ \A k \in Node \ {n} : table'[k] = table[k] /\ (k \in unreset' <=> k \in unreset)
       /\ \A k \in Node \ {n} : k \in interrupted' <=> k \in interrupted
       /\ table'[n] = table[n] \/ table'[n] = ChainTable(mined', N + 1)
       /\ TwoNodes => n \in interrupted' \/ Synced(n)'
  <2>1. CASE Killed(n) /\ UNCHANGED interrupted
    <3>1. table' = table /\ unreset' = unreset \cup {n} /\ interrupted' = interrupted
      BY <2>1 DEF Killed
    <3>2. TwoNodes /\ n \notin interrupted => InSync(mined', tip'[n], stored'[n], table'[n], n \in unreset')
      BY <3>1, <1>14, <1>15 DEF InSync
    <3> QED BY <3>1, <3>2, <1>1, SyncedNext DEF TypeOK
  <2>2. CASE /\ Complete(t, stored[n])
             /\ Reset(n, Update(FindUTXOMap(TxsOf(Walk(t)) \o <<txs>>), ToSet(txs)))
    <3>1. /\ table' = [table EXCEPT ![n] = ChainTable(mined', N + 1)]
          /\ unreset' = unreset \ {n} /\ interrupted' = interrupted \ {n}
      BY <2>2, <1>12 DEF Reset
    <3>2. table'[n] = ChainTable(mined', N + 1) /\ \A k \in Node \ {n} : table'[k] = table[k]
      BY <3>1, <1>1 DEF TypeOK
    <3>3. InSync(mined', tip'[n], stored'[n], table'[n], n \in unreset')
      BY <2>2, <3>2, <1>11, <1>14 DEF InSync
    <3>4. table' = [k \in Node |-> table'[k]]
      BY <3>1, <1>1 DEF TypeOK
    <3> QED BY <3>1, <3>2, <3>3, <3>4, SyncedNext
  <2>3. CASE ~Complete(t, stored[n]) /\ UNCHANGED <<table, stops, unreset, interrupted>>
    BY <2>3, <1>1, <1>15 DEF TypeOK
  <2> QED BY <1>3, <2>1, <2>2, <2>3
<1>17. TypeOK'
  BY <1>1, <1>7, <1>8, <1>11, <1>16 DEF TypeOK
<1>18. LedgerOK'
  <2>1. Outputs(AllTxs(mined)) \subseteq Outputs(AllTxs(mined'))
    BY <1>6 DEF Outputs
  <2>2. ChainTable(mined', N + 1) \subseteq Outputs(AllTxs(mined'))
    <3>1. N + 1 \in 0..Len(mined')
      BY <1>2, <1>7
    <3> QED BY <3>1, <1>7, TableOfChain
  <2>3. \A k \in Node : table'[k] \subseteq Outputs(AllTxs(mined'))
    BY <2>1, <2>2, <1>1, <1>16 DEF LedgerOK
  <2> QED BY <2>3, <1>6 DEF LedgerOK
<1>19. \A k \in Node : stored[k] \subseteq stored'[k]
  BY <1>11
<1>20. \A k \in Node \ {n} : (Synced(k) => Synced(k)') /\ (k \in interrupted' <=> k \in interrupted)
  BY <1>13, <1>16
<1> QED BY <1>8, <1>16, <1>17, <1>18, <1>19, <1>20, CommandStep

LEMMA StutterStep == ASSUME IInv, UNCHANGED vars PROVE IInv'
<1>1. /\ UNCHANGED <<mined, stored, tip, table, unreset>>
      /\ UNCHANGED <<up, transactionArray, net, interrupted>>
  BY DEF vars, kills
<1>2. TypeOK /\ LedgerOK /\ MessagesOK /\ (TwoNodes => FetchOK)
  BY DEF IInv
<1>3. TypeOK' /\ LedgerOK'
  BY <1>1, <1>2, LedgerUnchanged DEF TypeOK
<1>4. MessagesOK'
  BY <1>1, <1>2 DEF MessagesOK, MessageOK
<1>5. \A k \in Node : Synced(k)' <=> Synced(k)
  BY <1>1, <1>2, LedgerUnchanged, SyncedSame
<1>6. ASSUME FetchOK PROVE FetchOK'
  <2>1. ListsOK'
    BY <1>1, <1>6 DEF FetchOK, ListsOK, AssignOK, Available
  <2>2. SyncOK'
    BY <1>1, <1>5, <1>6 DEF FetchOK, SyncOK, GoesOn, Token
  <2> QED BY <2>1, <2>2 DEF FetchOK
<1> QED BY <1>2, <1>3, <1>4, <1>6 DEF IInv

LEMMA InitIInv == Init => IInv
<1> SUFFICES ASSUME Init PROVE IInv
  OBVIOUS
<1> DEFINE coin == NewCoinbaseTransaction(1, CHOOSE a \in Wallets[Main] : TRUE)
           genesis == <<coin>>
           b == [height |-> 1, prev |-> 0, txs |-> genesis]
<1>1. coin.id = 1 /\ TxOK(coin) /\ coin.ins = {}
  BY CoinbaseOK
<1> HIDE DEF coin
<1>2. IsSeq(genesis) /\ ToSet(genesis) = {coin}
  BY SingleSet
<1>3. /\ mined = <<b>> /\ stored = [n \in Node |-> IF n = Main THEN {1} ELSE {}]
      /\ tip = [n \in Node |-> IF n = Main THEN 1 ELSE 0]
      /\ table = [n \in Node |-> IF n = Main THEN FindUTXOMap(<<genesis>>) ELSE {}]
      /\ up = [n \in Node |-> FALSE] /\ transactionArray = [n \in Node |-> <<>>]
      /\ net = EmptyBag /\ unreset = {}
  BY DEF Init, coin
<1>4. b.prev = 0 /\ b.txs = genesis
  OBVIOUS
<1> HIDE DEF b, genesis
<1>5. IsSeq(mined) /\ Len(mined) = 1 /\ DOMAIN mined = {1} /\ mined[1] = b
  BY <1>3, SingleSet
<1>6. Linked(mined)
  BY <1>4, <1>5 DEF Linked
<1>7. IsNet(net) /\ BagToSet(net) = {}
  BY <1>3 DEF IsNet, EmptyBag, SetToBag, BagToSet
<1>8. TypeOK
  BY <1>3, <1>5, <1>6, <1>7 DEF TypeOK
<1>9. FindUTXOMap(<<genesis>>) = ChainTable(mined, 1)
  <2>1. Txs(<<genesis>>) = {coin}
    <3>1. ToSet(<<genesis>>) = {genesis}
      BY SingleSet
    <3> QED BY <3>1, <1>2 DEF Txs
  <2>2. TxsOn(mined, 1) = {coin}
    <3>1. ToSet(Back(mined, 1)) = {1}
      BY <1>4, <1>5, <1>6, BackWalks
    <3> QED BY <3>1, <1>2, <1>4, <1>5 DEF TxsOn
  <2>3. 1 \in 0..Len(mined)
    BY <1>5
  <2> QED BY <2>1, <2>2, <2>3, <1>6, ChainTableIs DEF FindUTXOMap
<1>10. LedgerOK
  <2>1. BlockOK(mined, 1)
    BY <1>1, <1>2, <1>4, <1>5 DEF BlockOK
  <2>2. FindUTXOMap(<<genesis>>) \subseteq Outputs(AllTxs(mined))
    <3>1. 1 \in 0..Len(mined)
      BY <1>5
    <3> QED BY <3>1, <1>6, <1>9, TableOfChain
  <2> QED BY <2>1, <2>2, <1>3, <1>5 DEF LedgerOK
<1>11. MessagesOK
  BY <1>7 DEF MessagesOK
<1>12. \A n \in Node : Synced(n) /\ transactionArray[n] = <<>>
  <2> SUFFICES ASSUME NEW n \in Node PROVE InSync(mined, tip[n], stored[n], table[n], n \in unreset)
    BY <1>3, SyncedIs
  <2>1. CASE n = Main
    <3>1. ToSet(Back(mined, 1)) = {1}
      BY <1>4, <1>5, <1>6, BackWalks
    <3> QED BY <2>1, <3>1, <1>3, <1>9 DEF InSync
  <2>2. CASE n # Main
    <3>1. ToSet(Back(mined, 0)) = {} /\ TxsOn(mined, 0) = {}
      BY <1>6, BackWalks DEF TxsOn
    <3>2. 0 \in 0..Len(mined)
      BY <1>5
    <3>3. ChainTable(mined, 0) = {}
      BY <3>1, <3>2, <1>6, ChainTableIs DEF Unspent
    <3> QED BY <2>2, <3>1, <3>3, <1>3 DEF InSync
  <2> QED BY <2>1, <2>2
<1>13. FetchOK
  BY <1>3, <1>7, <1>12 DEF FetchOK, ListsOK, SyncOK, Available, ToSet
<1> QED BY <1>8, <1>10, <1>11, <1>13 DEF IInv

(* In every reachable state the ledger is well formed and a message or a
   goroutine under way names only what its sender stores; with two nodes, a
   list names only what the other node stores, and a node that is neither
   interrupted nor in sync is up and has a message or a goroutine that keeps
   its fetch going (handleInv, handleBlock and handleGetData,
   Server_handle.go:39-146), whatever the goroutines do to the list.        *)
THEOREM InvariantHolds == Spec => []IInv
<1>1. IInv /\ [Next]_vars => IInv'
  <2> SUFFICES ASSUME IInv, [Next]_vars PROVE IInv'
    OBVIOUS
  <2>1. ASSUME NEW n \in Node, NEW transfers \in Transfers, MineNewBlock(n, transfers) PROVE IInv'
    BY <2>1, MineStep
  <2>2. ASSUME NEW n \in Node, ResetUTXO(n) \/ Start(n) \/ Stop(n) PROVE IInv'
    BY <2>2, ResetUTXOStep, StartStep, StopStep
  <2>3. ASSUME NEW m \in BagToSet(net),
               \/ HandleVersion(m) \/ HandleGetBlocks(m) \/ HandleGetData(m)
               \/ HandleInv(m) \/ Assign(m)
               \/ HandleBlock(m) \/ FirstTest(m) \/ SecondTest(m) \/ RequestNext(m) \/ Pop(m)
        PROVE  IInv'
    BY <2>3, VersionStep, GetBlocksStep, GetDataStep, InvStep, AssignStep, BlockStep,
       TestStep, RequestStep, PopStep
  <2>4. CASE UNCHANGED vars
    BY <2>4, StutterStep
  <2> QED BY <2>1, <2>2, <2>3, <2>4 DEF Next, Handle
<1> QED BY <1>1, InitIInv, PTL DEF Spec

(* With two nodes, a node that neither a message nor a goroutine keeps
   fetching has its whole chain, and the table of it, unless a fetch or a
   reset was cut short: the goroutines that share the list end in a whole
   chain or in a panic (Server_handle.go:54-68, 92-96).                     *)
THEOREM SettledNodesAreSynced == ASSUME TwoNodes PROVE Spec => []SettledMeansSynced
<1>1. IInv => SettledMeansSynced
  <2> SUFFICES ASSUME IInv, NEW n \in Node, ~Fetching(n), n \notin interrupted PROVE Synced(n)
    BY DEF SettledMeansSynced
  <2> QED BY TokenMeansFetching DEF IInv, FetchOK, SyncOK, GoesOn
<1> QED BY <1>1, InvariantHolds, PTL

-----------------------------------------------------------------------------
(* Double spends. *)

\* What excuses a double spend among the blocks back from h.
Explained(chain, wrong, h) ==
    SpentTwice(TxsOn(chain, h))
        => \E k \in ToSet(Back(chain, h)) : k \in wrong \/ SpentTwice(ToSet(chain[k].txs))

LEMMA ChainTxsAre ==
    ASSUME Linked(mined), NEW h \in DOMAIN mined
    PROVE  ChainTxs(h) = TxsOn(mined, h)
<1>1. h \in 0..Len(mined)
  BY DEF Linked, IsSeq
<1> QED BY <1>1, WalkTxs, WalkIsBack DEF ChainTxs, TxsOf

LEMMA ExplainedIs ==
    ASSUME Linked(mined)
    PROVE  DoubleSpendsExplained <=> \A h \in DOMAIN mined : Explained(mined, misled, h)
BY ChainTxsAre, WalkIsBack DEF DoubleSpendsExplained, Explained

LEMMA ExplainedNext ==
    ASSUME Linked(mined'), \A h \in DOMAIN mined' : Explained(mined', misled', h)
    PROVE  DoubleSpendsExplained'
<1> SUFFICES ASSUME NEW h \in DOMAIN mined', SpentTwice(ChainTxs(h)')
             PROVE  \E k \in ToSet(Walk(h)') : k \in misled' \/ SpentTwice(ToSet(mined'[k].txs))
  BY DEF DoubleSpendsExplained
<1>1. Walk(h)' = Back(mined', h)
  BY DEF Walk, Back
<1>2. h \in 0..Len(mined')
  BY DEF Linked, IsSeq
<1>3. ChainTxs(h)' = TxsOn(mined', h)
  BY <1>1, <1>2, WalkTxs DEF ChainTxs, TxsOf, Txs
<1> QED BY <1>1, <1>3 DEF Explained

\* A hash and an index stand for one output.
LEMMA OneOutput ==
    ASSUME NEW chain, Linked(chain), \A h \in DOMAIN chain : BlockOK(chain, h)
    PROVE  /\ \A tx, ty \in AllTxs(chain) : tx.id = ty.id => tx = ty
           /\ \A u, v \in Outputs(AllTxs(chain)) : u.tx = v.tx /\ u.index = v.index => u = v
<1>1. ASSUME NEW tx \in AllTxs(chain), NEW ty \in AllTxs(chain), tx.id = ty.id PROVE tx = ty
  <2>1. PICK h \in DOMAIN chain : tx \in ToSet(chain[h].txs)
    BY DEF AllTxs
  <2>2. PICK g \in DOMAIN chain : ty \in ToSet(chain[g].txs)
    BY DEF AllTxs
  <2>3. h \in Nat /\ g \in Nat /\ tx.id \in 3 * h - 2..3 * h /\ tx.id \in 3 * g - 2..3 * g
    BY <1>1, <2>1, <2>2 DEF BlockOK, Linked, IsSeq
  <2>4. h = g
    BY <2>3
  <2> QED BY <1>1, <2>1, <2>2, <2>4 DEF BlockOK
<1>2. ASSUME NEW u \in Outputs(AllTxs(chain)), NEW v \in Outputs(AllTxs(chain)),
             u.tx = v.tx, u.index = v.index
      PROVE  u = v
  <2>1. PICK tx \in AllTxs(chain) : u \in Utxos(tx)
    BY DEF Outputs
  <2>2. PICK ty \in AllTxs(chain) : v \in Utxos(ty)
    BY DEF Outputs
  <2>3. tx = ty
    BY <1>1, <1>2, <2>1, <2>2, UtxosHaveId
  <2> QED BY <1>2, <2>1, <2>2, <2>3 DEF Utxos
<1> QED BY <1>1, <1>2

\* A block packed from the table of its chain spends what no older block does.
LEMMA NotSpentBefore ==
    ASSUME NEW chain, Linked(chain), \A h \in DOMAIN chain : BlockOK(chain, h),
           NEW t \in 0..Len(chain), NEW transfers,
           NEW txs \in PackedBlocks(3 * Len(chain) + 1, transfers, ChainTable(chain, t)),
           NEW tx \in ToSet(txs), NEW a \in tx.ins,
           NEW ty \in TxsOn(chain, t), NEW b \in ty.ins
    PROVE  ~(a.tx = b.tx /\ a.index = b.index)
<1> DEFINE old == TxsOn(chain, t)
           O == Outputs(AllTxs(chain))
<1>1. Len(chain) \in Nat /\ DOMAIN chain = 1..Len(chain) /\ 3 * Len(chain) + 1 \in Nat
  BY DEF Linked, IsSeq
<1>2. old \subseteq AllTxs(chain) /\ ChainTable(chain, t) \subseteq O
  <2>1. ToSet(Back(chain, t)) \subseteq 1..t
    BY BackWalks
  <2> QED BY <1>1, <2>1, TableOfChain DEF TxsOn, AllTxs
<1>3. /\ \A tz \in ToSet(txs) : tz.id \in Nat /\ tz.id > 3 * Len(chain)
      /\ SpendsFrom(a, ChainTable(chain, t) \cup UNION {Utxos(tz) : tz \in ToSet(txs)})
  <2>1. IsFiniteSet(ChainTable(chain, t))
    BY <1>2, FiniteOutputs, FS_Subset
  <2>2. \A tz \in ToSet(txs) : tz.id \in 3 * Len(chain) + 1..(3 * Len(chain) + 1) + 2
    BY <1>1, <2>1, PackedOK
  <2> QED BY <1>1, <2>1, <2>2, PackedOK
<1> SUFFICES ASSUME a.tx = b.tx, a.index = b.index PROVE FALSE
  OBVIOUS
<1>4. PICK u \in ChainTable(chain, t) \cup UNION {Utxos(tz) : tz \in ToSet(txs)} : Spends(a, u)
  BY <1>3 DEF SpendsFrom
<1>5. CASE u \in UNION {Utxos(tz) : tz \in ToSet(txs)}
  <2>1. PICK tz \in ToSet(txs) : u \in Utxos(tz)
    BY <1>5
  <2>2. b.tx = tz.id
    BY <1>4, <2>1, UtxosHaveId DEF Spends
  <2>3. b.tx \in Nat /\ b.tx < tz.id
    BY <1>2, <1>3, FreshIds
  <2> QED BY <2>2, <2>3
<1>6. CASE u \in ChainTable(chain, t)
  <2>1. ~Spends(b, u)
    BY <1>6, ChainTableIs DEF Unspent, Ins
  <2>2. PICK v \in O : Spends(b, v)
    <3>1. PICK h \in DOMAIN chain : ty \in ToSet(chain[h].txs)
      BY <1>2 DEF AllTxs
    <3>2. PICK g \in 1..h : SpendsFrom(b, Outputs(ToSet(chain[g].txs)))
      BY <3>1 DEF BlockOK
    <3>3. g \in DOMAIN chain
      BY <1>1, <3>1, <3>2
    <3>4. Outputs(ToSet(chain[g].txs)) \subseteq O
      BY <3>3 DEF Outputs, AllTxs
    <3> QED BY <3>2, <3>4 DEF SpendsFrom
  <2>3. u \in O /\ u.tx = v.tx /\ u.index = v.index
    BY <1>2, <1>4, <1>6, <2>2 DEF Spends
  <2>4. u = v
    BY <2>2, <2>3, OneOutput
  <2> QED BY <2>1, <2>2, <2>4
<1> QED BY <1>4, <1>5, <1>6

LEMMA MineExplained ==
    ASSUME TwoNodes, IInv, DoubleSpendsExplained, NEW n \in Node, NEW transfers,
           MineNewBlock(n, transfers)
    PROVE  DoubleSpendsExplained'
<1> DEFINE N == Len(mined)
           t == tip[n]
           Block(txs) == [height |-> GetBestHeight(t) + 1, prev |-> t, txs |-> txs]
<1>1. /\ Linked(mined) /\ N \in Nat /\ DOMAIN mined = 1..N /\ t \in 0..N /\ t # 0
      /\ \A h \in DOMAIN mined : BlockOK(mined, h)
      /\ \A h \in DOMAIN mined : Explained(mined, misled, h)
  BY ExplainedIs DEF IInv, TypeOK, LedgerOK, Linked, IsSeq, MineNewBlock
<1>2. PICK txs \in PackedBlocks(NextTx, transfers, table[n]) : mined' = Append(mined, Block(txs))
  BY DEF MineNewBlock
<1> DEFINE b == Block(txs)
           new == ToSet(txs)
<1>3. b.prev = t /\ b.txs = txs /\ txs \in PackedBlocks(3 * N + 1, transfers, table[n])
  BY DEF NextTx
<1>4. mined' = Append(mined, b)
  BY <1>2
<1> HIDE DEF b, Block
<1>5. /\ Linked(mined') /\ Len(mined') = N + 1 /\ DOMAIN mined' = 1..N \cup {N + 1}
      /\ mined'[N + 1] = b /\ \A k \in 1..N : mined'[k] = mined[k]
      /\ \A k \in 0..N : Back(mined', k) = Back(mined, k) /\ TxsOn(mined', k) = TxsOn(mined, k)
      /\ TxsOn(mined', N + 1) = TxsOn(mined, t) \cup new
  BY <1>1, <1>3, <1>4, AppendSet, BackExtended, TxsExtended DEF Linked
<1>6. ToSet(Back(mined', N + 1)) = {N + 1} \cup ToSet(Back(mined, t))
  <2>1. N + 1 \in DOMAIN mined' /\ mined'[N + 1].prev = t
    BY <1>3, <1>5
  <2> QED BY <2>1, <1>1, <1>5, BackWalks
<1>7. \A h \in 1..N : ToSet(Back(mined, h)) \subseteq 1..N
  <2> SUFFICES ASSUME NEW h \in 1..N PROVE ToSet(Back(mined, h)) \subseteq 1..N
    OBVIOUS
  <2>1. h \in 0..Len(mined)
    BY <1>1
  <2>2. ToSet(Back(mined, h)) \subseteq 1..h
    BY <1>1, <2>1, BackWalks
  <2> QED BY <1>1, <2>2
<1>8. misled \subseteq misled' /\ (N + 1 \in misled' \/ n \notin unreset \cup interrupted)
  BY <1>5 DEF MineNewBlock
<1>9. ASSUME NEW h \in 1..N PROVE Explained(mined', misled', h)
  <2>1. Explained(mined, misled, h) /\ h \in 0..N
    BY <1>1
  <2>2. Back(mined', h) = Back(mined, h) /\ TxsOn(mined', h) = TxsOn(mined, h)
    BY <1>5, <2>1
  <2> QED BY <2>1, <2>2, <1>5, <1>7, <1>8 DEF Explained
<1>10. Explained(mined', misled', N + 1)
  <2> SUFFICES ASSUME SpentTwice(TxsOn(mined, t) \cup new), N + 1 \notin misled'
               PROVE  \E k \in ToSet(Back(mined', N + 1)) :
                         k \in misled' \/ SpentTwice(ToSet(mined'[k].txs))
    BY <1>5, <1>6 DEF Explained
  <2>1. table[n] = ChainTable(mined, t)
    <3>1. n \notin unreset /\ n \notin interrupted
      BY <1>8
    <3>2. Synced(n)
      BY <3>1 DEF IInv, FetchOK, SyncOK, GoesOn, MineNewBlock
    <3> QED BY <3>1, <3>2, SyncedIs DEF InSync
  <2>2. \A tx \in new, ty \in TxsOn(mined, t) : \A a \in tx.ins, c \in ty.ins :
           ~(a.tx = c.tx /\ a.index = c.index)
    BY <1>1, <1>3, <2>1, NotSpentBefore
  <2>3. SpentTwice(TxsOn(mined, t)) \/ SpentTwice(new)
    <3> HIDE DEF new
    <3> QED BY <2>2 DEF SpentTwice
  <2>4. CASE SpentTwice(new)
    BY <2>4, <1>3, <1>5, <1>6
  <2>5. CASE SpentTwice(TxsOn(mined, t))
    <3>1. t \in 1..N
      BY <1>1
    <3>2. PICK k \in ToSet(Back(mined, t)) : k \in misled \/ SpentTwice(ToSet(mined[k].txs))
      BY <2>5, <3>1, <1>1 DEF Explained
    <3>3. k \in 1..N /\ mined'[k] = mined[k]
      BY <3>1, <1>5, <1>7
    <3> QED BY <3>2, <3>3, <1>6, <1>8
  <2> QED BY <2>3, <2>4, <2>5
<1>11. \A h \in DOMAIN mined' : Explained(mined', misled', h)
  BY <1>5, <1>9, <1>10
<1> QED BY <1>5, <1>11, ExplainedNext

\* No other action touches the blocks or which of them are marked.
LEMMA OnlyMining ==
    ASSUME [Next]_vars
    PROVE  \/ \E n \in Node, transfers \in Transfers : MineNewBlock(n, transfers)
           \/ UNCHANGED <<mined, misled>>
BY DEF Next, Handle, ResetUTXO, Start, Stop, HandleVersion, HandleGetBlocks, HandleGetData,
       HandleInv, Assign, HandleBlock, FirstTest, SecondTest, RequestNext, Pop, vars, kills

LEMMA ExplainedSame ==
    ASSUME IInv, DoubleSpendsExplained, UNCHANGED <<mined, misled>>
    PROVE  DoubleSpendsExplained'
BY ExplainedIs, ExplainedNext DEF IInv, TypeOK

LEMMA InitExplained == Init => DoubleSpendsExplained
<1> SUFFICES ASSUME Init PROVE DoubleSpendsExplained
  OBVIOUS
<1> DEFINE coin == NewCoinbaseTransaction(1, CHOOSE a \in Wallets[Main] : TRUE)
           genesis == <<coin>>
           b == [height |-> 1, prev |-> 0, txs |-> genesis]
<1>1. coin.ins = {}
  BY CoinbaseOK
<1>2. mined = <<b>> /\ b.txs = genesis
  BY DEF Init
<1> HIDE DEF coin
<1>3. ToSet(genesis) = {coin}
  BY SingleSet
<1> HIDE DEF b, genesis
<1>4. DOMAIN mined = {1} /\ mined[1] = b
  BY <1>2
<1>5. Linked(mined)
  BY InitIInv DEF IInv, TypeOK
<1>6. Len(mined) = 1
  BY <1>2
<1>7. ToSet(Back(mined, 1)) \subseteq {1}
  <2>1. ToSet(Back(mined, 1)) \subseteq 1..1
    BY <1>5, <1>6, BackWalks
  <2> QED BY <2>1
<1>8. TxsOn(mined, 1) \subseteq {coin}
  BY <1>2, <1>3, <1>4, <1>7 DEF TxsOn
<1>9. ~SpentTwice(TxsOn(mined, 1))
  BY <1>1, <1>8 DEF SpentTwice
<1> QED BY <1>4, <1>5, <1>9, ExplainedIs DEF Explained

(* An output is spent twice on a chain only inside one block, or by a block
   mined on a table that a kill or a fetch cut short left stale: MineNewBlock
   (Blockchain.go:417-474) otherwise spends from the table of its own chain.
   Of two nodes: with more, a fetch may end with neither (SettledMeansSynced). *)
THEOREM DoubleSpendsAreExplained == ASSUME TwoNodes PROVE Spec => []DoubleSpendsExplained
<1>1. IInv /\ DoubleSpendsExplained /\ [Next]_vars => DoubleSpendsExplained'
  BY OnlyMining, MineExplained, ExplainedSame
<1> QED BY <1>1, InitExplained, InvariantHolds, PTL DEF Spec

-----------------------------------------------------------------------------
(* Money is conserved. *)

Valued(S) == IsFiniteSet(S) /\ \A u \in S : u.value \in Int

LEMMA TotalType == ASSUME NEW S, Valued(S) PROVE Total(S) \in Int
<1> DEFINE f == [u \in S |-> u.value]
<1>1. Total(S) = SumOf(f, S)
  BY TotalIs DEF Valued
<1>2. \A u \in S : f[u] \in Int
  BY DEF Valued
<1> HIDE DEF f
<1> QED BY <1>1, <1>2, SumType DEF Valued

LEMMA TotalOfNone == Total({}) = 0
<1>1. IsFiniteSet({})
  BY FS_EmptySet
<1>2. Total({}) = SumOf([u \in {} |-> u.value], {})
  BY <1>1, TotalIs
<1>3. SumOf([u \in {} |-> u.value], {}) = 0
  BY <1>1, SumStep
<1> QED BY <1>2, <1>3

LEMMA TotalOfOne == ASSUME NEW u, u.value \in Int PROVE Total({u}) = u.value
<1> DEFINE S == {u}
           f == [v \in S |-> v.value]
<1>1. IsFiniteSet(S)
  BY FS_Singleton
<1>2. f[u] = u.value /\ \A x \in S : f[x] \in Int
  OBVIOUS
<1>3. S \ {u} = {}
  OBVIOUS
<1>4. u \in S
  OBVIOUS
<1>5. Total(S) = SumOf(f, S)
  BY <1>1, TotalIs
<1> HIDE DEF f, S
<1>6. SumOf(f, S) = f[u] + SumOf(f, S \ {u})
  BY <1>1, <1>2, <1>4, SumRemove
<1>7. SumOf(f, {}) = 0
  BY SumStep, FS_EmptySet
<1>8. Total(S) = u.value
  BY <1>2, <1>3, <1>5, <1>6, <1>7
<1> QED BY <1>8 DEF S

LEMMA TotalUnion ==
    ASSUME NEW A, NEW B, Valued(A), Valued(B), A \cap B = {}
    PROVE  Valued(A \cup B) /\ Total(A \cup B) = Total(A) + Total(B)
<1> DEFINE f == [u \in A \cup B |-> u.value]
<1>1. IsFiniteSet(A) /\ IsFiniteSet(B) /\ IsFiniteSet(A \cup B)
  BY FS_Union DEF Valued
<1>2. \A x \in A \cup B : f[x] \in Int
  BY DEF Valued
<1>3. /\ Total(A \cup B) = SumOf(f, A \cup B)
      /\ Total(A) = SumOf(f, A) /\ Total(B) = SumOf(f, B)
  BY <1>1, TotalIs
<1>4. Valued(A \cup B)
  BY <1>1 DEF Valued
<1> HIDE DEF f
<1> QED BY <1>1, <1>2, <1>3, <1>4, SumUnion

LEMMA TotalWithout ==
    ASSUME NEW S, NEW D, Valued(S), D \subseteq S
    PROVE  Total(S \ D) = Total(S) - Total(D)
<1>1. Valued(D) /\ Valued(S \ D)
  <2>1. IsFiniteSet(D) /\ IsFiniteSet(S \ D)
    BY FS_Subset DEF Valued
  <2> QED BY <2>1 DEF Valued
<1>2. D \cap (S \ D) = {} /\ D \cup (S \ D) = S
  OBVIOUS
<1>3. Total(S) = Total(D) + Total(S \ D)
  BY <1>1, <1>2, TotalUnion
<1> QED BY <1>1, <1>3, TotalType

LEMMA MoneyType ==
    ASSUME NEW p, IsSeq(p), \A u \in ToSet(p) : u.value \in Int
    PROVE  Money(p) \in Int
<1> DEFINE f == [k \in DOMAIN p |-> p[k].value]
<1>1. IsFiniteSet(DOMAIN p)
  BY FS_Interval DEF IsSeq
<1>2. \A k \in DOMAIN p : f[k] \in Int
  BY DEF ToSet
<1>3. Money(p) = SumOf(f, DOMAIN p)
  BY <1>1, MoneyIs
<1> HIDE DEF f
<1> QED BY <1>1, <1>2, <1>3, SumType

\* Without repetition, the money is the worth of what was taken.
LEMMA MoneyOfSet ==
    ASSUME NEW p, IsSeq(p), \A u \in ToSet(p) : u.value \in Int,
           \A i, j \in DOMAIN p : p[i] = p[j] => i = j
    PROVE  Money(p) = Total(ToSet(p))
<1> DEFINE f == [k \in DOMAIN p |-> p[k].value]
           v == [u \in ToSet(p) |-> u.value]
           T == {p[k] : k \in DOMAIN p}
<1>1. IsFiniteSet(DOMAIN p)
  BY FS_Interval DEF IsSeq
<1>2. \A k \in DOMAIN p : f[k] \in Int /\ v[p[k]] = f[k]
  BY DEF ToSet
<1>3. T = ToSet(p)
  BY DEF ToSet
<1>4. Money(p) = SumOf(f, DOMAIN p)
  BY <1>1, MoneyIs
<1>5. Total(ToSet(p)) = SumOf(v, ToSet(p))
  BY FiniteToSet, TotalIs
<1> HIDE DEF f, v
<1>6. SumOf(f, DOMAIN p) = SumOf(v, T)
  BY <1>1, <1>2, SumRenamed
<1> QED BY <1>3, <1>4, <1>5, <1>6

\* What is taken more than once is listed more than once.
LEMMA ListedOnce ==
    ASSUME NEW p, IsSeq(p), \A u \in ToSet(p) : ~(Cardinality({k \in DOMAIN p : p[k] = u}) > 1)
    PROVE  \A i, j \in DOMAIN p : p[i] = p[j] => i = j
<1> SUFFICES ASSUME NEW i \in DOMAIN p, NEW j \in DOMAIN p, p[i] = p[j], i # j PROVE FALSE
  OBVIOUS
<1> DEFINE S == {k \in DOMAIN p : p[k] = p[i]}
<1>1. IsFiniteSet(S)
  <2>1. IsFiniteSet(DOMAIN p)
    BY FS_Interval DEF IsSeq
  <2> QED BY <2>1, FS_Subset
<1>2. i \in S /\ j \in S \ {i}
  OBVIOUS
<1>3. ~(Cardinality(S) > 1)
  BY DEF ToSet
<1> HIDE DEF S
<1>4. /\ IsFiniteSet(S \ {i}) /\ Cardinality(S \ {i}) = Cardinality(S) - 1
      /\ Cardinality((S \ {i}) \ {j}) = Cardinality(S \ {i}) - 1
      /\ Cardinality((S \ {i}) \ {j}) \in Nat /\ Cardinality(S) \in Nat
  BY <1>1, <1>2, FS_RemoveElement, FS_CardinalityType
<1> QED BY <1>3, <1>4

LEMMA UnspentIs ==
    ASSUME NEW txs, NEW others, NEW u
    PROVE  u \in Unspent(txs, others)
               <=> u \in Outputs(txs) /\ \A a \in Ins(others) : ~Spends(a, u)
BY DEF Unspent, Outputs

\* A transaction takes D away from what is unspent and adds its outputs.
LEMMA TxAdded ==
    ASSUME NEW old, NEW tx, NEW D, Valued(Outputs(old)), Valued(Utxos(tx)),
           \A ty \in old : ty.id # tx.id /\ \A a \in ty.ins : a.tx # tx.id,
           \A a \in tx.ins : a.tx # tx.id,
           D \subseteq Outputs(old),
           \A u \in Outputs(old) : u \in D <=> \E a \in tx.ins : Spends(a, u),
           ~SpentTwice(old \cup {tx})
    PROVE  LET all == old \cup {tx}
           IN  Total(Unspent(all, all)) = Total(Unspent(old, old)) - Total(D) + Total(Utxos(tx))
<1> DEFINE all == old \cup {tx}
           T == Unspent(old, old)
<1>1. Ins(all) = Ins(old) \cup tx.ins
  BY DEF Ins
<1>2. \A u \in T : u \in Outputs(old)
  BY UnspentIs
<1>3. \A u \in Outputs(old) : u \in T <=> \A a \in Ins(old) : ~Spends(a, u)
  BY UnspentIs
<1>4. D \subseteq T
  <2> SUFFICES ASSUME NEW u \in D, NEW b \in Ins(old), Spends(b, u) PROVE FALSE
    BY <1>3
  <2>1. PICK a \in tx.ins : Spends(a, u)
    OBVIOUS
  <2>2. PICK ty \in old : b \in ty.ins
    BY DEF Ins
  <2>3. a.tx = b.tx /\ a.index = b.index /\ tx # ty
    BY <2>1, <2>2 DEF Spends
  <2> QED BY <2>2, <2>3 DEF SpentTwice
<1>5. \A u \in Utxos(tx) : u.tx = tx.id /\ \A a \in Ins(all) : ~Spends(a, u)
  BY <1>1, UtxosHaveId DEF Ins, Spends
<1>6. Unspent(all, all) = (T \ D) \cup Utxos(tx)
  <2>1. Outputs(all) = Outputs(old) \cup Utxos(tx)
    BY DEF Outputs
  <2>2. ASSUME NEW u PROVE u \in Unspent(all, all) <=> u \in (T \ D) \cup Utxos(tx)
    <3>1. u \in Unspent(all, all) <=> u \in Outputs(all) /\ \A a \in Ins(all) : ~Spends(a, u)
      BY UnspentIs
    <3> HIDE DEF all, T
    <3> QED BY <3>1, <2>1, <1>1, <1>2, <1>3, <1>5
  <2> QED BY <2>2
<1>7. (T \ D) \cap Utxos(tx) = {}
  <2>1. \A u \in Outputs(old) : u.tx # tx.id
    BY UtxosHaveId DEF Outputs
  <2> QED BY <2>1, <1>2, <1>5
<1>8. Valued(T) /\ Valued(T \ D) /\ Valued(D)
  <2>1. IsFiniteSet(T) /\ IsFiniteSet(T \ D) /\ IsFiniteSet(D)
    BY <1>2, FS_Subset DEF Valued
  <2> QED BY <2>1, <1>2 DEF Valued
<1> HIDE DEF T, all
<1>9. Total((T \ D) \cup Utxos(tx)) = Total(T \ D) + Total(Utxos(tx))
  BY <1>7, <1>8, TotalUnion
<1>10. Total(T \ D) = Total(T) - Total(D)
  BY <1>4, <1>8, TotalWithout
<1>11. Total(Unspent(all, all)) = Total(T) - Total(D) + Total(Utxos(tx))
  BY <1>6, <1>9, <1>10
<1> QED BY <1>11 DEF T, all

LEMMA SpentTwiceGrows ==
    ASSUME NEW S, NEW T, S \subseteq T, SpentTwice(S)
    PROVE  SpentTwice(T)
BY DEF SpentTwice

\* What the outputs of a transfer are worth.
LEMMA TransferWorth ==
    ASSUME NEW id, NEW t, NEW money \in Int, t.amount \in Int, NEW tx,
           tx.id = id, tx.outs = TransferOutputs(t, money)
    PROVE  Valued(Utxos(tx)) /\ Total(Utxos(tx)) = money
<1> DEFINE x == [tx |-> id, index |-> 1, to |-> t.to, value |-> t.amount]
           y == [tx |-> id, index |-> 2, to |-> t.from, value |-> money - t.amount]
<1>1. DOMAIN tx.outs = {1, 2}
  BY DEF TransferOutputs
<1>2. Utxos(tx) = {x} \cup {y}
  BY <1>1 DEF Utxos, TransferOutputs
<1>3. x.value = t.amount /\ y.value = money - t.amount /\ x # y
  OBVIOUS
<1> HIDE DEF x, y
<1>4. x.value \in Int /\ y.value \in Int
  BY <1>3
<1>5. IsFiniteSet({x}) /\ IsFiniteSet({y})
  BY FS_Singleton
<1>6. Valued({x}) /\ Valued({y}) /\ {x} \cap {y} = {}
  BY <1>3, <1>4, <1>5 DEF Valued
<1>7. Total({x}) = t.amount /\ Total({y}) = money - t.amount
  BY <1>3, <1>4, TotalOfOne
<1>8. Valued({x} \cup {y}) /\ Total({x} \cup {y}) = Total({x}) + Total({y})
  BY <1>6, TotalUnion
<1>9. t.amount + (money - t.amount) = money
  OBVIOUS
<1> QED BY <1>2, <1>7, <1>8, <1>9

\* W is everything transacted; no two have the same hash.
World(W) == Valued(Outputs(W)) /\ \A tx, ty \in W : tx.id = ty.id => tx = ty

LEMMA TransferValued ==
    ASSUME NEW W, World(W), NEW id, NEW t, t.amount \in Int,
           NEW utxos, utxos \subseteq Outputs(W), NEW pending, pending \subseteq W,
           IsFiniteSet(pending), \A ty \in pending : TxOK(ty),
           NEW tx \in NewSimpleTransaction(id, t, utxos, pending)
    PROVE  Valued(Utxos(tx))
<1>1. PICK p \in FindSpendableUTXOs(t.from, t.amount, utxos, pending) :
         tx = [id |-> id,
               ins |-> {Input(u.tx, u.index, t.from, Cardinality({k \in DOMAIN p : p[k] = u})) :
                           u \in ToSet(p)},
               outs |-> TransferOutputs(t, Money(p))]
  BY DEF NewSimpleTransaction
<1>2. IsFiniteSet(utxos)
  BY FS_Subset DEF World, Valued
<1>3. IsSeq(p) /\ ToSet(p) \subseteq utxos \cup UNION {Utxos(ty) : ty \in pending}
  BY <1>2, Chosen DEF TxOK
<1>4. ToSet(p) \subseteq Outputs(W)
  BY <1>3 DEF Outputs
<1>5. Money(p) \in Int
  BY <1>3, <1>4, MoneyType DEF World, Valued
<1> QED BY <1>1, <1>5, TransferWorth

\* A transfer that spends outputs of the chain, none of them twice, moves money.
LEMMA TransferAdds ==
    ASSUME NEW W, World(W), NEW old, old \subseteq W, NEW id, NEW t, t.amount \in Int,
           NEW utxos, utxos \subseteq Outputs(W), NEW pending, pending \subseteq W,
           IsFiniteSet(pending), \A ty \in pending : TxOK(ty),
           NEW tx \in NewSimpleTransaction(id, t, utxos, pending),
           \A a \in tx.ins : \E ty \in old : ty.id = a.tx,
           \A ty \in old : ty.id # id /\ \A a \in ty.ins : a.tx # id,
           ~SpentTwice(old \cup {tx})
    PROVE  LET all == old \cup {tx} IN Total(Unspent(all, all)) = Total(Unspent(old, old))
<1> DEFINE In(u, p) == Input(u.tx, u.index, t.from, Cardinality({k \in DOMAIN p : p[k] = u}))
<1>1. PICK p \in FindSpendableUTXOs(t.from, t.amount, utxos, pending) :
         tx = [id |-> id, ins |-> {In(u, p) : u \in ToSet(p)},
               outs |-> TransferOutputs(t, Money(p))]
  BY DEF NewSimpleTransaction
<1>2. IsFiniteSet(utxos)
  BY FS_Subset DEF World, Valued
<1>3. /\ IsSeq(p)
      /\ ToSet(p) \subseteq {u \in utxos \cup UNION {Utxos(ty) : ty \in pending} : u.to = t.from}
  BY <1>2, Chosen DEF TxOK
<1>4. \A u \in ToSet(p) : u \in Outputs(W) /\ u.to = t.from /\ u.value \in Int
  BY <1>3 DEF Outputs, World, Valued
<1> DEFINE D == ToSet(p)
<1>5. tx.id = id /\ tx.ins = {In(u, p) : u \in D} /\ tx.outs = TransferOutputs(t, Money(p))
  BY <1>1
<1>6. \A u \in D : /\ In(u, p) \in tx.ins /\ Spends(In(u, p), u)
                   /\ In(u, p).tx = u.tx /\ In(u, p).index = u.index
                   /\ In(u, p).times = Cardinality({k \in DOMAIN p : p[k] = u})
  <2> SUFFICES ASSUME NEW u \in D
               PROVE  /\ In(u, p) \in tx.ins /\ Spends(In(u, p), u)
                      /\ In(u, p).tx = u.tx /\ In(u, p).index = u.index
                      /\ In(u, p).times = Cardinality({k \in DOMAIN p : p[k] = u})
    OBVIOUS
  <2>1. In(u, p) \in tx.ins
    BY <1>5
  <2>2. u.to = t.from
    BY <1>4
  <2> QED BY <2>1, <2>2 DEF Input, Spends
<1>7. \A a \in tx.ins : \E u \in D : a = In(u, p)
  BY <1>5
<1> HIDE DEF In, D
<1>8. D \subseteq Outputs(old)
  <2> SUFFICES ASSUME NEW u \in D PROVE u \in Outputs(old)
    OBVIOUS
  <2>1. PICK ty \in old : ty.id = u.tx
    BY <1>6
  <2>2. PICK tz \in W : u \in Utxos(tz)
    BY <1>4 DEF Outputs, D
  <2>3. tz = ty
    BY <2>1, <2>2, UtxosHaveId DEF World
  <2> QED BY <2>1, <2>2, <2>3 DEF Outputs
<1>9. ASSUME NEW u \in Outputs(old), NEW a \in tx.ins, Spends(a, u) PROVE u \in D
  <2>1. PICK v \in D : a = In(v, p)
    BY <1>7
  <2>2. u.tx = v.tx /\ u.index = v.index
    BY <1>6, <1>9, <2>1 DEF Spends
  <2>3. PICK ty \in old : u \in Utxos(ty)
    BY DEF Outputs
  <2>4. PICK tz \in old : v \in Utxos(tz)
    BY <1>8 DEF Outputs
  <2>5. ty = tz
    BY <2>2, <2>3, <2>4, UtxosHaveId DEF World
  <2>6. u = v
    BY <2>2, <2>3, <2>4, <2>5 DEF Utxos
  <2> QED BY <2>6
<1>10. \A i, j \in DOMAIN p : p[i] = p[j] => i = j
  <2>1. ASSUME NEW u \in ToSet(p) PROVE ~(Cardinality({k \in DOMAIN p : p[k] = u}) > 1)
    <3>1. In(u, p) \in tx.ins /\ In(u, p).times = Cardinality({k \in DOMAIN p : p[k] = u})
      BY <1>6 DEF D
    <3>2. ~(In(u, p).times > 1)
      BY <3>1 DEF SpentTwice
    <3> QED BY <3>1, <3>2
  <2> QED BY <1>3, <2>1, ListedOnce
<1>11. Money(p) = Total(D) /\ Money(p) \in Int
  BY <1>3, <1>4, <1>10, MoneyOfSet, MoneyType DEF D
<1>12. Valued(Utxos(tx)) /\ Total(Utxos(tx)) = Total(D)
  <2> DEFINE money == Money(p)
  <2>1. money \in Int /\ tx.outs = TransferOutputs(t, money) /\ money = Total(D)
    BY <1>5, <1>11
  <2> HIDE DEF money
  <2> QED BY <1>5, <2>1, TransferWorth
<1>13. Valued(Outputs(old))
  <2>1. Outputs(old) \subseteq Outputs(W)
    BY DEF Outputs
  <2> QED BY <2>1, FS_Subset DEF World, Valued
<1>14. LET all == old \cup {tx}
       IN  Total(Unspent(all, all)) = Total(Unspent(old, old)) - Total(D) + Total(Utxos(tx))
  <2>1. \A ty \in old : ty.id # tx.id /\ \A a \in ty.ins : a.tx # tx.id
    BY <1>5
  <2>2. \A a \in tx.ins : a.tx # tx.id
    BY <1>5
  <2>3. \A u \in Outputs(old) : u \in D <=> \E a \in tx.ins : Spends(a, u)
    BY <1>6, <1>9
  <2> QED BY <1>8, <1>12, <1>13, <2>1, <2>2, <2>3, TxAdded
<1>15. Total(Unspent(old, old)) \in Int
  <2>1. Unspent(old, old) \subseteq Outputs(old)
    BY UnspentIs
  <2>2. Valued(Unspent(old, old))
    BY <1>13, <2>1, FS_Subset DEF Valued
  <2> QED BY <2>2, TotalType
<1> QED BY <1>11, <1>12, <1>14, <1>15

\* A coinbase transaction makes the reward.
LEMMA CoinbaseAdds ==
    ASSUME NEW old, Valued(Outputs(old)), NEW id, NEW to,
           \A ty \in old : ty.id # id /\ \A a \in ty.ins : a.tx # id,
           ~SpentTwice(old \cup {NewCoinbaseTransaction(id, to)})
    PROVE  LET tx == NewCoinbaseTransaction(id, to)
               all == old \cup {tx}
           IN  Valued(Utxos(tx)) /\ Total(Unspent(all, all)) = Total(Unspent(old, old)) + Reward
<1> DEFINE tx == NewCoinbaseTransaction(id, to)
           u == [tx |-> id, index |-> 1, to |-> to, value |-> Reward]
<1>1. tx.id = id /\ tx.ins = {} /\ tx.outs = <<[to |-> to, value |-> Reward]>>
  BY DEF NewCoinbaseTransaction
<1>2. Utxos(tx) = {u}
  <2>1. DOMAIN tx.outs = {1}
    BY <1>1
  <2> QED BY <1>1, <2>1 DEF Utxos
<1>3. u.value = Reward /\ Reward \in Int
  BY ChainAssumption
<1> HIDE DEF u
<1>4. Valued(Utxos(tx)) /\ Total(Utxos(tx)) = Reward
  BY <1>2, <1>3, TotalOfOne, FS_Singleton DEF Valued
<1> HIDE DEF tx
<1>5. LET all == old \cup {tx}
      IN  Total(Unspent(all, all)) = Total(Unspent(old, old)) - Total({}) + Total(Utxos(tx))
  <2> DEFINE D == {}
  <2>1. D \subseteq Outputs(old) /\ \A v \in Outputs(old) : v \in D <=> \E a \in tx.ins : Spends(a, v)
    BY <1>1
  <2>2. ~SpentTwice(old \cup {tx})
    BY DEF tx
  <2> HIDE DEF D
  <2>3. LET all == old \cup {tx}
        IN  Total(Unspent(all, all)) = Total(Unspent(old, old)) - Total(D) + Total(Utxos(tx))
    BY <1>1, <1>4, <2>1, <2>2, TxAdded
  <2> QED BY <2>3 DEF D
<1>6. Total(Unspent(old, old)) \in Int
  <2>1. Unspent(old, old) \subseteq Outputs(old)
    BY UnspentIs
  <2>2. Valued(Unspent(old, old))
    BY <2>1, FS_Subset DEF Valued
  <2> QED BY <2>2, TotalType
<1>7. LET all == old \cup {tx} IN Total(Unspent(all, all)) = Total(Unspent(old, old)) + Reward
  BY <1>3, <1>4, <1>5, <1>6, TotalOfNone
<1> QED BY <1>4, <1>7 DEF tx

\* All inputs of tx name transactions of W.
Within(tx, W) == \A a \in tx.ins : \E ty \in W : a.tx = ty.id

LEMMA TransferRefers ==
    ASSUME NEW W, World(W), NEW id, NEW t, NEW utxos, utxos \subseteq Outputs(W),
           NEW pending, pending \subseteq W, IsFiniteSet(pending), \A ty \in pending : TxOK(ty),
           NEW tx \in NewSimpleTransaction(id, t, utxos, pending)
    PROVE  tx.id = id /\ TxOK(tx) /\ Within(tx, W)
<1>1. IsFiniteSet(utxos)
  BY FS_Subset DEF World, Valued
<1>2. /\ tx.id = id /\ TxOK(tx)
      /\ \A a \in tx.ins : SpendsFrom(a, utxos \cup UNION {Utxos(ty) : ty \in pending})
  BY <1>1, TransferOK
<1>3. ASSUME NEW a \in tx.ins PROVE \E ty \in W : a.tx = ty.id
  <2>1. PICK u \in utxos \cup UNION {Utxos(ty) : ty \in pending} : Spends(a, u)
    BY <1>2 DEF SpendsFrom
  <2>2. u \in Outputs(W)
    BY <2>1 DEF Outputs
  <2>3. PICK ty \in W : u \in Utxos(ty)
    BY <2>2 DEF Outputs
  <2> QED BY <2>1, <2>3, UtxosHaveId DEF Spends
<1> QED BY <1>2, <1>3 DEF Within

\* All transactions have hashes below next, and so have those they spend from.
Below(W, next) ==
    \A tx \in W : tx.id \in Nat /\ tx.id < next /\ \A a \in tx.ins : a.tx \in Nat /\ a.tx < next

LEMMA WorldGrows ==
    ASSUME NEW W, World(W), NEW next \in Nat, Below(W, next), NEW tx, Valued(Utxos(tx)), tx.id = next,
           Within(tx, W)
    PROVE  LET all == W \cup {tx}
           IN  World(all) /\ Below(all, next + 1) /\ \A a \in tx.ins : a.tx \in Nat /\ a.tx < next
<1> DEFINE all == W \cup {tx}
<1>1. Outputs(all) = Outputs(W) \cup Utxos(tx)
  BY DEF Outputs
<1>2. IsFiniteSet(Outputs(all))
  <2>1. IsFiniteSet(Outputs(W)) /\ IsFiniteSet(Utxos(tx))
    BY DEF World, Valued
  <2> HIDE DEF all
  <2> QED BY <1>1, <2>1, FS_Union
<1>3. Valued(Outputs(all))
  BY <1>1, <1>2 DEF World, Valued
<1>4. \A ty \in W : ty.id # tx.id
  BY DEF Below
<1>5. World(all)
  BY <1>3, <1>4 DEF World
<1>6. \A a \in tx.ins : a.tx \in Nat /\ a.tx < next
  BY DEF Below, Within
<1>7. Below(all, next + 1)
  BY <1>6 DEF Below
<1> QED BY <1>5, <1>6, <1>7

LEMMA ValuedPart == ASSUME NEW W, World(W), NEW old, old \subseteq W PROVE Valued(Outputs(old))
<1>1. Outputs(old) \subseteq Outputs(W)
  BY DEF Outputs
<1> QED BY <1>1, FS_Subset DEF World, Valued

\* The transactions of a block refer to each other and to those of the chain.
Anchored(new, old) == \A a \in Ins(new) : \E tx \in new \cup old : tx.id = a.tx

\* Adding them to the chain makes one reward, unless some output is spent twice.
RewardAdded(new, old) ==
    LET all == old \cup new
    IN  /\ \A tx \in new : Valued(Utxos(tx))
        /\ ~SpentTwice(all) => Total(Unspent(all, all)) = Total(Unspent(old, old)) + Reward

\* A block makes one reward.
LEMMA BlockAdds ==
    ASSUME NEW W, World(W), NEW old, old \subseteq W, NEW next \in Nat, Below(W, next),
           NEW transfers \in Transfers, NEW utxos, utxos \subseteq Outputs(W),
           NEW txs \in PackedBlocks(next, transfers, utxos),
           Anchored(ToSet(txs), old)
    PROVE  RewardAdded(ToSet(txs), old)
<1> DEFINE Coin(id) == NewCoinbaseTransaction(id, transfers[1].from)
           all == old \cup ToSet(txs)
           Fine == /\ \A tx \in ToSet(txs) : Valued(Utxos(tx))
                   /\ ~SpentTwice(all)
                         => Total(Unspent(all, all)) = Total(Unspent(old, old)) + Reward
           Made == NewSimpleTransaction(next, transfers[1], utxos, {})
<1>1. /\ IsFiniteSet({}) /\ \A x : IsFiniteSet({x})
      /\ \A k \in 1..Len(transfers) : transfers[k].amount \in Int
  <2>1. transfers \in Seq(ToSet(transfers)) /\ \A k \in DOMAIN transfers : transfers[k].amount \in Int
    BY ChainAssumption
  <2>2. DOMAIN transfers = 1..Len(transfers)
    BY <2>1
  <2>3. IsFiniteSet({}) /\ \A x : IsFiniteSet({x})
    BY FS_EmptySet, FS_Singleton
  <2> QED BY <2>1, <2>2, <2>3
<1>2. ASSUME NEW id, NEW S, \A ty \in S : ty.id # id /\ \A a \in ty.ins : a.tx # id,
             Valued(Outputs(S)), ~SpentTwice(S \cup {Coin(id)})
      PROVE  /\ Valued(Utxos(Coin(id)))
             /\ LET more == S \cup {Coin(id)}
                IN  Total(Unspent(more, more)) = Total(Unspent(S, S)) + Reward
  BY <1>2, CoinbaseAdds
<1>3. ASSUME NEW id PROVE Valued(Utxos(Coin(id))) /\ Coin(id).id = id /\ Coin(id).ins = {}
  <2>1. Coin(id).id = id /\ Coin(id).ins = {}
    BY CoinbaseOK
  <2>2. Outputs({}) = {}
    BY DEF Outputs
  <2>3. Valued(Outputs({}))
    BY <2>2, <1>1 DEF Valued
  <2>4. ~SpentTwice({} \cup {Coin(id)})
    BY <2>1 DEF SpentTwice
  <2>5. Valued(Utxos(Coin(id)))
    <3> DEFINE S == {}
    <3>1. \A ty \in S : ty.id # id /\ \A a \in ty.ins : a.tx # id
      OBVIOUS
    <3>2. Valued(Outputs(S)) /\ ~SpentTwice(S \cup {Coin(id)})
      BY <2>3, <2>4
    <3> HIDE DEF S, Coin
    <3> QED BY <3>1, <3>2, <1>2
  <2> QED BY <2>1, <2>5
<1> HIDE DEF Coin
<1>4. ASSUME NEW tx \in Made, transfers[1].amount \in Int
      PROVE  /\ tx.id = next /\ TxOK(tx) /\ Valued(Utxos(tx))
             /\ World(W \cup {tx}) /\ Below(W \cup {tx}, next + 1)
             /\ \A a \in tx.ins : a.tx \in Nat /\ a.tx < next
  <2> DEFINE pending == {}
  <2>1. /\ pending \subseteq W /\ IsFiniteSet(pending) /\ (\A ty \in pending : TxOK(ty))
        /\ tx \in NewSimpleTransaction(next, transfers[1], utxos, pending)
    BY <1>1
  <2> HIDE DEF pending, Made
  <2>2. Valued(Utxos(tx))
    BY <1>4, <2>1, TransferValued
  <2>3. tx.id = next /\ TxOK(tx) /\ Within(tx, W)
    BY <2>1, TransferRefers
  <2> QED BY <2>2, <2>3, WorldGrows
<1>5. ASSUME NEW tx \in Made, transfers[1].amount \in Int, tx \in ToSet(txs),
             \A ty \in ToSet(txs) : ty.id \in Nat /\ ty.id >= next,
             ~SpentTwice(old \cup {tx})
      PROVE  Total(Unspent(old \cup {tx}, old \cup {tx})) = Total(Unspent(old, old))
  <2> DEFINE pending == {}
  <2>1. /\ pending \subseteq W /\ IsFiniteSet(pending) /\ (\A ty \in pending : TxOK(ty))
        /\ tx \in NewSimpleTransaction(next, transfers[1], utxos, pending)
    BY <1>1
  <2>2. \A a \in tx.ins : \E ty \in old : ty.id = a.tx
    <3> SUFFICES ASSUME NEW a \in tx.ins PROVE \E ty \in old : ty.id = a.tx
      OBVIOUS
    <3>1. a \in Ins(ToSet(txs)) /\ a.tx \in Nat /\ a.tx < next
      BY <1>4, <1>5 DEF Ins
    <3>2. ~\E ty \in ToSet(txs) : ty.id = a.tx
      BY <3>1, <1>5
    <3> QED BY <3>1, <3>2 DEF Anchored
  <2>3. \A ty \in old : ty.id # next /\ \A a \in ty.ins : a.tx # next
    BY DEF Below
  <2> HIDE DEF pending, Made
  <2> QED BY <1>5, <2>1, <2>2, <2>3, TransferAdds
<1>6. ASSUME NEW tx \in Made, txs = <<tx, Coin(next + 1)>>, Len(transfers) = 1
      PROVE  Fine
  <2>1. ToSet(txs) = {tx, Coin(next + 1)}
    BY <1>6 DEF ToSet
  <2>2. transfers[1].amount \in Int
    BY <1>1, <1>6
  <2>3. /\ tx.id = next /\ Valued(Utxos(tx))
        /\ World(W \cup {tx}) /\ Below(W \cup {tx}, next + 1)
    BY <1>4, <2>2
  <2> HIDE DEF Made
  <2> DEFINE S == old \cup {tx}
  <2>4. all = S \cup {Coin(next + 1)}
    BY <2>1
  <2>5. ASSUME ~SpentTwice(all)
        PROVE  Total(Unspent(all, all)) = Total(Unspent(old, old)) + Reward
    <3>1. ~SpentTwice(S)
      BY <2>4, <2>5, SpentTwiceGrows
    <3>2. \A ty \in ToSet(txs) : ty.id \in Nat /\ ty.id >= next
      BY <1>3, <2>1, <2>3
    <3>3. Total(Unspent(S, S)) = Total(Unspent(old, old))
      BY <1>5, <2>1, <2>2, <3>1, <3>2
    <3>4. \A ty \in S : ty.id # next + 1 /\ \A a \in ty.ins : a.tx # next + 1
      BY <2>3 DEF Below
    <3>5. Valued(Outputs(S))
      BY <2>3, ValuedPart
    <3> HIDE DEF S, all
    <3>6. Total(Unspent(all, all)) = Total(Unspent(S, S)) + Reward
      BY <1>2, <2>4, <2>5, <3>4, <3>5
    <3> QED BY <3>3, <3>6
  <2> QED BY <1>3, <2>1, <2>3, <2>5
<1>7. ASSUME NEW tx \in Made, NEW ty \in NewSimpleTransaction(next + 1, transfers[2], utxos, {tx}),
             txs = <<tx, ty, Coin(next + 2)>>, Len(transfers) = 2
      PROVE  Fine
  <2>1. ToSet(txs) = {tx, ty, Coin(next + 2)}
    BY <1>7 DEF ToSet
  <2>2. transfers[1].amount \in Int /\ transfers[2].amount \in Int
    BY <1>1, <1>7
  <2> DEFINE S == old \cup {tx}
             V == W \cup {tx}
             X == S \cup {ty}
             pending == {tx}
  <2>3. /\ tx.id = next /\ Valued(Utxos(tx)) /\ TxOK(tx) /\ World(V) /\ Below(V, next + 1)
        /\ \A a \in tx.ins : a.tx \in Nat /\ a.tx < next
    BY <1>4, <2>2
  <2> HIDE DEF Made
  <2>4. /\ pending \subseteq V /\ IsFiniteSet(pending) /\ (\A tz \in pending : TxOK(tz))
        /\ ty \in NewSimpleTransaction(next + 1, transfers[2], utxos, pending)
        /\ utxos \subseteq Outputs(V)
    BY <1>1, <1>7, <2>3 DEF Outputs
  <2> HIDE DEF pending
  <2>5. Valued(Utxos(ty)) /\ ty.id = next + 1 /\ Within(ty, V)
    <3> HIDE DEF V
    <3> QED BY <2>2, <2>3, <2>4, TransferValued, TransferRefers
  <2>6. /\ World(V \cup {ty}) /\ Below(V \cup {ty}, next + 2)
        /\ \A a \in ty.ins : a.tx \in Nat /\ a.tx < next + 1
    <3> HIDE DEF V
    <3>1. next + 1 \in Nat /\ (next + 1) + 1 = next + 2
      OBVIOUS
    <3> QED BY <2>3, <2>5, <3>1, WorldGrows
  <2>7. all = X \cup {Coin(next + 2)}
    BY <2>1
  <2>8. ASSUME ~SpentTwice(all)
        PROVE  Total(Unspent(all, all)) = Total(Unspent(old, old)) + Reward
    <3>1. ~SpentTwice(X) /\ ~SpentTwice(S)
      BY <2>7, <2>8, SpentTwiceGrows
    <3>2. \A tz \in ToSet(txs) : tz.id \in Nat /\ tz.id >= next
      BY <1>3, <2>1, <2>3, <2>5
    <3>3. Total(Unspent(S, S)) = Total(Unspent(old, old))
      BY <1>5, <2>1, <2>2, <3>1, <3>2
    <3>4. \A a \in ty.ins : \E tz \in S : tz.id = a.tx
      <4> SUFFICES ASSUME NEW a \in ty.ins PROVE \E tz \in S : tz.id = a.tx
        OBVIOUS
      <4>1. CASE a.tx = next
        BY <4>1, <2>3
      <4>2. CASE a.tx # next
        <5>1. a \in Ins(ToSet(txs)) /\ a.tx \in Nat /\ a.tx < next
          BY <4>2, <2>1, <2>6 DEF Ins
        <5>2. ~\E tz \in ToSet(txs) : tz.id = a.tx
          BY <5>1, <3>2
        <5> QED BY <5>1, <5>2 DEF Anchored
      <4> QED BY <4>1, <4>2
    <3>5. S \subseteq V /\ \A tz \in S : tz.id # next + 1 /\ \A a \in tz.ins : a.tx # next + 1
      BY <2>3 DEF Below
    <3>6. Total(Unspent(X, X)) = Total(Unspent(S, S))
      <4> HIDE DEF S, V
      <4> QED BY <2>2, <2>3, <2>4, <3>1, <3>4, <3>5, TransferAdds
    <3>7. \A tz \in X : tz.id # next + 2 /\ \A a \in tz.ins : a.tx # next + 2
      BY <2>6 DEF Below
    <3>8. Valued(Outputs(X))
      <4>1. X \subseteq V \cup {ty}
        OBVIOUS
      <4> HIDE DEF X, V
      <4> QED BY <4>1, <2>6, ValuedPart
    <3> HIDE DEF S, X, all
    <3>9. Total(Unspent(all, all)) = Total(Unspent(X, X)) + Reward
      BY <1>2, <2>7, <2>8, <3>7, <3>8
    <3> QED BY <3>3, <3>6, <3>9
  <2> QED BY <1>3, <2>1, <2>3, <2>5, <2>8
<1>8. \/ Len(transfers) = 1 /\ \E tx \in Made : txs = <<tx, Coin(next + 1)>>
      \/ /\ Len(transfers) = 2
         /\ \E tx \in Made : \E ty \in NewSimpleTransaction(next + 1, transfers[2], utxos, {tx}) :
               txs = <<tx, ty, Coin(next + 2)>>
  <2>1. CASE \E tx \in IF Len(transfers) = 1 THEN Made ELSE {} : txs = <<tx, Coin(next + 1)>>
    BY <2>1
  <2>2. CASE \E tx \in IF Len(transfers) = 2 THEN Made ELSE {} :
                \E ty \in NewSimpleTransaction(next + 1, transfers[2], utxos, {tx}) :
                   txs = <<tx, ty, Coin(next + 2)>>
    BY <2>2
  <2> QED BY <2>1, <2>2 DEF PackedBlocks, Coin
<1> QED BY <1>6, <1>7, <1>8 DEF RewardAdded

Conserved(chain, t) ==
    SpentTwice(TxsOn(chain, t)) \/ Total(ChainTable(chain, t)) = Reward * Len(Back(chain, t))

MoneyOK == Valued(Outputs(AllTxs(mined))) /\ \A t \in 0..Len(mined) : Conserved(mined, t)

LEMMA MineConserved ==
    ASSUME IInv, MoneyOK, NEW n \in Node, NEW transfers \in Transfers, MineNewBlock(n, transfers)
    PROVE  MoneyOK'
<1> DEFINE N == Len(mined)
           t == tip[n]
           W == AllTxs(mined)
           old == TxsOn(mined, t)
           Block(txs) == [height |-> GetBestHeight(t) + 1, prev |-> t, txs |-> txs]
<1>1. /\ Linked(mined) /\ N \in Nat /\ DOMAIN mined = 1..N /\ t \in 0..N
      /\ \A h \in DOMAIN mined : BlockOK(mined, h)
      /\ table[n] \subseteq Outputs(W)
  BY DEF IInv, TypeOK, LedgerOK, Linked, IsSeq
<1>2. PICK txs \in PackedBlocks(NextTx, transfers, table[n]) :
         /\ \A in \in Ins(ToSet(txs)) : \/ \E tx \in ToSet(txs) : tx.id = in.tx
                                        \/ FindTransaction(in.tx, t, stored[n])
         /\ mined' = Append(mined, Block(txs))
  BY DEF MineNewBlock
<1> DEFINE b == Block(txs)
           new == ToSet(txs)
<1>3. b.prev = t /\ b.txs = txs /\ txs \in PackedBlocks(3 * N + 1, transfers, table[n])
  BY DEF NextTx
<1>4. mined' = Append(mined, b)
  BY <1>2
<1> HIDE DEF b, Block
<1>5. /\ Linked(mined') /\ Len(mined') = N + 1 /\ DOMAIN mined' = 1..N \cup {N + 1}
      /\ mined'[N + 1] = b
      /\ \A k \in 0..N : Back(mined', k) = Back(mined, k) /\ TxsOn(mined', k) = TxsOn(mined, k)
      /\ TxsOn(mined', N + 1) = old \cup new
  <2> DEFINE more == Append(mined, b)
  <2>1. /\ Linked(more) /\ \A k \in 0..N : Back(more, k) = Back(mined, k)
    BY <1>1, <1>3, BackExtended
  <2>2. /\ \A k \in 0..N : TxsOn(more, k) = TxsOn(mined, k)
        /\ TxsOn(more, N + 1) = old \cup new
    BY <1>1, <1>3, TxsExtended
  <2>3. Len(more) = N + 1 /\ DOMAIN more = 1..N \cup {N + 1} /\ more[N + 1] = b
    BY <1>1, AppendSet DEF Linked
  <2>4. mined' = more
    BY <1>4
  <2> HIDE DEF more, old, new
  <2> QED BY <2>1, <2>2, <2>3, <2>4
<1>6. /\ \A h \in DOMAIN mined' : BlockOK(mined', h)
      /\ AllTxs(mined') = W \cup new
  BY <1>1, <1>3, <1>4, LedgerExtended
<1>7. old \subseteq W
  <2>1. ToSet(Back(mined, t)) \subseteq 1..t
    BY <1>1, BackWalks
  <2> QED BY <1>1, <2>1 DEF TxsOn, AllTxs
<1>8. World(W)
  BY <1>1, OneOutput DEF MoneyOK, World
<1>9. 3 * N + 1 \in Nat /\ Below(W, 3 * N + 1)
  <2>1. 3 * N + 1 \in Nat /\ 3 * N + 1 > 3 * N
    BY <1>1
  <2> QED BY <1>1, <2>1, FreshIds DEF Below
<1>10. Anchored(new, old)
  <2> SUFFICES ASSUME NEW in \in Ins(new), FindTransaction(in.tx, t, stored[n])
               PROVE  \E tx \in old : tx.id = in.tx
    BY <1>2 DEF Anchored
  <2>1. PICK k \in DOMAIN Back(mined, t) : \E tx \in ToSet(mined[Back(mined, t)[k]].txs) : tx.id = in.tx
    BY WalkIsBack DEF FindTransaction
  <2>2. Back(mined, t)[k] \in ToSet(Back(mined, t))
    BY <2>1 DEF ToSet
  <2> QED BY <2>1, <2>2 DEF TxsOn
<1>11. RewardAdded(new, old)
  <2> DEFINE next == 3 * N + 1
  <2>1. next \in Nat /\ Below(W, next) /\ txs \in PackedBlocks(next, transfers, table[n])
    BY <1>3, <1>9
  <2>2. World(W) /\ old \subseteq W /\ table[n] \subseteq Outputs(W) /\ Anchored(ToSet(txs), old)
    BY <1>1, <1>7, <1>8, <1>10
  <2> HIDE DEF next, W, old
  <2> QED BY <2>1, <2>2, BlockAdds
<1>12. Valued(Outputs(AllTxs(mined')))
  <2>1. IsFiniteSet(Outputs(AllTxs(mined')))
    BY <1>5, <1>6, FiniteOutputs
  <2>2. Outputs(AllTxs(mined')) = Outputs(W) \cup Outputs(new)
    BY <1>6 DEF Outputs
  <2>3. \A u \in Outputs(new) : u.value \in Int
    BY <1>11 DEF RewardAdded, Outputs, Valued
  <2>4. \A u \in Outputs(W) : u.value \in Int
    BY <1>8 DEF World, Valued
  <2> HIDE DEF W, new
  <2> QED BY <2>1, <2>2, <2>3, <2>4 DEF Valued
<1>13. ASSUME NEW k \in 0..N PROVE Conserved(mined', k)
  <2>1. k \in 0..Len(mined')
    BY <1>1, <1>5
  <2>2. ChainTable(mined', k) = ChainTable(mined, k)
    BY <2>1, <1>1, <1>5, ChainTableIs
  <2> QED BY <2>2, <1>5 DEF MoneyOK, Conserved
<1>14. Conserved(mined', N + 1)
  <2> SUFFICES ASSUME ~SpentTwice(old \cup new)
               PROVE  Total(ChainTable(mined', N + 1)) = Reward * Len(Back(mined', N + 1))
    BY <1>5 DEF Conserved
  <2>1. ChainTable(mined', N + 1) = Unspent(old \cup new, old \cup new)
    <3>1. N + 1 \in 0..Len(mined')
      BY <1>1, <1>5
    <3> QED BY <3>1, <1>5, ChainTableIs
  <2>2. Total(Unspent(old, old)) = Reward * Len(Back(mined, t))
    <3>1. ~SpentTwice(old)
      BY SpentTwiceGrows
    <3>2. ChainTable(mined, t) = Unspent(old, old)
      BY <1>1, ChainTableIs
    <3> QED BY <3>1, <3>2, <1>1 DEF MoneyOK, Conserved
  <2>3. Len(Back(mined', N + 1)) = Len(Back(mined, t)) + 1 /\ Len(Back(mined, t)) \in Nat
    <3>1. Back(mined', N + 1) = <<N + 1>> \o Back(mined', t)
      <4>1. N + 1 \in DOMAIN mined' /\ mined'[N + 1].prev = t
        BY <1>3, <1>5
      <4> QED BY <4>1, <1>5, BackStep
    <3>2. Back(mined', t) = Back(mined, t) /\ IsSeq(Back(mined, t))
      BY <1>1, <1>5, BackWalks
    <3>3. ASSUME NEW s, IsSeq(s), NEW x PROVE Len(<<x>> \o s) = Len(s) + 1 /\ Len(s) \in Nat
      <4> DEFINE U == ToSet(s) \cup {x}
      <4>1. s \in Seq(U) /\ <<x>> \in Seq(U) /\ Len(<<x>>) = 1
        BY <3>3 DEF IsSeq
      <4> HIDE DEF U
      <4> QED BY <4>1
    <3> QED BY <3>1, <3>2, <3>3
  <2> DEFINE L == Len(Back(mined, t))
  <2>4. Reward * (L + 1) = Reward * L + Reward
    <3>1. L \in Int /\ Reward \in Int
      BY <2>3, ChainAssumption
    <3> HIDE DEF L
    <3> QED BY <3>1
  <2>5. Total(Unspent(old \cup new, old \cup new)) = Total(Unspent(old, old)) + Reward
    BY <1>11 DEF RewardAdded
  <2> HIDE DEF old, new
  <2> QED BY <2>1, <2>2, <2>3, <2>4, <2>5
<1>15. \A k \in 0..Len(mined') : Conserved(mined', k)
  <2>1. 0..N + 1 = 0..N \cup {N + 1}
    BY <1>1
  <2> QED BY <2>1, <1>5, <1>13, <1>14
<1> QED BY <1>12, <1>15 DEF MoneyOK

LEMMA InitMoney == Init => MoneyOK
<1> SUFFICES ASSUME Init PROVE MoneyOK
  OBVIOUS
<1> DEFINE to == CHOOSE a \in Wallets[Main] : TRUE
           coin == NewCoinbaseTransaction(1, to)
           genesis == <<coin>>
           b == [height |-> 1, prev |-> 0, txs |-> genesis]
           none == {}
<1>1. coin.ins = {}
  BY CoinbaseOK
<1>2. mined = <<b>> /\ b.txs = genesis /\ b.prev = 0
  BY DEF Init
<1>3. ToSet(genesis) = {coin}
  BY SingleSet
<1>4. /\ Valued(Utxos(coin))
      /\ Total(Unspent(none \cup {coin}, none \cup {coin})) = Total(Unspent(none, none)) + Reward
  <2>1. \A ty \in none : ty.id # 1 /\ \A a \in ty.ins : a.tx # 1
    OBVIOUS
  <2>2. Outputs(none) = {}
    BY DEF Outputs
  <2>3. Valued(Outputs(none))
    BY <2>2, FS_EmptySet DEF Valued
  <2>4. ~SpentTwice(none \cup {coin})
    BY <1>1 DEF SpentTwice
  <2> HIDE DEF none, to
  <2> QED BY <2>1, <2>3, <2>4, CoinbaseAdds
<1>5. Total(Unspent({}, {})) = 0 /\ Reward \in Int
  <2>1. Unspent({}, {}) = {}
    BY DEF Unspent
  <2> QED BY <2>1, TotalOfNone, ChainAssumption
<1>6. Total(Unspent({coin}, {coin})) = Reward
  <2>1. none \cup {coin} = {coin}
    OBVIOUS
  <2> HIDE DEF coin
  <2> QED BY <2>1, <1>4, <1>5
<1> HIDE DEF coin
<1> HIDE DEF b, genesis
<1>7. DOMAIN mined = {1} /\ mined[1] = b /\ Len(mined) = 1
  BY <1>2
<1>8. Linked(mined)
  BY InitIInv DEF IInv, TypeOK
<1>9. Back(mined, 0) = <<>> /\ Back(mined, 1) = <<1>>
  <2>1. Back(mined, 1) = <<1>> \o Back(mined, 0) /\ Back(mined, 0) = <<>>
    BY <1>2, <1>7, <1>8, BackStep
  <2> QED BY <2>1
<1>10. TxsOn(mined, 0) = {} /\ TxsOn(mined, 1) = {coin}
  <2>1. ToSet(Back(mined, 0)) = {} /\ ToSet(Back(mined, 1)) = {1}
    BY <1>8, <1>9, BackWalks, SingleSet
  <2> QED BY <2>1, <1>2, <1>3, <1>7 DEF TxsOn
<1>11. ChainTable(mined, 0) = Unspent({}, {}) /\ ChainTable(mined, 1) = Unspent({coin}, {coin})
  <2>1. 0 \in 0..Len(mined) /\ 1 \in 0..Len(mined)
    BY <1>7
  <2> QED BY <2>1, <1>8, <1>10, ChainTableIs
<1>12. \A k \in 0..Len(mined) : Conserved(mined, k)
  <2>1. Len(Back(mined, 0)) = 0 /\ Len(Back(mined, 1)) = 1
    BY <1>9
  <2>2. Reward * 0 = 0 /\ Reward * 1 = Reward
    BY <1>5
  <2>3. Conserved(mined, 0) /\ Conserved(mined, 1)
    BY <1>5, <1>6, <1>11, <2>1, <2>2 DEF Conserved
  <2>4. 0..Len(mined) = {0, 1}
    BY <1>7
  <2> QED BY <2>3, <2>4
<1>13. AllTxs(mined) = {coin}
  BY <1>2, <1>3, <1>7 DEF AllTxs
<1>14. Valued(Outputs(AllTxs(mined)))
  <2>1. Outputs({coin}) = Utxos(coin)
    BY DEF Outputs
  <2> QED BY <2>1, <1>4, <1>13
<1> QED BY <1>12, <1>14 DEF MoneyOK

LEMMA MoneySame == ASSUME MoneyOK, mined' = mined PROVE MoneyOK'
BY DEF MoneyOK

LEMMA MoneyMeansConserved ==
    ASSUME IInv, MoneyOK
    PROVE  ConservedUnlessSpentTwice
<1> SUFFICES ASSUME NEW n \in Node
             PROVE  LET blocks == TxsOf(Walk(tip[n]))
                    IN  SpentTwice(Txs(blocks)) \/ Total(FindUTXOMap(blocks)) = Reward * Len(blocks)
  BY DEF ConservedUnlessSpentTwice
<1> DEFINE t == tip[n]
           walk == Back(mined, t)
           blocks == [k \in DOMAIN walk |-> mined[walk[k]].txs]
<1>1. Linked(mined) /\ t \in 0..Len(mined)
  BY DEF IInv, TypeOK
<1>2. TxsOf(Walk(t)) = blocks
  BY WalkIsBack DEF TxsOf
<1>3. Txs(blocks) = TxsOn(mined, t) /\ FindUTXOMap(blocks) = ChainTable(mined, t)
  BY <1>1, WalkTxs DEF ChainTable
<1>4. Len(blocks) = Len(walk)
  <2>1. Len(walk) \in Nat /\ DOMAIN walk = 1..Len(walk)
    BY <1>1, BackWalks DEF IsSeq
  <2> HIDE DEF walk
  <2> QED BY <2>1
<1>5. Conserved(mined, t)
  BY <1>1 DEF MoneyOK
<1> HIDE DEF blocks
<1> QED BY <1>2, <1>3, <1>4, <1>5 DEF Conserved

(* The unspent outputs of a complete chain are worth one reward per block,
   unless some output was spent twice: what a transfer pays and what it gives
   back are worth what it takes (NewSimpleTransaction, Transaction.go:71-105). *)
THEOREM MoneyIsConserved == Spec => []ConservedUnlessSpentTwice
<1>1. IInv /\ MoneyOK /\ [Next]_vars => MoneyOK'
  BY OnlyMining, MineConserved, MoneySame
<1>2. Spec => []MoneyOK
  BY <1>1, InitMoney, InvariantHolds, PTL DEF Spec
<1> QED BY <1>2, InvariantHolds, MoneyMeansConserved, PTL
=============================================================================
