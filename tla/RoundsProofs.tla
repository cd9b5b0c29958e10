---------------------------- MODULE RoundsProofs ----------------------------
(* Theorems about the rounds of an epoch. *)
EXTENDS Rounds, CommitteeProofs, WellFoundedInduction

(***************************************************************************)
(* Any non-empty set of naturals has a least element.  It stands in for    *)
(* induction on rounds; 0 .. k for its elements k are finite sets ordered  *)
(* by inclusion.                                                           *)
(***************************************************************************)
LEMMA LeastElement ==
    ASSUME NEW K \in SUBSET Nat, K # {}
    PROVE  \E m \in K : \A k \in K : m <= k
<1>1. PICK n \in K : TRUE
  OBVIOUS
<1> DEFINE S == 0 .. n
           T == {0 .. k : k \in K \cap S}
           R == StrictSubsetOrdering(S)
<1>2. IsFiniteSet(S)
  BY FS_Interval
<1>3. IsWellFoundedOn(R, FiniteSubsetsOf(S))
  BY FS_StrictSubsetOrderingWellFounded
<1>4. T \subseteq FiniteSubsetsOf(S)
  <2>1. ASSUME NEW k \in K \cap S PROVE 0 .. k \in FiniteSubsetsOf(S)
    BY <1>2, FS_Interval DEF FiniteSubsetsOf
  <2>2. QED
    BY <2>1
<1>5. T # {}
  OBVIOUS
<1>6. PICK x \in T : \A y \in T : ~(<<y, x>> \in R)
  <2> HIDE DEF T, R, S
  <2>1. QED
    BY <1>3, <1>4, <1>5, WFMin
<1>7. PICK m \in K \cap S : x = 0 .. m
  OBVIOUS
<1>8. ASSUME NEW k \in K, k < m PROVE FALSE
  <2>1. k \in S /\ 0 .. k \in T
    BY <1>8
  <2>2. 0 .. k \subseteq 0 .. m /\ 0 .. k # 0 .. m
    BY <1>8
  <2>3. <<0 .. k, 0 .. m>> \in R
    BY <2>1, <2>2, <1>8 DEF StrictSubsetOrdering
  <2>4. QED
    BY <1>6, <1>7, <2>1, <2>3
<1>9. QED
  BY <1>8

(***************************************************************************)
(* A committee of 3f + 1 nodes, the only size for which two sets of        *)
(* HightThreshold nodes are sure to meet.                                  *)
(***************************************************************************)
FullCommittee == (Size - 1) % 3 = 0

LEMMA QuorumsMeet ==
    ASSUME FullCommittee, NEW A \in SUBSET Live, NEW B \in SUBSET Live,
           Quorum(A), Quorum(B)
    PROVE  A \cap B # {}
<1>1. Cardinality(A \cap B) >= LowThreshold
  BY QuorumsIntersect DEF FullCommittee, Quorum, Live
<1>2. Cardinality({}) = 0
  BY FS_EmptySet
<1>3. QED
  BY <1>1, <1>2, ThresholdTypes

LEMMA QuorumNonEmpty ==
    ASSUME NEW A, Quorum(A)
    PROVE  A # {}
BY ThresholdTypes, FS_EmptySet DEF Quorum

(***************************************************************************)
(* A set of live nodes that contains a quorum is one.                      *)
(***************************************************************************)
LEMMA QuorumGrows ==
    ASSUME NEW A, NEW B \in SUBSET Live, A \subseteq B, Quorum(A)
    PROVE  Quorum(B)
<1>1. Cardinality(A) <= Cardinality(B) /\ Cardinality(A) \in Nat /\ Cardinality(B) \in Nat
  BY NodeSubsets DEF Live
<1>2. QED
  BY <1>1, ThresholdTypes DEF Quorum

-----------------------------------------------------------------------------
(* Type correctness. *)

LEMMA RoundTypes ==
    /\ Round \subseteq Nat
    /\ 0 \in Round
    /\ \A r \in Round : r < MaxRound => r + 1 \in Round
    /\ \A i \in Live, r \in Round : Fresh(i, r) \in Block
BY RoundsAssumption DEF Round, Block, Fresh

\* Writing one entry of a table of all rounds and nodes.
LEMMA TableUpdate ==
    ASSUME NEW T, NEW f \in [Round -> [Live -> T]], NEW r \in Round, NEW i \in Live,
           NEW v \in T
    PROVE  /\ [f EXCEPT ![r][i] = v] \in [Round -> [Live -> T]]
           /\ \A s \in Round, j \in Live :
                 [f EXCEPT ![r][i] = v][s][j] = IF s = r /\ j = i THEN v ELSE f[s][j]
OBVIOUS

\* Adding one element to an entry of such a table.
LEMMA TableAdd ==
    ASSUME NEW T, NEW f \in [Round -> [Live -> SUBSET T]], NEW r \in Round, NEW i \in Live,
           NEW b \in T
    PROVE  [f EXCEPT ![r][i] = @ \cup {b}] \in [Round -> [Live -> SUBSET T]]
<1>1. f[r][i] \cup {b} \in SUBSET T
  OBVIOUS
<1>2. QED
  BY <1>1, TableUpdate

\* The blocks a node may adopt, keep or newly propose for the next round.
LEMMA AdvanceType ==
    ASSUME TypeOK, NEW i \in Live, NEW r \in Round, NEW b,
           r < MaxRound => b \in Block,
           Advance(i, r, b)
    PROVE  props' \in [Round -> [Live -> SUBSET Block]]
BY RoundTypes DEF TypeOK, Advance

LEMMA OwnBlocksType ==
    ASSUME TypeOK, NEW i \in Live, NEW r \in Round, NEW b \in OwnBlocks(i, r)
    PROVE  b \in Block \/ b = Fresh(i, r + 1)
BY DEF TypeOK, OwnBlocks

LEMMA FreshType ==
    ASSUME NEW i \in Live, NEW r \in Round, r < MaxRound
    PROVE  Fresh(i, r + 1) \in Block
BY RoundTypes

LEMMA HearType ==
    ASSUME TypeOK, NEW i \in Live, NEW r \in Round, NEW S, HearFinVotes(i, r, S)
    PROVE  /\ heard' \in [Round -> [Live -> SUBSET Live]]
           /\ heard[r][i] \cup S \subseteq Live
<1>1. S \subseteq Live
  BY DEF HearFinVotes, Deliveries
<1>2. QED
  BY <1>1 DEF HearFinVotes, TypeOK

LEMMA LeaderPropsType ==
    ASSUME TypeOK, NEW r \in Round
    PROVE  LeaderProps(r) \subseteq Block
BY DEF TypeOK, LeaderProps

(***************************************************************************)
(* Every state has the types of its declarations.                          *)
(***************************************************************************)
THEOREM TypeCorrect == Spec => []TypeOK
<1>1. Init => TypeOK
  BY DEF Init, TypeOK
<1>2. TypeOK /\ [Next]_vars => TypeOK'
  <2> SUFFICES ASSUME TypeOK, [Next]_vars PROVE TypeOK'
    OBVIOUS
  <2>1. ASSUME NEW i \in Live, TrytoStartMVBA(i) PROVE TypeOK'
    BY <2>1, RoundTypes DEF TypeOK, TrytoStartMVBA, voteVars, endVars
  <2>2. ASSUME NEW i \in Live, NEW r \in Round, NEW b \in Block, HandleSpbProposal(i, r, b)
        PROVE  TypeOK'
    <3>1. arrived' \in [Round -> [Live -> SUBSET Block]]
      <4>1. arrived \in [Round -> [Live -> SUBSET Block]]
        BY DEF TypeOK
      <4>2. arrived' = [arrived EXCEPT ![r][i] = @ \cup {b}]
        BY <2>2 DEF HandleSpbProposal
      <4>3. QED
        BY <4>1, <4>2, TableAdd
    <3>2. blockHash' \in [Round -> [Live -> Block \cup {None}]]
      BY <2>2 DEF TypeOK, HandleSpbProposal
    <3>3. QED
      BY <2>2, <3>1, <3>2 DEF TypeOK, HandleSpbProposal, voteVars, endVars
  <2>3. ASSUME NEW i \in Live, NEW r \in Round, Lock(i, r) PROVE TypeOK'
    <3>1. locked' \in [Round -> SUBSET Live]
      BY <2>3 DEF TypeOK, Lock
    <3>2. QED
      BY <2>3, <3>1 DEF TypeOK, Lock, voteVars, endVars
  <2>4. ASSUME NEW r \in Round, SendFinish(r) PROVE TypeOK'
    BY <2>4 DEF TypeOK, SendFinish, voteVars, endVars
  <2>5. ASSUME NEW r \in Round, Elect(r) PROVE TypeOK'
    BY <2>5 DEF TypeOK, Elect, spbVars, voteVars, endVars
  <2>6. ASSUME NEW i \in Live, NEW r \in Round, HaltOnFinish(i, r) PROVE TypeOK'
    BY <2>6 DEF TypeOK, HaltOnFinish, spbVars, endVars
  <2>7. ASSUME NEW i \in Live, NEW r \in Round, SendPrevote(i, r) PROVE TypeOK'
    BY <2>7 DEF TypeOK, SendPrevote, spbVars, endVars
  <2>8. ASSUME NEW i \in Live, NEW r \in Round, NEW v \in Block \cup {No}, SendFinVote(i, r, v)
        PROVE  TypeOK'
    BY <2>8 DEF TypeOK, SendFinVote, spbVars, endVars
  <2>9. ASSUME NEW i \in Live, NEW r \in Round, NEW S, FinVoteCommit(i, r, S)
        PROVE  TypeOK'
    <3>1. heard' \in [Round -> [Live -> SUBSET Live]]
      BY <2>9, HearType DEF FinVoteCommit
    <3>2. halts' \in [Round -> [Live -> SUBSET Block]]
      <4>1. PICK b \in Block : halts' = [halts EXCEPT ![r][i] = @ \cup {b}]
        BY <2>9, Zenon DEF FinVoteCommit
      <4>2. halts \in [Round -> [Live -> SUBSET Block]]
        BY DEF TypeOK
      <4>3. QED
        BY <4>1, <4>2, TableAdd
    <3>3. QED
      BY <2>9, <3>1, <3>2 DEF TypeOK, FinVoteCommit, spbVars, endVars
  <2>10. ASSUME NEW i \in Live, NEW r \in Round, NEW S, FinVoteNo(i, r, S)
         PROVE  TypeOK'
    <3>1. heard' \in [Round -> [Live -> SUBSET Live]]
      BY <2>10, HearType DEF FinVoteNo
    <3>2. PICK b \in OwnBlocks(i, r) : Advance(i, r, b)
      BY <2>10 DEF FinVoteNo
    <3>3. props' \in [Round -> [Live -> SUBSET Block]]
      BY <3>2, AdvanceType, OwnBlocksType, FreshType
    <3>4. QED
      BY <2>10, <3>1, <3>3 DEF TypeOK, FinVoteNo, endVars
  <2>11. ASSUME NEW i \in Live, NEW r \in Round, NEW S, FinVoteYes(i, r, S)
         PROVE  TypeOK'
    <3>1. heard' \in [Round -> [Live -> SUBSET Live]]
      BY <2>11, HearType DEF FinVoteYes
    <3>2. \/ \E b \in Block : Advance(i, r, b)
          \/ Advance(i, r, Fresh(i, r + 1))
      BY <2>11 DEF FinVoteYes
    <3>3. props' \in [Round -> [Live -> SUBSET Block]]
      BY <3>2, AdvanceType, FreshType
    <3>4. QED
      BY <2>11, <3>1, <3>3 DEF TypeOK, FinVoteYes, endVars
  <2>12. ASSUME NEW i \in Live, NEW r \in Round, NEW S, FinVoteNone(i, r, S)
         PROVE  TypeOK'
    <3>1. heard' \in [Round -> [Live -> SUBSET Live]]
      BY <2>12, HearType DEF FinVoteNone
    <3>2. QED
      BY <2>12, <3>1 DEF TypeOK, FinVoteNone, spbVars, endVars
  <2>13. ASSUME NEW i \in Live, NEW r \in Round, NEW b \in Block, HandleHalt(i, r, b)
         PROVE  TypeOK'
    <3>1. output' \in [Live -> [round : Round, block : Block, leaders : SUBSET Round] \cup {None}]
      BY <2>13 DEF TypeOK, HandleHalt
    <3>2. committed' \in [Live -> SUBSET Block]
      <4>1. committed \in [Live -> SUBSET Block]
        BY DEF TypeOK
      <4>2. \/ committed' = committed
            \/ committed' = [committed EXCEPT ![i] = committed[i] \cup {b}]
        BY <2>13 DEF HandleHalt
      <4>3. committed[i] \cup {b} \in SUBSET Block
        BY <4>1
      <4>4. QED
        BY <4>1, <4>2, <4>3
    <3>3. QED
      BY <2>13, <3>1, <3>2 DEF TypeOK, HandleHalt, spbVars, voteVars
  <2>14. ASSUME NEW i \in Live, NEW r \in Round, NEW b \in Block, HandleLateProposal(i, r, b)
         PROVE  TypeOK'
    <3>1. arrived \in [Round -> [Live -> SUBSET Block]]
      BY DEF TypeOK
    <3>2. arrived' = [arrived EXCEPT ![r][i] = @ \cup {b}]
      BY <2>14 DEF HandleLateProposal
    <3>3. arrived' \in [Round -> [Live -> SUBSET Block]]
      BY <3>1, <3>2, TableAdd
    <3>4. QED
      BY <2>14, <3>3 DEF TypeOK, HandleLateProposal, voteVars
  <2>15. ASSUME UNCHANGED vars PROVE TypeOK'
    BY <2>15 DEF TypeOK, vars, spbVars, voteVars, endVars
  <2>16. QED
    BY <2>1, <2>2, <2>3, <2>4, <2>5, <2>6, <2>7, <2>8, <2>9, <2>10, <2>11, <2>12,
       <2>13, <2>14, <2>15 DEF Next, HandleFinvote
<1>3. QED
  BY <1>1, <1>2, PTL DEF Spec

-----------------------------------------------------------------------------
(***************************************************************************)
(* The inductive invariant.  Everything that is voted for or halted on in  *)
(* a round is a block of its leader ...                                    *)
(***************************************************************************)
VotesFromLeader ==
    \A r \in Round, i \in Live :
        /\ blockHash[r][i] \in LeaderProps(r) \cup {None}
        /\ i \in locked[r] => blockHash[r][i] # None
        /\ finish[r] \in LeaderProps(r) \cup {None}
        /\ prevote[r][i] \in LeaderProps(r) \cup {None, No, Skip}
        /\ finvote[r][i] \in LeaderProps(r) \cup {None, No}
        /\ halts[r][i] \subseteq LeaderProps(r)

\* ... a Halt replaces a prevote or follows 2f+1 YES FinVotes, a NO FinVote
\* follows 2f+1 NO prevotes ...
HaltJustified(r, i, b) == prevote[r][i] = Skip \/ Quorum(For(r, Live, b))

VotesJustified ==
    \A r \in Round, i \in Live :
        /\ \A b \in halts[r][i] : HaltJustified(r, i, b)
        /\ finvote[r][i] = No => Quorum(NoPrevotes(r))

\* ... a proposal is fresh, adopted from a FinVote of the round before, or the
\* own one kept after 2f+1 NO FinVotes ...
ProposalJustified(r, i, c) ==
    \/ c = Fresh(i, r + 1)
    \/ \E k \in Live : finvote[r][k] = c
    \/ c \in props[r][i] /\ Quorum(For(r, Live, No))

ProposalsJustified ==
    \A r \in Round, i \in Live :
        r + 1 \in Round => \A c \in props[r + 1][i] : ProposalJustified(r, i, c)

\* ... and an output has a Halt quorum.
OutputsDecided ==
    \A i \in Live :
        output[i] # None => Decided(output[i].round, output[i].block)

IInv ==
    /\ VotesFromLeader
    /\ VotesJustified
    /\ ProposalsJustified
    /\ OutputsDecided

-----------------------------------------------------------------------------
(***************************************************************************)
(* What one step may do to each table.                                     *)
(***************************************************************************)
PropsGrow ==
    /\ leader' = leader
    /\ \A r \in Round, i \in Live : props[r][i] \subseteq props'[r][i]
    /\ \A r \in Round, i \in Live :
          r + 1 \in Round => \A c \in props'[r + 1][i] :
              c \in props[r + 1][i] \/ ProposalJustified(r, i, c)

SpbGrows ==
    \A r \in Round, i \in Live :
        /\ blockHash'[r][i] \in LeaderProps(r) \cup {blockHash[r][i]}
        /\ blockHash[r][i] # None => blockHash'[r][i] = blockHash[r][i]
        /\ i \in locked'[r] => i \in locked[r] \/ blockHash[r][i] # None
        /\ finish'[r] \in {finish[r], None}
              \cup {blockHash[r][j] : j \in Live}

PrevotesGrow ==
    \A r \in Round, i \in Live :
        \/ prevote'[r][i] = prevote[r][i]
        \/ /\ prevote[r][i] = None
           /\ prevote'[r][i] \in {No, Skip}
                 \cup {blockHash[r][j] : j \in locked[r]}

FinvotesGrow ==
    \A r \in Round, i \in Live :
        \/ finvote'[r][i] = finvote[r][i]
        \/ /\ finvote[r][i] = None
           /\ \/ finvote'[r][i] = No /\ Quorum(NoPrevotes(r))
              \/ \E j \in Live : finvote'[r][i] = prevote[r][j] /\ prevote[r][j] \in Block

HaltsGrow ==
    \A r \in Round, i \in Live :
        /\ halts[r][i] \subseteq halts'[r][i]
        /\ \A b \in halts'[r][i] :
              \/ b \in halts[r][i]
              \/ b = finish[r] /\ b # None /\ prevote'[r][i] = Skip
              \/ b \in Block /\ Quorum(For(r, Live, b))

OutputsGrow ==
    \A i \in Live :
        \/ output'[i] = output[i]
        \/ /\ output'[i] \in [round : Round, block : Block, leaders : SUBSET Round]
           /\ Decided(output'[i].round, output'[i].block)

Grows ==
    /\ PropsGrow
    /\ SpbGrows
    /\ PrevotesGrow
    /\ FinvotesGrow
    /\ HaltsGrow
    /\ OutputsGrow

LEMMA PropsStay ==
    ASSUME UNCHANGED <<leader, props>>
    PROVE  PropsGrow
BY DEF PropsGrow

LEMMA SpbStays ==
    ASSUME UNCHANGED <<blockHash, locked, finish>>
    PROVE  SpbGrows
BY DEF SpbGrows

LEMMA VotesStay ==
    /\ UNCHANGED prevote => PrevotesGrow
    /\ UNCHANGED finvote => FinvotesGrow
    /\ UNCHANGED halts => HaltsGrow
    /\ UNCHANGED output => OutputsGrow
BY DEF PrevotesGrow, FinvotesGrow, HaltsGrow, OutputsGrow

\* advanceNextRound with a justified block.
LEMMA AdvanceGrows ==
    ASSUME TypeOK, leader' = leader, NEW i \in Live, NEW r \in Round, NEW b,
           Advance(i, r, b), ProposalJustified(r, i, b)
    PROVE  PropsGrow
<1>1. CASE r < MaxRound
  <2>1. r + 1 \in Round /\ props \in [Round -> [Live -> SUBSET Block]]
    BY <1>1, RoundTypes DEF TypeOK
  <2>2. props' = [props EXCEPT ![r + 1][i] = props[r + 1][i] \cup {b}]
    BY <1>1 DEF Advance
  <2>3. \A s \in Round, j \in Live :
          props'[s][j] = IF s = r + 1 /\ j = i THEN props[r + 1][i] \cup {b} ELSE props[s][j]
    BY <2>1, <2>2
  <2>4. \A s \in Round : s + 1 = r + 1 => s = r
    BY RoundTypes
  <2>5. QED
    BY <2>1, <2>3, <2>4 DEF PropsGrow
<1>2. CASE ~(r < MaxRound)
  BY <1>2, PropsStay DEF Advance
<1>3. QED
  BY <1>1, <1>2

\* 2f+1 of the FinVotes i counted are 2f+1 of all.
LEMMA CountedQuorum ==
    ASSUME NEW r \in Round, NEW H \in SUBSET Live, NEW v,
           Count(r, H, v) = HightThreshold
    PROVE  Quorum(For(r, Live, v))
<1>1. Quorum(For(r, H, v))
  BY ThresholdTypes DEF Count, Quorum
<1>2. For(r, H, v) \subseteq For(r, Live, v) /\ For(r, Live, v) \in SUBSET Live
  BY DEF For
<1>3. QED
  BY <1>1, <1>2, QuorumGrows

LEMMA StepGrows ==
    ASSUME TypeOK, VotesFromLeader, [Next]_vars
    PROVE  Grows
<1> USE PropsStay, SpbStays, VotesStay DEF spbVars, voteVars, endVars
<1>1. ASSUME NEW i \in Live, TrytoStartMVBA(i) PROVE Grows
  <2>1. PropsGrow
    <3>1. /\ props' = [props EXCEPT ![0][i] = {Fresh(i, 0)}]
          /\ props[0][i] = {}
          /\ leader' = leader
      BY <1>1 DEF TrytoStartMVBA
    <3>2. \A r \in Round, j \in Live :
            props'[r][j] = IF r = 0 /\ j = i THEN {Fresh(i, 0)} ELSE props[r][j]
      BY <3>1, RoundTypes DEF TypeOK
    <3>3. \A r \in Round : r + 1 # 0
      BY RoundTypes
    <3>4. QED
      BY <3>1, <3>2, <3>3 DEF PropsGrow
  <2>2. QED
    BY <1>1, <2>1 DEF TrytoStartMVBA, Grows
<1>2. ASSUME NEW i \in Live, NEW r \in Round, NEW b \in Block, HandleSpbProposal(i, r, b)
      PROVE  Grows
  <2>1. SpbGrows
    <3>1. /\ blockHash' = [blockHash EXCEPT ![r][i] = IF @ = None THEN b ELSE @]
          /\ b \in LeaderProps(r)
          /\ locked' = locked /\ finish' = finish
      BY <1>2 DEF HandleSpbProposal
    <3>2. \A s \in Round, j \in Live :
            blockHash'[s][j] = IF s = r /\ j = i /\ blockHash[r][i] = None
                               THEN b ELSE blockHash[s][j]
      BY <3>1 DEF TypeOK
    <3>3. QED
      BY <3>1, <3>2 DEF SpbGrows
  <2>2. QED
    BY <1>2, <2>1 DEF HandleSpbProposal, Grows
<1>3. ASSUME NEW i \in Live, NEW r \in Round, Lock(i, r) PROVE Grows
  <2>1. SpbGrows
    BY <1>3 DEF Lock, SpbGrows, TypeOK
  <2>2. QED
    BY <1>3, <2>1 DEF Lock, Grows
<1>4. ASSUME NEW r \in Round, SendFinish(r) PROVE Grows
  <2>1. SpbGrows
    <3>1. /\ leader[r] \in Live
          /\ finish' = [finish EXCEPT ![r] = blockHash[r][leader[r]]]
          /\ locked' = locked /\ blockHash' = blockHash
      BY <1>4 DEF SendFinish
    <3>2. \A s \in Round :
            finish'[s] = IF s = r THEN blockHash[r][leader[r]] ELSE finish[s]
      BY <3>1 DEF TypeOK
    <3>3. QED
      BY <3>1, <3>2 DEF SpbGrows
  <2>2. QED
    BY <1>4, <2>1 DEF SendFinish, Grows
<1>5. ASSUME NEW r \in Round, Elect(r) PROVE Grows
  BY <1>5 DEF Elect, Grows
<1>6. ASSUME NEW i \in Live, NEW r \in Round, HaltOnFinish(i, r) PROVE Grows
  <2>1. PrevotesGrow
    BY <1>6 DEF HaltOnFinish, PrevotesGrow, TypeOK
  <2>2. HaltsGrow
    <3>1. /\ prevote' = [prevote EXCEPT ![r][i] = Skip]
          /\ halts' = [halts EXCEPT ![r][i] = @ \cup {finish[r]}]
          /\ finish[r] # None
      BY <1>6 DEF HaltOnFinish
    <3>2. prevote'[r][i] = Skip
      BY <3>1 DEF TypeOK
    <3>3. \A s \in Round, j \in Live :
            halts'[s][j] = IF s = r /\ j = i THEN halts[r][i] \cup {finish[r]} ELSE halts[s][j]
      BY <3>1 DEF TypeOK
    <3>4. QED
      BY <3>1, <3>2, <3>3 DEF HaltsGrow
  <2>3. QED
    BY <1>6, <2>1, <2>2 DEF HaltOnFinish, Grows
<1>7. ASSUME NEW i \in Live, NEW r \in Round, SendPrevote(i, r) PROVE Grows
  <2>1. PrevotesGrow
    BY <1>7 DEF SendPrevote, PrevotesGrow, TypeOK
  <2>2. QED
    BY <1>7, <2>1 DEF SendPrevote, Grows
<1>8. ASSUME NEW i \in Live, NEW r \in Round, NEW v \in Block \cup {No}, SendFinVote(i, r, v)
      PROVE  Grows
  <2>1. FinvotesGrow
    BY <1>8 DEF SendFinVote, FinvotesGrow, TypeOK
  <2>2. QED
    BY <1>8, <2>1 DEF SendFinVote, Grows
<1>9. ASSUME NEW i \in Live, NEW r \in Round, NEW S, FinVoteCommit(i, r, S)
      PROVE  Grows
  <2> DEFINE H == heard[r][i] \cup S
  <2>1. HaltsGrow
    <3>1. PICK b \in Block : /\ Commits(r, H, S, b)
                             /\ halts' = [halts EXCEPT ![r][i] = @ \cup {b}]
      BY <1>9, Zenon DEF FinVoteCommit
    <3>2. HearFinVotes(i, r, S)
      BY <1>9 DEF FinVoteCommit
    <3>3. Quorum(For(r, Live, b))
      BY <3>1, <3>2, HearType, CountedQuorum DEF Commits
    <3>4. halts \in [Round -> [Live -> SUBSET Block]]
      BY DEF TypeOK
    <3>5. \A s \in Round, j \in Live :
            halts'[s][j] = IF s = r /\ j = i THEN halts[r][i] \cup {b} ELSE halts[s][j]
      BY <3>1, <3>4
    <3>6. QED
      BY <3>1, <3>3, <3>5 DEF HaltsGrow
  <2>2. QED
    BY <1>9, <2>1 DEF FinVoteCommit, Grows
<1>10. ASSUME NEW i \in Live, NEW r \in Round, NEW S, FinVoteNo(i, r, S)
       PROVE  Grows
  <2> DEFINE H == heard[r][i] \cup S
  <2>1. PropsGrow
    <3>1. leader' = leader /\ HearFinVotes(i, r, S) /\ AdvancesNo(r, H)
      BY <1>10 DEF FinVoteNo
    <3>2. PICK b \in OwnBlocks(i, r) : Advance(i, r, b)
      BY <1>10 DEF FinVoteNo
    <3>3. Quorum(For(r, Live, No))
      BY <3>1, HearType, CountedQuorum DEF AdvancesNo
    <3>4. CASE b \in props[r][i] \cup {Fresh(i, r + 1)}
      BY <3>1, <3>2, <3>3, <3>4, AdvanceGrows DEF ProposalJustified
    <3>5. CASE leader[r] = i /\ b = blockHash[r][i] /\ b # None
      <4>1. b \in LeaderProps(r)
        BY <3>5 DEF VotesFromLeader
      <4>2. b \in props[r][i]
        BY <3>5, <4>1 DEF LeaderProps
      <4>3. QED
        BY <3>1, <3>2, <3>3, <4>2, AdvanceGrows DEF ProposalJustified
    <3>6. QED
      BY <3>2, <3>4, <3>5 DEF OwnBlocks
  <2>2. QED
    BY <1>10, <2>1 DEF FinVoteNo, Grows
<1>11. ASSUME NEW i \in Live, NEW r \in Round, NEW S, FinVoteYes(i, r, S)
       PROVE  Grows
  <2> DEFINE H == heard[r][i] \cup S
  <2>1. PropsGrow
    <3>1. leader' = leader /\ HearFinVotes(i, r, S)
      BY <1>11 DEF FinVoteYes
    <3>2. PICK b \in Block : /\ Count(r, H, b) > 0
                             /\ \/ Advance(i, r, b)
                                \/ Advance(i, r, Fresh(i, r + 1))
      BY <1>11 DEF FinVoteYes, AdvancesYes
    <3>3. \E k \in Live : finvote[r][k] = b
      <4>1. For(r, H, b) # {}
        <5>1. Cardinality({}) = 0
          BY FS_EmptySet
        <5>2. Cardinality(For(r, H, b)) # 0
          BY <3>2 DEF Count
        <5>3. QED
          BY <5>1, <5>2
      <4>2. H \subseteq Live
        BY <3>1, HearType
      <4>3. QED
        BY <4>1, <4>2 DEF For
    <3>4. ProposalJustified(r, i, b) /\ ProposalJustified(r, i, Fresh(i, r + 1))
      BY <3>3 DEF ProposalJustified
    <3>5. QED
      BY <3>1, <3>2, <3>4, AdvanceGrows
  <2>2. QED
    BY <1>11, <2>1 DEF FinVoteYes, Grows
<1>12. ASSUME NEW i \in Live, NEW r \in Round, NEW S, FinVoteNone(i, r, S)
       PROVE  Grows
  BY <1>12 DEF FinVoteNone, Grows
<1>13. ASSUME NEW i \in Live, NEW r \in Round, NEW b \in Block, HandleHalt(i, r, b)
       PROVE  Grows
  <2>1. OutputsGrow
    BY <1>13 DEF HandleHalt, OutputsGrow, Decided, TypeOK
  <2>2. QED
    BY <1>13, <2>1 DEF HandleHalt, Grows
<1>14. ASSUME NEW i \in Live, NEW r \in Round, NEW b \in Block, HandleLateProposal(i, r, b)
       PROVE  Grows
  BY <1>14 DEF HandleLateProposal, Grows
<1>15. ASSUME UNCHANGED vars PROVE Grows
  BY <1>15 DEF vars, Grows
<1>16. QED
  BY <1>1, <1>2, <1>3, <1>4, <1>5, <1>6, <1>7, <1>8, <1>9, <1>10, <1>11, <1>12,
     <1>13, <1>14, <1>15 DEF Next, HandleFinvote

-----------------------------------------------------------------------------
(* What was said stays said. *)

LEMMA SaidStays ==
    ASSUME TypeOK, VotesAssumption, Grows, NEW r \in Round
    PROVE  /\ LeaderProps(r) \subseteq LeaderProps(r)'
           /\ NoPrevotes(r) \subseteq NoPrevotes(r)'
           /\ \A v : v # None => For(r, Live, v) \subseteq For(r, Live, v)'
           /\ \A b : Halters(r, b) \subseteq Halters(r, b)'
<1>1. LeaderProps(r) \subseteq LeaderProps(r)'
  BY DEF Grows, PropsGrow, LeaderProps
<1>2. NoPrevotes(r) \subseteq NoPrevotes(r)'
  BY VotesAssumption DEF Grows, PrevotesGrow, NoPrevotes
<1>3. ASSUME NEW v, v # None PROVE For(r, Live, v) \subseteq For(r, Live, v)'
  BY <1>3 DEF Grows, FinvotesGrow, For
<1>4. ASSUME NEW b PROVE Halters(r, b) \subseteq Halters(r, b)'
  BY DEF Grows, HaltsGrow, Halters
<1>5. QED
  BY <1>1, <1>2, <1>3, <1>4

LEMMA QuorumsStay ==
    ASSUME TypeOK, VotesAssumption, Grows, NEW r \in Round
    PROVE  /\ Quorum(NoPrevotes(r)) => Quorum(NoPrevotes(r)')
           /\ \A v : v # None /\ Quorum(For(r, Live, v)) => Quorum(For(r, Live, v)')
           /\ \A b : Quorum(Halters(r, b)) => Quorum(Halters(r, b)')
<1>1. NoPrevotes(r)' \in SUBSET Live
  BY DEF NoPrevotes
<1>2. \A v : For(r, Live, v)' \in SUBSET Live
  BY DEF For
<1>3. \A b : Halters(r, b)' \in SUBSET Live
  BY DEF Halters
<1>4. QED
  BY <1>1, <1>2, <1>3, SaidStays, QuorumGrows

LEMMA JustifiedStays ==
    ASSUME TypeOK, VotesAssumption, Grows, NEW r \in Round, NEW i \in Live, NEW c \in Block,
           ProposalJustified(r, i, c)
    PROVE  ProposalJustified(r, i, c)'
<1>1. CASE c = Fresh(i, r + 1)
  BY <1>1 DEF ProposalJustified, Fresh
<1>2. CASE \E k \in Live : finvote[r][k] = c
  <2>1. PICK k \in Live : finvote[r][k] = c
    BY <1>2
  <2>2. c # None
    BY VotesAssumption
  <2>3. finvote'[r][k] = c
    BY <2>1, <2>2 DEF Grows, FinvotesGrow
  <2>4. QED
    BY <2>3 DEF ProposalJustified
<1>3. CASE c \in props[r][i] /\ Quorum(For(r, Live, No))
  <2>1. c \in props'[r][i]
    BY <1>3 DEF Grows, PropsGrow
  <2>2. Quorum(For(r, Live, No)')
    BY <1>3, QuorumsStay, VotesAssumption
  <2>3. QED
    BY <2>1, <2>2 DEF ProposalJustified, Quorum
<1>4. QED
  BY <1>1, <1>2, <1>3 DEF ProposalJustified

-----------------------------------------------------------------------------
(* The parts of the inductive invariant, one lemma each. *)

LEMMA VotesFromLeaderStep ==
    ASSUME TypeOK, VotesAssumption, VotesFromLeader, Grows
    PROVE  VotesFromLeader'
<1> SUFFICES ASSUME NEW r \in Round, NEW i \in Live
             PROVE  /\ blockHash'[r][i] \in LeaderProps(r)' \cup {None}
                    /\ i \in locked'[r] => blockHash'[r][i] # None
                    /\ finish'[r] \in LeaderProps(r)' \cup {None}
                    /\ prevote'[r][i] \in LeaderProps(r)' \cup {None, No, Skip}
                    /\ finvote'[r][i] \in LeaderProps(r)' \cup {None, No}
                    /\ halts'[r][i] \subseteq LeaderProps(r)'
  BY DEF VotesFromLeader
<1>1. LeaderProps(r) \subseteq LeaderProps(r)'
  BY SaidStays
<1>2. blockHash'[r][i] \in LeaderProps(r)' \cup {None}
  BY <1>1 DEF VotesFromLeader, Grows, SpbGrows
<1>3. i \in locked'[r] => blockHash'[r][i] # None
  BY DEF VotesFromLeader, Grows, SpbGrows
<1>4. finish'[r] \in LeaderProps(r)' \cup {None}
  BY <1>1 DEF VotesFromLeader, Grows, SpbGrows
<1>5. prevote'[r][i] \in LeaderProps(r)' \cup {None, No, Skip}
  <2>1. \A j \in locked[r] : blockHash[r][j] \in LeaderProps(r)
    BY DEF VotesFromLeader, TypeOK
  <2>2. QED
    BY <1>1, <2>1 DEF VotesFromLeader, Grows, PrevotesGrow
<1>6. finvote'[r][i] \in LeaderProps(r)' \cup {None, No}
  <2>1. \A j \in Live : prevote[r][j] \in Block => prevote[r][j] \in LeaderProps(r)
    BY VotesAssumption DEF VotesFromLeader
  <2>2. QED
    BY <1>1, <2>1 DEF VotesFromLeader, Grows, FinvotesGrow
<1>7. halts'[r][i] \subseteq LeaderProps(r)'
  <2>1. ASSUME NEW b \in Block, Quorum(For(r, Live, b)) PROVE b \in LeaderProps(r)
    <3>1. PICK j \in Live : finvote[r][j] = b
      BY <2>1, QuorumNonEmpty DEF For
    <3>2. QED
      BY <3>1, VotesAssumption DEF VotesFromLeader
  <2>2. QED
    BY <1>1, <2>1 DEF VotesFromLeader, Grows, HaltsGrow
<1>8. QED
  BY <1>2, <1>3, <1>4, <1>5, <1>6, <1>7

LEMMA VotesJustifiedStep ==
    ASSUME TypeOK, TypeOK', VotesAssumption, VotesJustified, Grows
    PROVE  VotesJustified'
<1> SUFFICES ASSUME NEW r \in Round, NEW i \in Live
             PROVE  /\ \A b \in halts'[r][i] : HaltJustified(r, i, b)'
                    /\ finvote'[r][i] = No => Quorum(NoPrevotes(r)')
  BY DEF VotesJustified, Quorum
<1>1. ASSUME NEW b \in halts'[r][i] PROVE HaltJustified(r, i, b)'
  <2>1. b \in Block /\ b # None
    BY VotesAssumption DEF TypeOK
  <2>2. \/ prevote[r][i] = Skip
        \/ prevote'[r][i] = Skip
        \/ Quorum(For(r, Live, b))
    BY DEF VotesJustified, HaltJustified, Grows, HaltsGrow
  <2>3. prevote[r][i] = Skip => prevote'[r][i] = Skip
    BY VotesAssumption DEF Grows, PrevotesGrow
  <2>4. Quorum(For(r, Live, b)) => Quorum(For(r, Live, b)')
    BY <2>1, QuorumsStay
  <2>5. QED
    BY <2>2, <2>3, <2>4 DEF HaltJustified, Quorum
<1>2. ASSUME finvote'[r][i] = No PROVE Quorum(NoPrevotes(r)')
  <2>1. \A j \in Live : prevote[r][j] \in Block => prevote[r][j] # No
    BY VotesAssumption
  <2>2. Quorum(NoPrevotes(r))
    BY <1>2, <2>1 DEF VotesJustified, Grows, FinvotesGrow
  <2>3. QED
    BY <2>2, QuorumsStay
<1>3. QED
  BY <1>1, <1>2

LEMMA ProposalsJustifiedStep ==
    ASSUME TypeOK, TypeOK', VotesAssumption, ProposalsJustified, Grows
    PROVE  ProposalsJustified'
<1> SUFFICES ASSUME NEW r \in Round, NEW i \in Live, r + 1 \in Round,
                    NEW c \in props'[r + 1][i]
             PROVE  ProposalJustified(r, i, c)'
  BY DEF ProposalsJustified
<1>1. c \in Block
  BY DEF TypeOK
<1>2. ProposalJustified(r, i, c)
  BY DEF ProposalsJustified, Grows, PropsGrow
<1>3. QED
  BY <1>1, <1>2, JustifiedStays

LEMMA OutputsDecidedStep ==
    ASSUME TypeOK, TypeOK', VotesAssumption, OutputsDecided, Grows
    PROVE  OutputsDecided'
<1> SUFFICES ASSUME NEW i \in Live, output'[i] # None
             PROVE  Cardinality({j \in Live : output'[i].block \in halts'[output'[i].round][j]})
                       >= HightThreshold
  BY DEF OutputsDecided, Decided, Quorum, Halters
<1>1. PICK r \in Round, b \in Block : output'[i].round = r /\ output'[i].block = b
  BY DEF TypeOK
<1>2. Quorum(Halters(r, b))
  BY <1>1 DEF OutputsDecided, Grows, OutputsGrow, Decided
<1>3. Quorum(Halters(r, b)')
  BY <1>2, QuorumsStay
<1>4. QED
  BY <1>1, <1>3 DEF Quorum, Halters

(***************************************************************************)
(* The invariant holds initially and is preserved by every step.           *)
(***************************************************************************)
LEMMA InitInvariant == Init => IInv
<1> SUFFICES ASSUME Init PROVE IInv
  OBVIOUS
<1>1. VotesFromLeader
  BY DEF Init, VotesFromLeader
<1>2. VotesJustified
  BY VotesAssumption DEF Init, VotesJustified
<1>3. ProposalsJustified
  BY DEF Init, ProposalsJustified
<1>4. OutputsDecided
  BY DEF Init, OutputsDecided
<1>5. QED
  BY <1>1, <1>2, <1>3, <1>4 DEF IInv

LEMMA StepInvariant == TypeOK /\ TypeOK' /\ IInv /\ [Next]_vars => IInv'
<1> SUFFICES ASSUME TypeOK, TypeOK', IInv, [Next]_vars PROVE IInv'
  OBVIOUS
<1>1. Grows
  BY StepGrows DEF IInv
<1>2. QED
  BY <1>1, VotesAssumption, VotesFromLeaderStep, VotesJustifiedStep, ProposalsJustifiedStep,
     OutputsDecidedStep DEF IInv

(***************************************************************************)
(* Votes, halts, proposals and outputs are what they are for a reason, in  *)
(* every reachable state.                                                  *)
(***************************************************************************)
THEOREM InvariantHolds == Spec => []IInv
<1>1. Init => IInv
  BY InitInvariant
<1>2. TypeOK /\ TypeOK' /\ IInv /\ [Next]_vars => IInv'
  BY StepInvariant
<1>3. QED
  BY <1>1, <1>2, TypeCorrect, PTL DEF Spec

-----------------------------------------------------------------------------
(***************************************************************************)
(* A decision in a round excludes a quorum of NO FinVotes in it: some      *)
(* halter counted 2f+1 YES votes, which meet the NO votes, or all of them  *)
(* skipped the prevote, and meet the 2f+1 NO prevotes.                     *)
(***************************************************************************)
LEMMA ExcludesNo ==
    ASSUME TypeOK, IInv, FullCommittee
    PROVE  DecisionExcludesNo
<1> SUFFICES ASSUME NEW r \in Round, NEW b \in Block, Quorum(Halters(r, b)),
                    Quorum(For(r, Live, No))
             PROVE  FALSE
  BY DEF DecisionExcludesNo, Decided
<1>1. b # No
  BY VotesAssumption
<1>2. For(r, Live, b) \in SUBSET Live /\ For(r, Live, No) \in SUBSET Live
  BY DEF For
<1>3. Quorum(NoPrevotes(r))
  <2>1. PICK k \in Live : finvote[r][k] = No
    BY QuorumNonEmpty DEF For
  <2>2. QED
    BY <2>1 DEF IInv, VotesJustified
<1>4. NoPrevotes(r) \in SUBSET Live /\ Halters(r, b) \in SUBSET Live
  BY DEF NoPrevotes, Halters
<1>5. ~Quorum(For(r, Live, b))
  <2>1. For(r, Live, b) \cap For(r, Live, No) = {}
    BY <1>1 DEF For
  <2>2. QED
    BY <1>2, <2>1, QuorumsMeet
<1>6. PICK j \in Halters(r, b) : j \in NoPrevotes(r)
  BY <1>3, <1>4, QuorumsMeet
<1>7. prevote[r][j] = Skip
  BY <1>4, <1>5, <1>6 DEF Halters, IInv, VotesJustified, HaltJustified
<1>8. QED
  BY <1>6, <1>7, VotesAssumption DEF NoPrevotes

(***************************************************************************)
(* In every committee of 3f + 1 nodes, at every round.                     *)
(***************************************************************************)
THEOREM DecisionsExcludeNo == FullCommittee => (Spec => []DecisionExcludesNo)
<1> SUFFICES ASSUME FullCommittee PROVE Spec => []DecisionExcludesNo
  OBVIOUS
<1>1. TypeOK /\ IInv => DecisionExcludesNo
  BY ExcludesNo
<1>2. QED
  BY <1>1, TypeCorrect, InvariantHolds, PTL

\* A decided block is one of the leader's.
LEMMA DecidedFromLeader ==
    ASSUME IInv, NEW r \in Round, NEW b, Decided(r, b)
    PROVE  b \in LeaderProps(r)
<1>1. PICK j \in Live : b \in halts[r][j]
  BY QuorumNonEmpty DEF Decided, Halters
<1>2. QED
  BY <1>1 DEF IInv, VotesFromLeader

(***************************************************************************)
(* What follows a decided round is its block or a fresh frontier: FinVotes *)
(* name blocks of the leader, who has one only, and NO keeps nothing.      *)
(***************************************************************************)
LEMMA Adopts ==
    ASSUME TypeOK, IInv, FullCommittee
    PROVE  DecisionAdopted
<1> SUFFICES ASSUME NEW r \in Round, NEW b \in Block, r + 1 \in Round, Decided(r, b),
                    OneProposal(r), NEW i \in Live, NEW c \in props[r + 1][i],
                    c # Fresh(i, r + 1)
             PROVE  c = b
  BY DEF DecisionAdopted
<1>1. b \in LeaderProps(r)
  BY DecidedFromLeader
<1>2. ~Quorum(For(r, Live, No))
  BY ExcludesNo DEF DecisionExcludesNo
<1>3. PICK k \in Live : finvote[r][k] = c
  BY <1>2 DEF IInv, ProposalsJustified, ProposalJustified
<1>4. c \in LeaderProps(r)
  <2>1. c \in Block
    BY DEF TypeOK
  <2>2. QED
    BY <1>3, <2>1, VotesAssumption DEF IInv, VotesFromLeader
<1>5. QED
  BY <1>1, <1>4 DEF OneProposal

(***************************************************************************)
(* In every committee of 3f + 1 nodes, at every round.                     *)
(***************************************************************************)
THEOREM DecisionsAreAdopted == FullCommittee => (Spec => []DecisionAdopted)
<1> SUFFICES ASSUME FullCommittee PROVE Spec => []DecisionAdopted
  OBVIOUS
<1>1. TypeOK /\ IInv => DecisionAdopted
  BY Adopts
<1>2. QED
  BY <1>1, TypeCorrect, InvariantHolds, PTL

(***************************************************************************)
(* After a decided round only its block is proposed: a first round in      *)
(* which it is not would follow the decided round, or a round in which     *)
(* nothing else could be voted for or kept.                                *)
(***************************************************************************)
LEMMA LaterProposals ==
    ASSUME TypeOK, IInv, FullCommittee, \A q \in Round : OneProposal(q), NothingForgotten,
           NEW r \in Round, NEW b \in Block, Decided(r, b)
    PROVE  \A s \in Round : r < s => \A i \in Live : props[s][i] \subseteq {b}
<1> DEFINE K == {s \in Round : r < s /\ \E i \in Live : ~(props[s][i] \subseteq {b})}
<1> SUFFICES ASSUME K # {} PROVE FALSE
  OBVIOUS
<1>1. PICK m \in K : \A k \in K : m <= k
  <2>1. K \subseteq Nat
    BY RoundTypes
  <2> HIDE DEF K
  <2>2. QED
    BY <2>1, LeastElement
<1>2. PICK q \in Round : q + 1 = m /\ r <= q
  BY RoundsAssumption DEF Round
<1>3. PICK i \in Live : \E c \in props[m][i] : c # b
  OBVIOUS
<1> PICK c \in props[m][i] : c # b
  BY <1>3
<1>4. m \in Round /\ r < m
  OBVIOUS
<1>5. c \in Block
  BY <1>3, <1>4 DEF TypeOK
<1>6. c # Fresh(i, m)
  BY <1>3, <1>4 DEF NothingForgotten
<1>7. CASE q = r
  <2>1. props[m][i] \subseteq {b, Fresh(i, m)}
    BY <1>2, <1>4, <1>7, Adopts DEF DecisionAdopted
  <2>2. QED
    BY <1>3, <1>6, <2>1
<1>8. CASE q # r
  <2>1. \A j \in Live : props[q][j] \subseteq {b}
    <3>1. q \notin K
      BY <1>1, <1>2, RoundTypes
    <3>2. r < q
      BY <1>2, <1>8, RoundTypes
    <3>3. QED
      BY <3>1, <3>2
  <2>2. LeaderProps(q) \subseteq {b}
    BY <2>1 DEF LeaderProps
  <2>3. ProposalJustified(q, i, c)
    BY <1>2, <1>3, <1>4 DEF IInv, ProposalsJustified
  <2>4. CASE \E k \in Live : finvote[q][k] = c
    <3>1. c \in LeaderProps(q)
      BY <1>5, <2>4, VotesAssumption DEF IInv, VotesFromLeader
    <3>2. QED
      BY <1>3, <2>2, <3>1
  <2>5. CASE c \in props[q][i]
    BY <1>3, <2>1, <2>5
  <2>6. QED
    BY <1>2, <1>6, <2>3, <2>4, <2>5 DEF ProposalJustified
<1>9. QED
  BY <1>7, <1>8

(***************************************************************************)
(* Two outputs of one round are blocks of one leader; of two rounds, the   *)
(* later one was proposed after the earlier one was decided.               *)
(***************************************************************************)
LEMMA Agrees ==
    ASSUME TypeOK, IInv, FullCommittee
    PROVE  AgreementUnlessForgotten
<1> SUFFICES ASSUME \A r \in Round : OneProposal(r), NothingForgotten,
                    NEW i \in Live, NEW j \in Live, output[i] # None, output[j] # None
             PROVE  output[i].block = output[j].block
  BY DEF AgreementUnlessForgotten, Agreement
<1>1. PICK r \in Round, b \in Block : output[i].round = r /\ output[i].block = b
  BY DEF TypeOK
<1>2. PICK s \in Round, c \in Block : output[j].round = s /\ output[j].block = c
  BY DEF TypeOK
<1>3. Decided(r, b) /\ b \in LeaderProps(r)
  BY <1>1, DecidedFromLeader DEF IInv, OutputsDecided
<1>4. Decided(s, c) /\ c \in LeaderProps(s)
  BY <1>2, DecidedFromLeader DEF IInv, OutputsDecided
<1>5. CASE r = s
  BY <1>1, <1>2, <1>3, <1>4, <1>5 DEF OneProposal
<1>6. CASE r < s
  <2>1. \A k \in Live : props[s][k] \subseteq {b}
    BY <1>3, <1>6, LaterProposals
  <2>2. QED
    BY <1>1, <1>2, <1>4, <2>1 DEF LeaderProps
<1>7. CASE s < r
  <2>1. \A k \in Live : props[r][k] \subseteq {c}
    BY <1>4, <1>7, LaterProposals
  <2>2. QED
    BY <1>1, <1>2, <1>3, <2>1 DEF LeaderProps
<1>8. QED
  BY <1>5, <1>6, <1>7, RoundTypes

(***************************************************************************)
(* In every committee of 3f + 1 nodes, however many rounds an epoch takes. *)
(***************************************************************************)
THEOREM NodesAgreeUnlessForgotten == FullCommittee => (Spec => []AgreementUnlessForgotten)
<1> SUFFICES ASSUME FullCommittee PROVE Spec => []AgreementUnlessForgotten
  OBVIOUS
<1>1. TypeOK /\ IInv => AgreementUnlessForgotten
  BY Agrees
<1>2. QED
  BY <1>1, TypeCorrect, InvariantHolds, PTL
=============================================================================
