----------------------------- MODULE SPBProofs -----------------------------
(***************************************************************************)
(* Proofs about SPB, for every committee, proposer and set of values:      *)
(* type correctness, locks have blocks, locks follow a quorum, and, for a  *)
(* proposer that proposes one value, Finish implies a locked quorum.       *)
(***************************************************************************)
EXTENDS SPB, CommitteeProofs

\* Phase one: what is stored, voted for and counted was proposed.
PhaseOneInv ==
    /\ \A m \in ProposalOne : at[m] # "none" => m.value \in proposed
    /\ \A i \in Live : BlockHash[i] \in proposed \cup {NoHash}
    /\ \A m \in VoteOne : at[m] # "none" => BlockHash[m.from] # NoHash
    /\ \A j \in Voters[SPB_ONE_PHASE] : BlockHash[j] # NoHash

\* Phase two: it starts with a quorum, and only lockers vote in it.
PhaseTwoInv ==
    /\ \A m \in ProposalTwo :
          at[m] # "none" => Cardinality(Voters[SPB_ONE_PHASE]) >= HightThreshold
    /\ \A i \in Live :
          LockFlag[i] => /\ BlockHash[i] # NoHash
                         /\ Cardinality(Voters[SPB_ONE_PHASE]) >= HightThreshold
    /\ \A m \in VoteTwo : at[m] # "none" => LockFlag[m.from]
    /\ \A j \in Voters[SPB_TWO_PHASE] : LockFlag[j]

\* Finish: a quorum of phase-two votes, for a hash that was proposed.
FinishInv ==
    /\ \A j \in Live : loaded[j] \in proposed \cup {NoHash}
    /\ Finish \in proposed \cup {NoHash}
    /\ Finish # NoHash => Cardinality(Voters[SPB_TWO_PHASE]) >= HightThreshold

Inv == TypeOK /\ PhaseOneInv /\ PhaseTwoInv /\ FinishInv

-----------------------------------------------------------------------------
\* The four kinds of messages are different.
LEMMA MessageKinds ==
    /\ ProposalOne \cap (ProposalTwo \cup VoteOne \cup VoteTwo) = {}
    /\ ProposalTwo \cap (VoteOne \cup VoteTwo) = {}
    /\ VoteOne \cap VoteTwo = {}
    /\ \A m \in Message : Handler(m) \in Live
<1>1. \A m \in ProposalOne : m.type = "proposal" /\ m.to \in Live /\ m.value \in Value
  BY DEF ProposalOne
<1>2. \A m \in ProposalTwo : m.type = "proceed" /\ m.to \in Live
  BY DEF ProposalTwo
<1>3. \A m \in VoteOne : m.type = "vote" /\ m.from \in Live /\ m.value \in Value
  BY DEF VoteOne
<1>4. \A m \in VoteTwo : m.type = "lockvote" /\ m.from \in Live
  BY DEF VoteTwo
<1>5. \A m \in Message : Handler(m) \in Live
  BY <1>1, <1>2, ProposerAssumption DEF Handler
<1> QED
  BY <1>1, <1>2, <1>3, <1>4, <1>5

\* What a step of the goroutine of m does to the stages of the others.
LEMMA MoveEffect ==
    ASSUME at \in [Message -> Stage],
           NEW m \in Message, NEW stage \in Stage, NEW S, Move(m, stage, S)
    PROVE  /\ at' \in [Message -> Stage]
           /\ at'[m] = stage
           /\ \A n \in Message : n # m /\ n \in S => at'[n] = "sent"
           /\ \A n \in Message : n # m /\ n \notin S => at'[n] = at[n]
<1>1. "sent" \in Stage
  BY DEF Stage
<1> QED
  BY <1>1 DEF Move

LEMMA Initial == Init => Inv
<1> SUFFICES ASSUME Init PROVE Inv
  OBVIOUS
<1>1. TypeOK
  BY ProposerAssumption DEF Init, TypeOK, Stage, Message
<1>2. \A m \in Message : at[m] = "none"
  BY DEF Init
<1>3. Voters[SPB_ONE_PHASE] = {} /\ Voters[SPB_TWO_PHASE] = {}
  BY DEF Init
<1>4. PhaseOneInv
  BY <1>2, <1>3 DEF Init, PhaseOneInv, Message
<1>5. PhaseTwoInv
  BY <1>2, <1>3 DEF Init, PhaseTwoInv, Message
<1>6. FinishInv
  BY DEF Init, FinishInv
<1> QED
  BY <1>1, <1>4, <1>5, <1>6 DEF Inv

LEMMA ProposeKeeps ==
    ASSUME Inv, NEW v \in Value, Propose(v)
    PROVE  Inv'
<1>1. TypeOK'
  <2>1. "sent" \in Stage
    BY DEF Stage
  <2>2. /\ at' \in [Message -> Stage]
        /\ \A m \in Message : at'[m] \in {"sent", at[m]}
    BY <2>1 DEF Propose, Inv, TypeOK
  <2>3. \A m \in ProposalOne : at'[m] \notin {"stash", "stashed", "count"}
    BY <2>2 DEF Inv, TypeOK, Message
  <2> QED
    BY <2>2, <2>3 DEF Inv, TypeOK, Propose
<1>2. \A m \in Message : ~(m \in ProposalOne /\ m.value = v) => at'[m] = at[m]
  BY DEF Propose, Inv, TypeOK
<1>3. PhaseOneInv' /\ PhaseTwoInv' /\ FinishInv'
  BY <1>2, MessageKinds DEF Inv, Propose, PhaseOneInv, PhaseTwoInv, FinishInv, Message
<1> QED
  BY <1>1, <1>3 DEF Inv

LEMMA LoadProposalKeeps ==
    ASSUME Inv, NEW m \in Message, LoadProposal(m)
    PROVE  Inv'
<1>1. PICK stage \in {"store", "done"} : Move(m, stage, {})
  BY DEF LoadProposal
<1>2. stage \in Stage /\ at \in [Message -> Stage]
  BY DEF Stage, Inv, TypeOK
<1>3. /\ at' \in [Message -> Stage]
      /\ at'[m] = stage
      /\ \A n \in Message : n # m => at'[n] = at[n]
  BY <1>1, <1>2, MoveEffect
<1>4. TypeOK'
  BY <1>3, MessageKinds DEF Inv, TypeOK, LoadProposal, Message
<1>5. PhaseOneInv' /\ PhaseTwoInv' /\ FinishInv'
  BY <1>3, MessageKinds
     DEF Inv, LoadProposal, PhaseOneInv, PhaseTwoInv, FinishInv, Message
<1> QED
  BY <1>4, <1>5 DEF Inv

LEMMA StoreAndVoteKeeps ==
    ASSUME Inv, NEW m \in Message, StoreAndVote(m)
    PROVE  Inv'
<1> DEFINE vote == [type |-> "vote", from |-> m.to, value |-> m.value]
<1>1. m \in ProposalOne /\ m.to \in Live /\ m.value \in Value /\ m.value \in proposed
  BY DEF StoreAndVote, ProposalOne, Inv, PhaseOneInv
<1>2. vote \in VoteOne /\ vote.from = m.to
  BY <1>1 DEF VoteOne
<1>3. "drain" \in Stage /\ at \in [Message -> Stage]
  BY DEF Stage, Inv, TypeOK
<1>4. Move(m, "drain", {vote})
  BY DEF StoreAndVote
<1>5. /\ at' \in [Message -> Stage]
      /\ at'[m] = "drain"
      /\ \A n \in Message : n # m /\ n = vote => at'[n] = "sent"
      /\ \A n \in Message : n # m /\ n # vote => at'[n] = at[n]
  <2> HIDE DEF vote
  <2> QED
    BY <1>3, <1>4, MoveEffect
<1>6. /\ BlockHash' \in [Live -> Value \cup {NoHash}]
      /\ BlockHash'[m.to] = m.value
      /\ \A i \in Live : i # m.to => BlockHash'[i] = BlockHash[i]
      /\ m.value # NoHash
  BY <1>1, ProposerAssumption DEF StoreAndVote, Inv, TypeOK
<1> HIDE DEF vote
<1>7. TypeOK'
  BY <1>1, <1>2, <1>5, <1>6, MessageKinds DEF Inv, TypeOK, StoreAndVote, Message
<1>8. PhaseOneInv'
  <2>1. \A n \in ProposalOne : at'[n] # "none" => n.value \in proposed'
    BY <1>1, <1>2, <1>5, MessageKinds DEF Inv, PhaseOneInv, StoreAndVote, Message
  <2>2. \A i \in Live : BlockHash'[i] \in proposed' \cup {NoHash}
    BY <1>1, <1>6 DEF Inv, PhaseOneInv, StoreAndVote
  <2>3. \A n \in VoteOne : at'[n] # "none" => BlockHash'[n.from] # NoHash
    <3> SUFFICES ASSUME NEW n \in VoteOne, at'[n] # "none", n.from # m.to
                 PROVE  BlockHash'[n.from] # NoHash
      BY <1>6
    <3>1. n \in Message /\ n # m /\ n # vote /\ n.from \in Live
      BY <1>1, <1>2, MessageKinds DEF Message, VoteOne
    <3>2. at[n] # "none"
      BY <3>1, <1>5
    <3> QED
      BY <3>1, <3>2, <1>6 DEF Inv, PhaseOneInv
  <2>4. \A j \in Voters'[SPB_ONE_PHASE] : BlockHash'[j] # NoHash
    BY <1>6 DEF Inv, TypeOK, PhaseOneInv, StoreAndVote, SPB_ONE_PHASE
  <2> QED
    BY <2>1, <2>2, <2>3, <2>4 DEF PhaseOneInv
<1>9. PhaseTwoInv'
  <2>1. \A n \in ProposalTwo \cup VoteTwo : at'[n] = at[n]
    BY <1>1, <1>2, <1>5, MessageKinds DEF Message
  <2>2. \A i \in Live : BlockHash[i] # NoHash => BlockHash'[i] # NoHash
    BY <1>6
  <2> QED
    BY <2>1, <2>2 DEF Inv, PhaseTwoInv, StoreAndVote
<1>10. FinishInv'
  BY DEF Inv, FinishInv, StoreAndVote
<1> QED
  BY <1>7, <1>8, <1>9, <1>10 DEF Inv

LEMMA DrainKeeps ==
    ASSUME Inv, NEW m \in Message, Drain(m)
    PROVE  Inv'
<1>1. Move(m, "done", Stashed(m.to)) /\ m \in ProposalOne
  BY DEF Drain
<1>2. "done" \in Stage /\ at \in [Message -> Stage]
  BY DEF Stage, Inv, TypeOK
<1>3. /\ at' \in [Message -> Stage]
      /\ at'[m] = "done"
      /\ \A n \in Message : n # m /\ n \in Stashed(m.to) => at'[n] = "sent"
      /\ \A n \in Message : n # m /\ n \notin Stashed(m.to) => at'[n] = at[n]
  BY <1>1, <1>2, MoveEffect
<1>4. \A n \in Message : at'[n] # "none" => at[n] # "none"
  BY <1>3 DEF Stashed, Drain
<1>5. TypeOK'
  BY <1>3 DEF Inv, TypeOK, Drain, Message
<1>6. PhaseOneInv' /\ PhaseTwoInv' /\ FinishInv'
  BY <1>4 DEF Inv, Drain, PhaseOneInv, PhaseTwoInv, FinishInv, Message
<1> QED
  BY <1>5, <1>6 DEF Inv

LEMMA LockKeeps ==
    ASSUME Inv, NEW m \in Message, Lock(m)
    PROVE  Inv'
<1> DEFINE vote == [type |-> "lockvote", from |-> m.to]
<1>1. m \in ProposalTwo /\ m.to \in Live /\ at[m] # "none"
  BY DEF Lock, ProposalTwo
<1>2. vote \in VoteTwo /\ vote.from = m.to
  BY <1>1 DEF VoteTwo
<1>3. "done" \in Stage /\ at \in [Message -> Stage]
  BY DEF Stage, Inv, TypeOK
<1>4. Move(m, "done", {vote})
  BY DEF Lock
<1>5. /\ at' \in [Message -> Stage]
      /\ at'[m] = "done"
      /\ \A n \in Message : n # m /\ n = vote => at'[n] = "sent"
      /\ \A n \in Message : n # m /\ n # vote => at'[n] = at[n]
  <2> HIDE DEF vote
  <2> QED
    BY <1>3, <1>4, MoveEffect
<1>6. /\ LockFlag' \in [Live -> BOOLEAN]
      /\ LockFlag'[m.to]
      /\ \A i \in Live : i # m.to => (LockFlag'[i] <=> LockFlag[i])
  BY <1>1 DEF Lock, Inv, TypeOK
<1> HIDE DEF vote
<1>7. TypeOK'
  BY <1>1, <1>2, <1>5, <1>6, MessageKinds DEF Inv, TypeOK, Lock, Message
<1>8. PhaseOneInv' /\ FinishInv'
  BY <1>1, <1>2, <1>5, MessageKinds DEF Inv, PhaseOneInv, FinishInv, Lock, Message
<1>9. PhaseTwoInv'
  <2>1. Cardinality(Voters[SPB_ONE_PHASE]) >= HightThreshold /\ BlockHash[m.to] # NoHash
    BY <1>1 DEF Inv, PhaseTwoInv, Lock
  <2>2. \A n \in ProposalTwo : at'[n] # "none" =>
           Cardinality(Voters'[SPB_ONE_PHASE]) >= HightThreshold
    BY <2>1 DEF Lock
  <2>3. \A i \in Live :
          LockFlag'[i] => /\ BlockHash'[i] # NoHash
                          /\ Cardinality(Voters'[SPB_ONE_PHASE]) >= HightThreshold
    BY <2>1, <1>6 DEF Inv, PhaseTwoInv, Lock
  <2>4. \A n \in VoteTwo : at'[n] # "none" => LockFlag'[n.from]
    <3> SUFFICES ASSUME NEW n \in VoteTwo, at'[n] # "none", n.from # m.to
                 PROVE  LockFlag'[n.from]
      BY <1>6
    <3>1. n \in Message /\ n # m /\ n # vote /\ n.from \in Live
      BY <1>1, <1>2, MessageKinds DEF Message, VoteTwo
    <3>2. LockFlag[n.from]
      BY <3>1, <1>5 DEF Inv, PhaseTwoInv
    <3> QED
      BY <3>1, <3>2, <1>6
  <2>5. \A j \in Voters'[SPB_TWO_PHASE] : LockFlag'[j]
    <3>1. Voters' = Voters /\ Voters[SPB_TWO_PHASE] \subseteq Live
      BY DEF Lock, Inv, TypeOK, SPB_TWO_PHASE
    <3> QED
      BY <3>1, <1>6 DEF Inv, PhaseTwoInv
  <2> QED
    BY <2>2, <2>3, <2>4, <2>5 DEF PhaseTwoInv
<1> QED
  BY <1>7, <1>8, <1>9 DEF Inv

\* The steps that only move a goroutine that is no phase-one proposal's.
LEMMA QuietKeeps ==
    ASSUME Inv, NEW m \in Message,
           LoadNil(m) \/ Stash(m) \/ DropVoteOne(m)
    PROVE  Inv'
<1>1. PICK stage \in {"stash", "stashed", "done"} : Move(m, stage, {})
  BY DEF LoadNil, Stash, DropVoteOne
<1>2. stage \in Stage /\ at \in [Message -> Stage]
  BY DEF Stage, Inv, TypeOK
<1>3. /\ at' \in [Message -> Stage]
      /\ at'[m] = stage
      /\ \A n \in Message : n # m => at'[n] = at[n]
  BY <1>1, <1>2, MoveEffect
<1>4. m \notin ProposalOne /\ at[m] # "none"
  BY MessageKinds DEF LoadNil, Stash, DropVoteOne, Inv, TypeOK
<1>5. UNCHANGED <<proposed, BlockHash, LockFlag, Voters, Finish, loaded>>
  BY DEF LoadNil, Stash, DropVoteOne
<1>6. TypeOK'
  BY <1>3, <1>4, <1>5 DEF Inv, TypeOK, Message
<1>7. PhaseOneInv' /\ PhaseTwoInv' /\ FinishInv'
  BY <1>3, <1>4, <1>5 DEF Inv, PhaseOneInv, PhaseTwoInv, FinishInv, Message
<1> QED
  BY <1>6, <1>7 DEF Inv

LEMMA CountVoteOneKeeps ==
    ASSUME Inv, NEW m \in Message, CountVoteOne(m)
    PROVE  Inv'
<1> DEFINE old == Voters[SPB_ONE_PHASE]
           new == old \cup {m.from}
<1>1. m \in VoteOne /\ m.from \in Live /\ at[m] # "none" /\ BlockHash[m.from] # NoHash
  BY DEF CountVoteOne, VoteOne, Inv, PhaseOneInv
<1>2. /\ old \subseteq Live /\ new \subseteq Live /\ old \subseteq new
      /\ new \subseteq Node /\ old \subseteq Node
  BY <1>1 DEF Inv, TypeOK, SPB_ONE_PHASE, Live
<1>3. /\ Voters' \in [{SPB_ONE_PHASE, SPB_TWO_PHASE} -> SUBSET Live]
      /\ Voters'[SPB_ONE_PHASE] = new
      /\ Voters'[SPB_TWO_PHASE] = Voters[SPB_TWO_PHASE]
  BY <1>1, <1>2 DEF CountVoteOne, Inv, TypeOK, SPB_ONE_PHASE, SPB_TWO_PHASE
<1>4. Cardinality(old) \in Nat /\ Cardinality(new) \in Nat /\ Cardinality(old) <= Cardinality(new)
  <2> HIDE DEF old, new
  <2> QED
    BY <1>2, NodeSubsets
<1>5. PICK S \in SUBSET ProposalTwo :
        Move(m, "done", S) /\ (S # {} => Cardinality(new) >= HightThreshold)
  BY ThresholdTypes DEF CountVoteOne, Reached
<1>6. "done" \in Stage /\ at \in [Message -> Stage]
  BY DEF Stage, Inv, TypeOK
<1>7. /\ at' \in [Message -> Stage]
      /\ at'[m] = "done"
      /\ \A n \in Message : n # m /\ n \in S => at'[n] = "sent"
      /\ \A n \in Message : n # m /\ n \notin S => at'[n] = at[n]
  BY <1>5, <1>6, MoveEffect
<1> HIDE DEF old, new
<1>8. TypeOK'
  BY <1>1, <1>3, <1>5, <1>7, MessageKinds DEF Inv, TypeOK, CountVoteOne, Message
<1>9. PhaseOneInv'
  <2>1. \A n \in ProposalOne \cup VoteOne : at'[n] # "none" => at[n] # "none"
    BY <1>1, <1>5, <1>7, MessageKinds DEF Message
  <2>2. \A j \in new : BlockHash[j] # NoHash
    BY <1>1 DEF new, old, Inv, PhaseOneInv
  <2> QED
    BY <2>1, <2>2, <1>3 DEF Inv, PhaseOneInv, CountVoteOne
<1>10. PhaseTwoInv'
  <2>1. Cardinality(old) >= HightThreshold => Cardinality(new) >= HightThreshold
    BY <1>4, ThresholdTypes
  <2>2. \A n \in VoteTwo : at'[n] = at[n]
    BY <1>1, <1>5, <1>7, MessageKinds DEF Message
  <2>3. \A n \in ProposalTwo : at'[n] # "none" => at[n] # "none" \/ n \in S
    BY <1>1, <1>7, MessageKinds DEF Message
  <2>4. \A n \in ProposalTwo : at'[n] # "none" => Cardinality(new) >= HightThreshold
    BY <2>1, <2>3, <1>5 DEF old, Inv, PhaseTwoInv
  <2>5. \A i \in Live : LockFlag[i] => Cardinality(new) >= HightThreshold
    BY <2>1 DEF old, Inv, PhaseTwoInv
  <2> QED
    BY <2>2, <2>4, <2>5, <1>3 DEF Inv, PhaseTwoInv, CountVoteOne
<1>11. FinishInv'
  BY <1>3 DEF Inv, FinishInv, CountVoteOne
<1> QED
  BY <1>8, <1>9, <1>10, <1>11 DEF Inv

LEMMA LoadVoteTwoKeeps ==
    ASSUME Inv, NEW m \in Message, LoadVoteTwo(m)
    PROVE  Inv'
<1>1. m \in VoteTwo /\ m.from \in Live /\ at[m] # "none" /\ Move(m, "count", {})
  BY DEF LoadVoteTwo, VoteTwo
<1>2. "count" \in Stage /\ at \in [Message -> Stage]
  BY DEF Stage, Inv, TypeOK
<1>3. /\ at' \in [Message -> Stage]
      /\ \A n \in Message : n # m => at'[n] = at[n]
  BY <1>1, <1>2, MoveEffect
<1>4. /\ BlockHash[Proposer] \in Value \cup {NoHash}
      /\ BlockHash[Proposer] \in proposed \cup {NoHash}
  BY ProposerAssumption DEF Inv, TypeOK, PhaseOneInv
<1>5. /\ loaded' \in [Live -> Value \cup {NoHash}]
      /\ \A j \in Live : loaded'[j] \in proposed \cup {NoHash}
  BY <1>1, <1>4 DEF LoadVoteTwo, Inv, TypeOK, FinishInv
<1>6. TypeOK'
  BY <1>1, <1>3, <1>5, MessageKinds DEF Inv, TypeOK, LoadVoteTwo, Message
<1>7. PhaseOneInv' /\ PhaseTwoInv' /\ FinishInv'
  BY <1>1, <1>3, <1>5, MessageKinds
     DEF Inv, PhaseOneInv, PhaseTwoInv, FinishInv, LoadVoteTwo, Message
<1> QED
  BY <1>6, <1>7 DEF Inv

LEMMA CountVoteTwoKeeps ==
    ASSUME Inv, NEW m \in Message, CountVoteTwo(m)
    PROVE  Inv'
<1> DEFINE old == Voters[SPB_TWO_PHASE]
           new == old \cup {m.from}
<1>1. m \in VoteTwo /\ m.from \in Live /\ at[m] # "none" /\ Move(m, "done", {})
  BY DEF CountVoteTwo, VoteTwo
<1>2. /\ old \subseteq Live /\ new \subseteq Live /\ old \subseteq new
      /\ new \subseteq Node /\ old \subseteq Node
  BY <1>1 DEF Inv, TypeOK, SPB_TWO_PHASE, Live
<1>3. /\ Voters' \in [{SPB_ONE_PHASE, SPB_TWO_PHASE} -> SUBSET Live]
      /\ Voters'[SPB_TWO_PHASE] = new
      /\ Voters'[SPB_ONE_PHASE] = Voters[SPB_ONE_PHASE]
  BY <1>1, <1>2 DEF CountVoteTwo, Inv, TypeOK, SPB_ONE_PHASE, SPB_TWO_PHASE
<1>4. Cardinality(old) \in Nat /\ Cardinality(new) \in Nat /\ Cardinality(old) <= Cardinality(new)
  <2> HIDE DEF old, new
  <2> QED
    BY <1>2, NodeSubsets
<1>5. "done" \in Stage /\ at \in [Message -> Stage]
  BY DEF Stage, Inv, TypeOK
<1>6. /\ at' \in [Message -> Stage]
      /\ at'[m] = "done"
      /\ \A n \in Message : n # m => at'[n] = at[n]
  BY <1>1, <1>5, MoveEffect
<1>7. /\ Finish' \in Value \cup {NoHash}
      /\ Finish' \in proposed \cup {NoHash}
      /\ Finish' # NoHash => Cardinality(new) >= HightThreshold
  <2>1. loaded[m.from] \in Value \cup {NoHash} /\ loaded[m.from] \in proposed \cup {NoHash}
    BY <1>1 DEF Inv, TypeOK, FinishInv
  <2>2. CASE Reached(old, m.from)
    BY <2>1, <2>2, ThresholdTypes DEF CountVoteTwo, Reached
  <2>3. CASE ~Reached(old, m.from)
    BY <2>3, <1>4, ThresholdTypes DEF CountVoteTwo, Inv, TypeOK, FinishInv
  <2> QED
    BY <2>2, <2>3
<1> HIDE DEF old, new
<1>8. TypeOK'
  BY <1>1, <1>3, <1>6, <1>7, MessageKinds DEF Inv, TypeOK, CountVoteTwo, Message
<1>9. PhaseOneInv'
  BY <1>1, <1>3, <1>6, MessageKinds DEF Inv, PhaseOneInv, CountVoteTwo, Message
<1>10. PhaseTwoInv'
  <2>1. \A n \in ProposalTwo \cup VoteTwo : at'[n] # "none" => at[n] # "none"
    BY <1>1, <1>6 DEF Message
  <2>2. \A j \in new : LockFlag[j]
    BY <1>1 DEF new, old, Inv, PhaseTwoInv
  <2> QED
    BY <2>1, <2>2, <1>3 DEF Inv, PhaseTwoInv, CountVoteTwo
<1>11. FinishInv'
  BY <1>3, <1>7 DEF Inv, FinishInv, CountVoteTwo
<1> QED
  BY <1>8, <1>9, <1>10, <1>11 DEF Inv

LEMMA Inductive == Spec => []Inv
<1>1. Inv /\ [Next]_vars => Inv'
  <2> SUFFICES ASSUME Inv, [Next]_vars PROVE Inv'
    OBVIOUS
  <2>1. ASSUME NEW v \in Value, Propose(v) PROVE Inv'
    BY <2>1, ProposeKeeps
  <2>2. ASSUME NEW m \in Message, Step(m) PROVE Inv'
    BY <2>2, LoadProposalKeeps, StoreAndVoteKeeps, DrainKeeps, LockKeeps, QuietKeeps,
       CountVoteOneKeeps, LoadVoteTwoKeeps, CountVoteTwoKeeps DEF Step
  <2>3. CASE UNCHANGED vars
    BY <2>3 DEF vars, Inv, TypeOK, PhaseOneInv, PhaseTwoInv, FinishInv
  <2> QED
    BY <2>1, <2>2, <2>3 DEF Next
<1> QED
  BY <1>1, Initial, PTL DEF Spec

-----------------------------------------------------------------------------
(* The instances of all nodes stay in their types (spb.go:11-29). *)
THEOREM TypeCorrect == Spec => []TypeOK
<1>1. Inv => TypeOK
  BY DEF Inv
<1> QED
  BY <1>1, Inductive, PTL

(* processLeader never finds a lock without a block hash (core.go:506-508). *)
THEOREM LocksHaveBlocks == Spec => []LockHasBlock
<1>1. Inv => LockHasBlock
  BY DEF Inv, PhaseTwoInv, LockHasBlock
<1> QED
  BY <1>1, Inductive, PTL

(* No node locks before a quorum stored a block, whatever the interleaving *)
(* of the goroutines and however many values the proposer sends.           *)
THEOREM LocksFollowQuorum == Spec => []LockAfterQuorum
<1>1. Inv => LockAfterQuorum
  <2> SUFFICES ASSUME Inv, NEW i \in Live, LockFlag[i]
               PROVE  Cardinality({j \in Live : BlockHash[j] # NoHash}) >= HightThreshold
    BY DEF LockAfterQuorum
  <2> DEFINE T == {j \in Live : BlockHash[j] # NoHash}
  <2>1. Voters[SPB_ONE_PHASE] \subseteq T /\ T \subseteq Node
    BY DEF Inv, TypeOK, PhaseOneInv, SPB_ONE_PHASE, Live
  <2>2. Cardinality(Voters[SPB_ONE_PHASE]) >= HightThreshold
    BY DEF Inv, PhaseTwoInv
  <2>3. /\ Cardinality(Voters[SPB_ONE_PHASE]) \in Nat /\ Cardinality(T) \in Nat
        /\ Cardinality(Voters[SPB_ONE_PHASE]) <= Cardinality(T)
    <3> HIDE DEF T
    <3> QED
      BY <2>1, NodeSubsets
  <2> QED
    BY <2>2, <2>3, ThresholdTypes
<1> QED
  BY <1>1, Inductive, PTL

(* With one proposal per round, the Finish of a proposer means that 2f+1   *)
(* nodes are locked on the hash it carries (spb.go:138-161).               *)
THEOREM FinishImpliesLockedQuorum ==
    Spec => []FinishLockedOnce
<1>1. Inv => FinishLockedOnce
  <2> SUFFICES ASSUME Inv, \A v, w \in proposed : v = w, Finish # NoHash
               PROVE  Cardinality(Lockers(Finish)) >= HightThreshold
    BY DEF FinishLockedOnce, FinishLocked
  <2> DEFINE T == Lockers(Finish)
  <2>1. Voters[SPB_TWO_PHASE] \subseteq T /\ T \subseteq Node
    <3> SUFFICES ASSUME NEW j \in Voters[SPB_TWO_PHASE] PROVE j \in T
      BY DEF Lockers, Live
    <3>1. j \in Live /\ LockFlag[j] /\ BlockHash[j] # NoHash
      BY DEF Inv, TypeOK, PhaseTwoInv, SPB_TWO_PHASE
    <3>2. BlockHash[j] \in proposed /\ Finish \in proposed
      BY <3>1 DEF Inv, PhaseOneInv, FinishInv
    <3> QED
      BY <3>1, <3>2 DEF Lockers
  <2>2. Cardinality(Voters[SPB_TWO_PHASE]) >= HightThreshold
    BY DEF Inv, FinishInv
  <2>3. /\ Cardinality(Voters[SPB_TWO_PHASE]) \in Nat /\ Cardinality(T) \in Nat
        /\ Cardinality(Voters[SPB_TWO_PHASE]) <= Cardinality(T)
    <3> HIDE DEF T
    <3> QED
      BY <2>1, NodeSubsets
  <2> QED
    BY <2>2, <2>3, ThresholdTypes
<1> QED
  BY <1>1, Inductive, PTL
=============================================================================
