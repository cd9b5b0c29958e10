-------------------------------- MODULE SPB --------------------------------
(***************************************************************************)
(* Strong provable broadcast (spb.go): the instances that all nodes keep   *)
(* for one epoch, round and Proposer.                                      *)
(*                                                                         *)
(* The proposer broadcasts an SMVBA block (phase one), every node votes    *)
(* for the hash it stored, 2f+1 votes start phase two, in which a node     *)
(* locks and votes without a hash, and 2f+1 of those votes make the        *)
(* proposer broadcast Finish.  Every message is handled by a goroutine of  *)
(* its own; what arrives before the block is stashed in unHandleVote and   *)
(* unHandleProposal.  BlockHash and LockFlag are atomics, the stashes and  *)
(* the counters have a mutex each, and nothing else orders the goroutines: *)
(* between its load of BlockHash and its next step a goroutine may be      *)
(* overtaken by any other one.                                             *)
(*                                                                         *)
(* Abstractions: the channels neither lose nor order messages (a goroutine *)
(* may start at any time after the send), a block is its hash, epoch and   *)
(* round are those of the instance.  Sending a vote is taken together with *)
(* the store or lock before it: nothing but a later receipt depends on it. *)
(***************************************************************************)
EXTENDS Committee

CONSTANTS Proposer,  \* the proposer of this instance
          Value,     \* the hashes of the SMVBA blocks it may propose
          NoHash     \* the nil that BlockHash.Load returns before a store

ASSUME ProposerAssumption ==
    /\ Proposer \in Live
    /\ NoHash \notin Value

VARIABLES
    proposed,   \* phase-one proposals broadcast by the proposer
    BlockHash,  \* BlockHash[i]: the hash node i stored
    LockFlag,   \* LockFlag[i]: node i locked
    Voters,     \* Voters[phase]: whose votes the proposer counted
    Finish,     \* the hash in the proposer's Finish message
    at,         \* at[m]: how far the goroutine that handles message m is
    loaded      \* loaded[j]: the hash that the goroutine handling j's
                \* phase-two vote loaded

vars == <<proposed, BlockHash, LockFlag, Voters, Finish, at, loaded>>

SPB_ONE_PHASE == 0
SPB_TWO_PHASE == 1

ProposalOne == [type : {"proposal"}, to : Live, value : Value]
ProposalTwo == [type : {"proceed"}, to : Live]
VoteOne == [type : {"vote"}, from : Live, value : Value]
VoteTwo == [type : {"lockvote"}, from : Live]
Message == ProposalOne \cup ProposalTwo \cup VoteOne \cup VoteTwo

\* The node whose goroutine handles m, and what the goroutine is about to do.
Handler(m) == IF m \in ProposalOne \cup ProposalTwo THEN m.to ELSE Proposer

Stage == {"none",     \* not sent
          "sent",     \* on its way or just started
          "store",    \* BlockHash was nil: store it and vote
          "drain",    \* stored: hand the stashed messages to new goroutines
          "stash",    \* BlockHash was nil: append to the stash
          "stashed",  \* waiting in unHandleVote or unHandleProposal
          "count",    \* BlockHash was loaded: count the phase-two vote
          "done"}

Init ==
    /\ proposed = {}
    /\ BlockHash = [i \in Live |-> NoHash]
    /\ LockFlag = [i \in Live |-> FALSE]
    /\ Voters = [phase \in {SPB_ONE_PHASE, SPB_TWO_PHASE} |-> {}]
    /\ Finish = NoHash
    /\ at = [m \in Message |-> "none"]
    /\ loaded = [j \in Live |-> NoHash]

-----------------------------------------------------------------------------
\* The goroutine of m moves to a stage; the messages of sent are sent.
Move(m, stage, sent) ==
    at' = [n \in Message |-> IF n = m THEN stage
                             ELSE IF n \in sent THEN "sent" ELSE at[n]]

\* TrytoStartMVBA and advanceNextRound: a phase-one proposal to every node.
\* FinVotes can make advanceNextRound run twice for a round, hence more than
\* one proposal of an honest proposer.
Propose(v) ==
    /\ v \notin proposed
    /\ proposed' = proposed \cup {v}
    /\ at' = [m \in Message |-> IF m \in ProposalOne /\ m.value = v
                                THEN "sent" ELSE at[m]]
    /\ UNCHANGED <<BlockHash, LockFlag, Voters, Finish, loaded>>

\* processProposal, phase one: a second proposal is ignored ...
LoadProposal(m) ==
    /\ m \in ProposalOne
    /\ at[m] = "sent"
    /\ Move(m, IF BlockHash[m.to] = NoHash THEN "store" ELSE "done", {})
    /\ UNCHANGED <<proposed, BlockHash, LockFlag, Voters, Finish, loaded>>

\* ... the first one is stored and voted for ...
StoreAndVote(m) ==
    /\ m \in ProposalOne
    /\ at[m] = "store"
    /\ BlockHash' = [BlockHash EXCEPT ![m.to] = m.value]
    /\ Move(m, "drain", {[type |-> "vote", from |-> m.to, value |-> m.value]})
    /\ UNCHANGED <<proposed, LockFlag, Voters, Finish, loaded>>

\* ... and new goroutines take up what was stashed meanwhile.  The slip of
\* clearing the stash without them:
Stashed(i) == {m \in Message : at[m] = "stashed" /\ Handler(m) = i}

Drain_mutantClear(m) ==
    /\ m \in ProposalOne
    /\ at[m] = "drain"
    /\ at' = [n \in Message |-> IF n \in Stashed(m.to) \cup {m} THEN "done" ELSE at[n]]
    /\ UNCHANGED <<proposed, BlockHash, LockFlag, Voters, Finish, loaded>>

Drain(m) ==
    /\ m \in ProposalOne
    /\ at[m] = "drain"
    /\ Move(m, "done", Stashed(m.to))
    /\ UNCHANGED <<proposed, BlockHash, LockFlag, Voters, Finish, loaded>>

\* Locking without waiting for phase one.
Lock_mutantEager(m) ==
    /\ m \in ProposalTwo
    /\ at[m] = "sent"
    /\ LockFlag' = [LockFlag EXCEPT ![m.to] = TRUE]
    /\ Move(m, "done", {[type |-> "lockvote", from |-> m.to]})
    /\ UNCHANGED <<proposed, BlockHash, Voters, Finish, loaded>>

\* processProposal, phase two: lock and vote if the block is there.
Lock(m) ==
    /\ m \in ProposalTwo
    /\ at[m] = "sent"
    /\ BlockHash[m.to] # NoHash
    /\ LockFlag' = [LockFlag EXCEPT ![m.to] = TRUE]
    /\ Move(m, "done", {[type |-> "lockvote", from |-> m.to]})
    /\ UNCHANGED <<proposed, BlockHash, Voters, Finish, loaded>>

\* Stashing the phase-one proposal too.
LoadNil_mutantAll(m) ==
    /\ at[m] = "sent"
    /\ BlockHash[Handler(m)] = NoHash
    /\ Move(m, "stash", {})
    /\ UNCHANGED <<proposed, BlockHash, LockFlag, Voters, Finish, loaded>>

\* processProposal (phase two) and processVote: BlockHash is nil, so the
\* message goes to the stash, but not before the mutex is taken.
LoadNil(m) ==
    /\ m \in Message \ ProposalOne
    /\ at[m] = "sent"
    /\ BlockHash[Handler(m)] = NoHash
    /\ Move(m, "stash", {})
    /\ UNCHANGED <<proposed, BlockHash, LockFlag, Voters, Finish, loaded>>

Stash(m) ==
    /\ at[m] = "stash"
    /\ Move(m, "stashed", {})
    /\ UNCHANGED <<proposed, BlockHash, LockFlag, Voters, Finish, loaded>>

\* num == HightThreshold for a voter that was not counted before.
Reached_mutantEarly(voters, j) ==
    j \notin voters /\ Cardinality(voters \cup {j}) = HightThreshold - 1

Reached(voters, j) ==
    j \notin voters /\ Cardinality(voters \cup {j}) = HightThreshold

\* processVote, phase one: a vote for another hash is dropped, the 2f+1st one
\* for this hash broadcasts phase two.  (Counting is taken together with the
\* load: what it sends is received at any time later.)
DropVoteOne(m) ==
    /\ m \in VoteOne
    /\ at[m] = "sent"
    /\ BlockHash[Proposer] \notin {NoHash, m.value}
    /\ Move(m, "done", {})
    /\ UNCHANGED <<proposed, BlockHash, LockFlag, Voters, Finish, loaded>>

CountVoteOne(m) ==
    /\ m \in VoteOne
    /\ at[m] = "sent"
    /\ BlockHash[Proposer] = m.value
    /\ Voters' = [Voters EXCEPT ![SPB_ONE_PHASE] = @ \cup {m.from}]
    /\ Move(m, "done", IF Reached(Voters[SPB_ONE_PHASE], m.from) THEN ProposalTwo ELSE {})
    /\ UNCHANGED <<proposed, BlockHash, LockFlag, Finish, loaded>>

\* processVote, phase two: the hash is loaded ...
LoadVoteTwo(m) ==
    /\ m \in VoteTwo
    /\ at[m] = "sent"
    /\ BlockHash[Proposer] # NoHash
    /\ Move(m, "count", {})
    /\ loaded' = [loaded EXCEPT ![m.from] = BlockHash[Proposer]]
    /\ UNCHANGED <<proposed, BlockHash, LockFlag, Voters, Finish>>

\* Finishing at f+1 votes.
CountVoteTwo_mutantLow(m) ==
    /\ m \in VoteTwo
    /\ at[m] = "count"
    /\ Voters' = [Voters EXCEPT ![SPB_TWO_PHASE] = @ \cup {m.from}]
    /\ Finish' = IF Cardinality(Voters'[SPB_TWO_PHASE]) = LowThreshold
                 THEN loaded[m.from] ELSE Finish
    /\ Move(m, "done", {})
    /\ UNCHANGED <<proposed, BlockHash, LockFlag, loaded>>

\* ... and the 2f+1st vote broadcasts Finish, with the hash its own goroutine
\* loaded.
CountVoteTwo(m) ==
    /\ m \in VoteTwo
    /\ at[m] = "count"
    /\ Voters' = [Voters EXCEPT ![SPB_TWO_PHASE] = @ \cup {m.from}]
    /\ Finish' = IF Reached(Voters[SPB_TWO_PHASE], m.from) THEN loaded[m.from] ELSE Finish
    /\ Move(m, "done", {})
    /\ UNCHANGED <<proposed, BlockHash, LockFlag, loaded>>

-----------------------------------------------------------------------------
\* One step of the goroutine that handles m.
Step(m) ==
    \/ LoadProposal(m)
    \/ StoreAndVote(m)
    \/ Drain(m)
    \/ Lock(m)
    \/ LoadNil(m)
    \/ Stash(m)
    \/ DropVoteOne(m)
    \/ CountVoteOne(m)
    \/ LoadVoteTwo(m)
    \/ CountVoteTwo(m)

Next ==
    \/ \E v \in Value : Propose(v)
    \/ \E m \in Message : Step(m)

Spec == Init /\ [][Next]_vars

\* As long as a goroutine can run or a sent message can be delivered, one
\* eventually is.  No goroutine runs for ever, so that gets to all of them.
Fairness == WF_vars(\E m \in Message : Step(m))

-----------------------------------------------------------------------------
(* Type invariant. *)
TypeOK ==
    /\ proposed \subseteq Value
    /\ BlockHash \in [Live -> Value \cup {NoHash}]
    /\ LockFlag \in [Live -> BOOLEAN]
    /\ Voters \in [{SPB_ONE_PHASE, SPB_TWO_PHASE} -> SUBSET Live]
    /\ Finish \in Value \cup {NoHash}
    /\ at \in [Message -> Stage]
    /\ \A m \in ProposalOne : at[m] \notin {"stash", "stashed", "count"}
    /\ loaded \in [Live -> Value \cup {NoHash}]

\* The nodes that locked the block of hash v.
Lockers(v) == {i \in Live : LockFlag[i] /\ BlockHash[i] = v}

(***************************************************************************)
(* A lock always has a block: processLeader panics on IsLock without       *)
(* GetBlockHash.  The goroutine that locks read BlockHash long before.     *)
(***************************************************************************)
LockHasBlock == \A i \in Live : LockFlag[i] => BlockHash[i] # NoHash

(***************************************************************************)
(* What SMVBA relies on: when a proposer that sent one proposal finishes   *)
(* with its hash, 2f+1 nodes are locked on that very hash, so that any     *)
(* 2f+1 nodes hold one that will prevote YES for it.  After two proposals, *)
(* which FinVotes YES, NO, NO and a late NO make an honest node send       *)
(* (aggreator.go:320-334), it fails: phase-two votes carry no hash.        *)
(***************************************************************************)
FinishLocked ==
    Finish # NoHash => Cardinality(Lockers(Finish)) >= HightThreshold
FinishLockedOnce == (\A v, w \in proposed : v = w) => FinishLocked

(***************************************************************************)
(* Nobody locks before 2f+1 nodes stored a block and voted: phase two is   *)
(* only ever the consequence of a quorum of phase one.                     *)
(***************************************************************************)
LockAfterQuorum ==
    (\E i \in Live : LockFlag[i])
        => Cardinality({i \in Live : BlockHash[i] # NoHash}) >= HightThreshold

\* A message was stashed after the last goroutine emptied the stash.
Stranded ==
    \E m \in Message :
        /\ at[m] = "stashed"
        /\ \A n \in ProposalOne : n.to = Handler(m) => at[n] \in {"none", "done"}

(***************************************************************************)
(* With nothing lost, a proposer of one value that stays without a Finish  *)
(* has a message stranded in a stash: the race between the load of         *)
(* BlockHash and the append is the only thing that can stop an instance.   *)
(***************************************************************************)
FinishOrStranded ==
    Cardinality(proposed) = 1 ~> (Finish # NoHash \/ Stranded \/ Cardinality(proposed) > 1)
=============================================================================
