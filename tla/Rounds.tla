------------------------------- MODULE Rounds -------------------------------
(***************************************************************************)
(* The rounds of one SMVBA epoch (core.go, aggreator.go, elector.go): how  *)
(* the nodes get from their SPB instances to a Halt quorum.                *)
(*                                                                         *)
(* In every round each node runs an SPB instance for the SMVBA block it    *)
(* proposes.  2f+1 Finish messages lead to Done and to the common coin,    *)
(* which elects the proposer whose block the round is about.  A node that  *)
(* has the leader's Finish sends Halt, any other one prevotes: YES with    *)
(* the hash it is locked on, or NO.  FinVotes repeat what the prevotes     *)
(* said; 2f+1 equal YES ones send Halt, a mixed quorum adopts the YES hash *)
(* for the next round, 2f+1 NO ones keep the node's own block.  2f+1 Halts *)
(* for one hash decide the epoch.                                          *)
(*                                                                         *)
(* Abstractions.                                                           *)
(*  - Only the leader's SPB instance is modelled in each round, by what    *)
(*    module SPB shows of it; of the others the round only needs that they *)
(*    can finish.  leader is drawn in Init and read once the coin is out.  *)
(*  - A block is its proposer and the round it was generated for; what its *)
(*    frontier says is left to DataPlane.                                  *)
(*  - A node is taken to receive a message whenever it acts on it: the     *)
(*    sets of votes it may have heard stand for all delivery orders.  Only *)
(*    the leader's proposals and the FinVotes, whose order matters, are    *)
(*    kept per receiver.                                                   *)
(***************************************************************************)
EXTENDS Committee

CONSTANTS MaxRound,  \* bound: no proposal for a round above this one
          None,      \* nothing stored, sent or output yet
          No,        \* VOTE_FLAG_NO
          Skip       \* in prevote: sent Halt instead

ASSUME RoundsAssumption == MaxRound \in Nat

Round == 0 .. MaxRound

Block == [proposer : Live, round : Round]

ASSUME VotesAssumption ==
    None # No /\ Skip \notin {None, No} /\ {None, No, Skip} \cap Block = {}

VARIABLES
    leader,     \* leader[r]: the node the coin of round r elects
    props,      \* props[r][p]: the blocks p proposed in round r
    arrived,    \* arrived[r][i]: the leader's proposals node i handled
    blockHash,  \* blockHash[r][i]: BlockHash of i's instance of the leader's SPB
    locked,     \* locked[r]: the nodes that locked in the leader's SPB
    finish,     \* finish[r]: the hash of the leader's Finish
    elected,    \* the rounds whose coin may have been revealed
    prevote,    \* prevote[r][i]: what i sent in processLeader
    finvote,    \* finvote[r][i]: i's FinVote
    heard,      \* heard[r][i]: whose FinVotes i counted, none below a quorum
    halts,      \* halts[r][i]: the hashes i sent Halt for
    output,     \* output[i]: the round and hash whose Halt quorum i counted,
                \* and the rounds whose leader i may have known by then
    committed   \* committed[i]: the SMVBA blocks given to commitSMVBABlock

spbVars == <<props, arrived, blockHash, locked, finish>>
voteVars == <<prevote, finvote, heard, halts>>
endVars == <<output, committed>>
vars == <<leader, spbVars, elected, voteVars, endVars>>

Init ==
    /\ leader \in [Round -> Node]
    /\ props = [r \in Round |-> [p \in Live |-> {}]]
    /\ arrived = [r \in Round |-> [i \in Live |-> {}]]
    /\ blockHash = [r \in Round |-> [i \in Live |-> None]]
    /\ locked = [r \in Round |-> {}]
    /\ finish = [r \in Round |-> None]
    /\ elected = {}
    /\ prevote = [r \in Round |-> [i \in Live |-> None]]
    /\ finvote = [r \in Round |-> [i \in Live |-> None]]
    /\ heard = [r \in Round |-> [i \in Live |-> {}]]
    /\ halts = [r \in Round |-> [i \in Live |-> {}]]
    /\ output = [i \in Live |-> None]
    /\ committed = [i \in Live |-> {}]

-----------------------------------------------------------------------------
\* messgaeFilter: i is still in this epoch.
Active(i) == output[i] = None

Fresh(i, r) == [proposer |-> i, round |-> r]

Quorum(S) == Cardinality(S) >= HightThreshold

\* The leader's blocks of round r; none if the coin elected a silent node.
LeaderProps(r) == IF leader[r] \in Live THEN props[r][leader[r]] ELSE {}

\* A proposal with block b for node i that does not come from a leader, and
\* that i may therefore have handled; i has its own blocks.
Relayed(i, b) ==
    \/ b.proposer = i
    \/ \E r \in Round, p \in Live : p # leader[r] /\ b \in props[r][p]

Arrived(i, b) == \E r \in Round : b \in arrived[r][i]

\* getSMVBABlock: i may find, or may miss, block b in its store.
MayFind(i, b) == Arrived(i, b) \/ Relayed(i, b)
MayMiss(i, b) == ~Arrived(i, b) /\ b.proposer # i

-----------------------------------------------------------------------------
\* TrytoStartMVBA: smvbaflag admits one proposal for round 0.
TrytoStartMVBA(i) ==
    /\ Active(i)
    /\ props[0][i] = {}
    /\ props' = [props EXCEPT ![0][i] = {Fresh(i, 0)}]
    /\ UNCHANGED <<leader, arrived, blockHash, locked, finish, elected, voteVars, endVars>>

\* handleSpbProposal, phase one from the leader: i stores the block and votes
\* for the first one it gets (storeSMVBABlock, SPB.processProposal).
HandleSpbProposal(i, r, b) ==
    /\ Active(i)
    /\ b \in LeaderProps(r) \ arrived[r][i]
    /\ arrived' = [arrived EXCEPT ![r][i] = @ \cup {b}]
    /\ blockHash' = [blockHash EXCEPT ![r][i] = IF @ = None THEN b ELSE @]
    /\ UNCHANGED <<leader, props, locked, finish, elected, voteVars, endVars>>

\* The nodes that stored, and voted for, the hash the leader stored.
VotersOne(r) == {j \in Live : blockHash[r][j] = blockHash[r][leader[r]]}

\* handleSpbProposal, phase two: the leader has 2f+1 votes; i locks what it
\* stored.
Lock(i, r) ==
    /\ Active(i)
    /\ leader[r] \in Live
    /\ blockHash[r][leader[r]] # None
    /\ Quorum(VotersOne(r))
    /\ blockHash[r][i] # None
    /\ i \notin locked[r]
    /\ locked' = [locked EXCEPT ![r] = @ \cup {i}]
    /\ UNCHANGED <<leader, props, arrived, blockHash, finish, elected, voteVars, endVars>>

\* handleSpbVote at the leader: 2f+1 phase-two votes broadcast Finish.
SendFinish(r) ==
    /\ leader[r] \in Live
    /\ Active(leader[r])
    /\ finish[r] = None
    /\ Quorum(locked[r])
    /\ finish' = [finish EXCEPT ![r] = blockHash[r][leader[r]]]
    /\ UNCHANGED <<leader, props, arrived, blockHash, locked, elected, voteVars, endVars>>

\* The proposers whose SPB can have finished.
Finishers(r) ==
    {p \in Live : IF p = leader[r] THEN finish[r] # None ELSE props[r][p] # {}}

\* handleFinish, invokeDoneAndShare, handleDone, handleElectShare: with 2f+1
\* Finishes in a round, 2f+1 nodes send Done and their share of the coin.
\* DoneAggreator tests the low threshold first: nobody is ever ready when the
\* two coincide.
Elect(r) ==
    /\ HighFlag(HightThreshold)
    /\ r \notin elected
    /\ Quorum(Finishers(r))
    /\ Quorum({i \in Live : Active(i)})
    /\ elected' = elected \cup {r}
    /\ UNCHANGED <<leader, spbVars, voteVars, endVars>>

\* Halting on a Finish that comes after the prevote.
HaltOnFinish_mutantAfter(i, r) ==
    /\ Active(i)
    /\ r \in elected
    /\ finish[r] # None
    /\ prevote' = [prevote EXCEPT ![r][i] = IF @ = None THEN Skip ELSE @]
    /\ halts' = [halts EXCEPT ![r][i] = @ \cup {finish[r]}]
    /\ UNCHANGED <<leader, spbVars, elected, finvote, heard, endVars>>

\* processLeader, which gets past hasReady and Leader once: the leader's
\* Finish is there and i halts ...
HaltOnFinish(i, r) ==
    /\ Active(i)
    /\ r \in elected
    /\ prevote[r][i] = None
    /\ finish[r] # None
    /\ prevote' = [prevote EXCEPT ![r][i] = Skip]
    /\ halts' = [halts EXCEPT ![r][i] = @ \cup {finish[r]}]
    /\ UNCHANGED <<leader, spbVars, elected, finvote, heard, endVars>>

\* ... or it is not (yet), and i prevotes by its lock.
SendPrevote(i, r) ==
    /\ Active(i)
    /\ r \in elected
    /\ prevote[r][i] = None
    /\ prevote' = [prevote EXCEPT ![r][i] = IF i \in locked[r] THEN blockHash[r][i] ELSE No]
    /\ UNCHANGED <<leader, spbVars, elected, finvote, heard, halts, endVars>>

NoPrevotes(r) == {j \in Live : prevote[r][j] = No}

\* A NO FinVote after more than 2f+1 NO prevotes.
SendFinVote_mutantQuorum(i, r, v) ==
    /\ Active(i)
    /\ finvote[r][i] = None
    /\ IF v = No THEN Cardinality(NoPrevotes(r)) > HightThreshold
       ELSE \E j \in Live : prevote[r][j] = v
    /\ finvote' = [finvote EXCEPT ![r][i] = v]
    /\ UNCHANGED <<leader, spbVars, elected, prevote, heard, halts, endVars>>

\* handlePrevote: the first YES, or 2f+1 NO before any YES, makes a FinVote.
SendFinVote(i, r, v) ==
    /\ Active(i)
    /\ finvote[r][i] = None
    /\ IF v = No THEN Quorum(NoPrevotes(r)) ELSE \E j \in Live : prevote[r][j] = v
    /\ finvote' = [finvote EXCEPT ![r][i] = v]
    /\ UNCHANGED <<leader, spbVars, elected, prevote, heard, halts, endVars>>

-----------------------------------------------------------------------------
\* FinVoteAggreator: the counts over a set of FinVotes.
For(r, S, v) == {j \in S : finvote[r][j] = v}
Count(r, S, v) == Cardinality(For(r, S, v))

\* The FinVotes that can come in: 2f+1 at once, before which nothing can
\* happen, then one by one.
Deliveries(i, r) ==
    LET sent == {j \in Live : finvote[r][j] # None}
        some == IF heard[r][i] = {} THEN HightThreshold ELSE 1
    IN  {S \in SUBSET (sent \ heard[r][i]) : Cardinality(S) = some}

HearFinVotes(i, r, S) ==
    /\ Active(i)
    /\ S \in Deliveries(i, r)
    /\ heard' = [heard EXCEPT ![r][i] = @ \cup S]

\* 2f+1 YES for the hash of the last vote.
Commits(r, H, S, b) == For(r, S, b) # {} /\ Count(r, H, b) = HightThreshold

\* noNums == th, whoever voted last: true again for the next vote if that is
\* a YES.
AdvancesNo(r, H) == Count(r, H, No) = HightThreshold

\* The 2f+1st vote of a mixed quorum: a hash with the most YES votes.
AdvancesYes(r, H, b) ==
    /\ Cardinality(H) = HightThreshold
    /\ Count(r, H, b) > 0
    /\ \A c \in Block : Count(r, H, c) <= Count(r, H, b)

\* advanceNextRound: propose b in the next round, up to the bound.
Advance(i, r, b) ==
    props' = IF r < MaxRound THEN [props EXCEPT ![r + 1][i] = @ \cup {b}] ELSE props

\* handleFinvote, ACTION_COMMIT: send Halt.
FinVoteCommit(i, r, S) ==
    LET H == heard[r][i] \cup S
    IN  /\ HearFinVotes(i, r, S)
        /\ \E b \in Block : /\ Commits(r, H, S, b)
                            /\ halts' = [halts EXCEPT ![r][i] = @ \cup {b}]
        /\ UNCHANGED <<leader, spbVars, elected, prevote, finvote, endVars>>

\* The zero hash when i's own instance has none.
OwnBlocks_mutantNil(i, r) ==
    IF leader[r] = i /\ blockHash[r][i] # None THEN {blockHash[r][i]}
    ELSE props[r][i] \cup {None}

\* handleFinvote, ACTION_NO: the block of i's own instance, or, when i did not
\* propose or its own proposal still waits in recvCh, a fresh frontier.
OwnBlocks(i, r) ==
    IF leader[r] = i /\ blockHash[r][i] # None THEN {blockHash[r][i]}
    ELSE props[r][i] \cup {Fresh(i, r + 1)}

FinVoteNo(i, r, S) ==
    LET H == heard[r][i] \cup S
    IN  /\ HearFinVotes(i, r, S)
        /\ AdvancesNo(r, H)
        /\ ~\E b \in Block : Commits(r, H, S, b)
        /\ \E b \in OwnBlocks(i, r) : Advance(i, r, b)
        /\ UNCHANGED <<leader, arrived, blockHash, locked, finish, elected,
                       prevote, finvote, halts, endVars>>

\* Keeping the own block when some FinVotes are YES.
FinVoteYes_mutantOwn(i, r, S) ==
    LET H == heard[r][i] \cup S
    IN  /\ HearFinVotes(i, r, S)
        /\ \E b \in Block : AdvancesYes(r, H, b) /\ ~Commits(r, H, S, b)
        /\ \E b \in props[r][i] : Advance(i, r, b)
        /\ UNCHANGED <<leader, arrived, blockHash, locked, finish, elected,
                       prevote, finvote, halts, endVars>>

\* handleFinvote, ACTION_YES: adopt the hash if its block is in the store, else
\* propose a fresh frontier.
FinVoteYes(i, r, S) ==
    LET H == heard[r][i] \cup S
    IN  /\ HearFinVotes(i, r, S)
        /\ \E b \in Block :
              /\ AdvancesYes(r, H, b)
              /\ ~Commits(r, H, S, b)
              /\ \/ MayFind(i, b) /\ Advance(i, r, b)
                 \/ MayMiss(i, b) /\ Advance(i, r, Fresh(i, r + 1))
        /\ UNCHANGED <<leader, arrived, blockHash, locked, finish, elected,
                       prevote, finvote, halts, endVars>>

\* handleFinvote, ACTION_NONE.
FinVoteNone(i, r, S) ==
    LET H == heard[r][i] \cup S
    IN  /\ HearFinVotes(i, r, S)
        /\ Cardinality(H) > HightThreshold
        /\ ~AdvancesNo(r, H)
        /\ ~\E b \in Block : Commits(r, H, S, b)
        /\ UNCHANGED <<leader, spbVars, elected, prevote, finvote, halts, endVars>>

HandleFinvote(i, r, S) ==
    \/ FinVoteCommit(i, r, S)
    \/ FinVoteNo(i, r, S)
    \/ FinVoteYes(i, r, S)
    \/ FinVoteNone(i, r, S)

-----------------------------------------------------------------------------
\* HaltAggreator: who sent Halt for b in round r.
Halters(r, b) == {j \in Live : b \in halts[r][j]}

\* handleHalt and handleOutput: the epoch is over; the block is committed if
\* the store has it.
HandleHalt(i, r, b) ==
    /\ Active(i)
    /\ Quorum(Halters(r, b))
    /\ output' = [output EXCEPT ![i] =
                    [round |-> r, block |-> b, leaders |-> elected \cup {r}]]
    /\ \/ MayFind(i, b) /\ committed' = [committed EXCEPT ![i] = @ \cup {b}]
       \/ MayMiss(i, b) /\ UNCHANGED committed
    /\ UNCHANGED <<leader, spbVars, elected, voteVars>>

\* handleSpbProposal after Halt: a late proposal of a leader i knows is
\* committed, be it of the round that decided (SetLeader) or of another one
\* whose shares i had counted, ready or not, when the epoch ended.
HandleLateProposal(i, r, b) ==
    /\ ~Active(i)
    /\ b \in LeaderProps(r) \ arrived[r][i]
    /\ r \in output[i].leaders
    /\ arrived' = [arrived EXCEPT ![r][i] = @ \cup {b}]
    /\ committed' = [committed EXCEPT ![i] = @ \cup {b}]
    /\ UNCHANGED <<leader, props, blockHash, locked, finish, elected, voteVars, output>>

-----------------------------------------------------------------------------
Next ==
    \/ \E i \in Live : TrytoStartMVBA(i)
    \/ \E r \in Round : SendFinish(r) \/ Elect(r)
    \/ \E i \in Live, r \in Round :
          \/ Lock(i, r)
          \/ HaltOnFinish(i, r)
          \/ SendPrevote(i, r)
          \/ \E v \in Block \cup {No} : SendFinVote(i, r, v)
          \/ \E S \in Deliveries(i, r) : HandleFinvote(i, r, S)
          \/ \E b \in Block : \/ HandleSpbProposal(i, r, b)
                              \/ HandleHalt(i, r, b)
                              \/ HandleLateProposal(i, r, b)

Spec == Init /\ [][Next]_vars

\* Messages that were sent arrive, and every node handles what arrived.  The
\* coin and the SPB of the leader are not among what must happen.
Fairness ==
    \A i \in Live, r \in Round :
        /\ WF_vars(HaltOnFinish(i, r) \/ SendPrevote(i, r))
        /\ WF_vars(\E v \in Block \cup {No} : SendFinVote(i, r, v))
        /\ WF_vars(\E S \in Deliveries(i, r) : HandleFinvote(i, r, S))
        /\ WF_vars(\E b \in Block : HandleHalt(i, r, b))

FairSpec == Spec /\ Fairness

-----------------------------------------------------------------------------
(* Type invariant. *)
TypeOK ==
    /\ leader \in [Round -> Node]
    /\ props \in [Round -> [Live -> SUBSET Block]]
    /\ arrived \in [Round -> [Live -> SUBSET Block]]
    /\ blockHash \in [Round -> [Live -> Block \cup {None}]]
    /\ locked \in [Round -> SUBSET Live]
    /\ finish \in [Round -> Block \cup {None}]
    /\ elected \subseteq Round
    /\ prevote \in [Round -> [Live -> Block \cup {None, No, Skip}]]
    /\ finvote \in [Round -> [Live -> Block \cup {None, No}]]
    /\ heard \in [Round -> [Live -> SUBSET Live]]
    /\ halts \in [Round -> [Live -> SUBSET Block]]
    /\ output \in [Live -> [round : Round, block : Block, leaders : SUBSET Round] \cup {None}]
    /\ committed \in [Live -> SUBSET Block]

\* 2f+1 nodes sent Halt for b in round r: the epoch may end with b.
Decided(r, b) == Quorum(Halters(r, b))

\* FinVotes made advanceNextRound run at most once for the leader of round r.
OneProposal(r) == \A b, c \in LeaderProps(r) : b = c

(***************************************************************************)
(* A round that decides and a round in which 2f+1 nodes vote NO exclude    *)
(* each other: a Halt comes from a quorum of YES votes or instead of a     *)
(* prevote, and then there are not enough prevotes left for a NO.          *)
(***************************************************************************)
DecisionExcludesNo ==
    \A r \in Round :
        (\E b \in Block : Decided(r, b)) => ~Quorum(For(r, Live, No))

(***************************************************************************)
(* Once a round has decided, everything proposed for the next round is the *)
(* decided block, but for the fresh frontiers of nodes that miss it.       *)
(***************************************************************************)
DecisionAdopted ==
    \A r \in Round, b \in Block :
        r + 1 \in Round /\ Decided(r, b) /\ OneProposal(r)
            => \A i \in Live : props[r + 1][i] \subseteq {b, Fresh(i, r + 1)}

(***************************************************************************)
(* The output of sMVBA is one value decided by all honest nodes (README of *)
(* 013).                                                                   *)
(***************************************************************************)
Agreement ==
    \A i, j \in Live :
        output[i] # None /\ output[j] # None => output[i].block = output[j].block

\* In no round after one that decided is a fresh frontier proposed.
NothingForgotten ==
    \A r, s \in Round, b \in Block, i \in Live :
        r < s /\ Decided(r, b) => Fresh(i, s) \notin props[s][i]

(***************************************************************************)
(* Agreement holds as long as no leader proposes twice in a round and no   *)
(* node forgets a decided block: these two behaviours of advanceNextRound  *)
(* are all that can break it.                                              *)
(***************************************************************************)
AgreementUnlessForgotten ==
    (\A r \in Round : OneProposal(r)) /\ NothingForgotten => Agreement

(***************************************************************************)
(* The blocks decided by SMVBA are what is committed (README of 014).      *)
(***************************************************************************)
CommitsDecided ==
    \A i \in Live : output[i] # None => committed[i] \subseteq {output[i].block}

(***************************************************************************)
(* A round whose leader is known ends at every node: with a Halt quorum,   *)
(* or with a quorum of FinVotes that moves it to the next round (README of *)
(* 013: every honest node decides).                                        *)
(***************************************************************************)
Ended(i, r) == output[i] # None \/ heard[r][i] # {}

RoundEnds ==
    \A r \in Round : r \in elected ~> \A i \in Live : Ended(i, r)
=============================================================================
