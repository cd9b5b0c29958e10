------------------------------- MODULE MCSPB -------------------------------
(* Instances of SPB for TLC. *)
EXTENDS SPB, TLC

\* The value proposed first; the values are interchangeable.
First == CHOOSE v \in Value : TRUE

(***************************************************************************)
(* Reachable states to start from when a run is about a second phase-one   *)
(* proposal of the same round: the first one was stored and voted for, and *)
(* the second ignored, by all nodes but a slow one, which received neither *)
(* yet.  The votes were counted and phase two was broadcast; the           *)
(* proposer's goroutine for the second one has not started.  The other     *)
(* nodes are interchangeable, so one of them is slow.                      *)
(***************************************************************************)
SecondProposal ==
    LET slow == CHOOSE i \in Live : i # Proposer
        stored == Live \ {slow}
    IN  /\ proposed = Value
        /\ BlockHash = [i \in Live |-> IF i \in stored THEN First ELSE NoHash]
        /\ at = [m \in Message |->
              IF m \in ProposalOne
              THEN IF m.to = slow \/ (m.value # First /\ m.to = Proposer) THEN "sent" ELSE "done"
              ELSE IF m \in VoteOne /\ m.from \in stored /\ m.value = First THEN "done"
              ELSE IF m \in ProposalTwo THEN "sent" ELSE "none"]
        /\ Voters = [phase \in {SPB_ONE_PHASE, SPB_TWO_PHASE} |->
              IF phase = SPB_ONE_PHASE THEN stored ELSE {}]
        /\ LockFlag = [i \in Live |-> FALSE]
        /\ Finish = NoHash
        /\ loaded = [j \in Live |-> NoHash]

\* One proposal from the start on, or the second one as above.
EitherSpec == (Init \/ SecondProposal) /\ [][Next]_vars /\ Fairness

\* The bound of the run: no other second proposal.
FirstOnly == proposed' # proposed => proposed' = {First}
=============================================================================
