------------------------------ MODULE MCRounds ------------------------------
(***************************************************************************)
(* Instances of Rounds for TLC.  A whole epoch of four live nodes is too   *)
(* much for TLC, so most runs start from reachable states further on,      *)
(* described by the leader's SPB instance and the votes of each round.     *)
(***************************************************************************)
EXTENDS Rounds, TLC

CONSTANTS First,      \* the leader of round 0 in those states
          MaxOutputs  \* bound: nodes that may end the epoch

Symmetry == Permutations(Live \ {First}) \cup Permutations(Silent)

FewOutputs == Cardinality({i \in Live : output'[i] # None}) <= MaxOutputs

\* The bound of the runs about round 0: proposals for round 1 are made, and
\* left alone.
FirstRoundOnly ==
    /\ elected' \subseteq {0}
    /\ \A r \in Round \ {0}, i \in Live : blockHash'[r][i] = None

\* The bound of the runs about late proposals: the SPB instances rest.
SpbOver == UNCHANGED locked

\* The bound that follows a block from one round to the next: the FinVotes of
\* round 0 come before the leader of round 1 advances, its SPB goes on stage by
\* stage, and every node that has not ended the epoch gets its Finish.
HaltsOnly ==
    /\ UNCHANGED finvote
    /\ heard'[1] = heard[1]
    /\ props[1][leader[1]] # {} => heard'[0] = heard[0]
    /\ locked[1] # {} \/ 1 \in elected => arrived'[1] = arrived[1]
    /\ locked'[1] # {} => \A i \in Live : output[i] = None => blockHash[1][i] # None
    /\ finish[1] # None => locked' = locked
    /\ \A i \in Live : prevote'[1][i] \in {None, Skip}

\* The bounds of the run about votes, one for each kind of start: First leads
\* round 1, which nobody enters, and no node ends the epoch; or a few nodes do.
EitherBound ==
    IF leader[1] = First
    THEN FirstRoundOnly /\ \A i \in Live : output'[i] = None
    ELSE /\ FewOutputs
         /\ \A r \in elected : locked'[r] = locked[r]
         /\ finvote[1][First] = None => HaltsOnly

\* Per round, the leader's block, who stored it and who locked it.
Spb(block, stored, lockers) == [block |-> block, stored |-> stored, lockers |-> lockers]

\* No output yet; the SPB instances of the leaders are spb[r], and those that
\* 2f+1 nodes locked have finished.
Reached(leaders, spb) ==
    /\ leader = leaders
    /\ arrived = [r \in Round |-> [i \in Live |->
          IF i \in spb[r].stored THEN {spb[r].block} ELSE {}]]
    /\ blockHash = [r \in Round |-> [i \in Live |->
          IF i \in spb[r].stored THEN spb[r].block ELSE None]]
    /\ locked = [r \in Round |-> spb[r].lockers]
    /\ finish = [r \in Round |-> IF Quorum(spb[r].lockers) THEN spb[r].block ELSE None]
    /\ output = [i \in Live |-> None]
    /\ committed = [i \in Live |-> {}]

Nothing(x) == [r \in Round |-> [i \in Live |-> x]]
OnlyRound0(f, x) == [r \in Round |-> [i \in Live |-> IF r = 0 THEN f[i] ELSE x]]

\* Round 0 is elected: every node proposed and has the leader's block.
Elected(lockers) ==
    /\ Reached([r \in Round |-> First],
               [r \in Round |-> IF r = 0 THEN Spb(Fresh(First, 0), Live, lockers)
                                ELSE Spb(None, {}, {})])
    /\ props = OnlyRound0([i \in Live |-> {Fresh(i, 0)}], {})
    /\ elected = {0}
    /\ heard = Nothing({})

\* f+1 nodes were quick, and prevoted NO before they locked; then the leader's
\* SPB went on to its end.
QuickSpec ==
    /\ Elected(Live)
    /\ LET quick == CHOOSE S \in SUBSET (Live \ {First}) : Cardinality(S) = LowThreshold
       IN prevote = OnlyRound0([i \in Live |-> IF i \in quick THEN No ELSE None], None)
    /\ finvote = Nothing(None)
    /\ halts = Nothing({})
    /\ [][Next]_vars
    /\ Fairness

\* Everybody voted, in every way the prevotes allow.
Voted ==
    /\ Elected(Live)
    /\ \E pre \in [Live -> {Fresh(First, 0), No, Skip}] :
          /\ prevote = OnlyRound0(pre, None)
          /\ \E fin \in [Live -> {v \in {Fresh(First, 0), No} :
                    IF v = No THEN Quorum({j \in Live : pre[j] = No})
                    ELSE \E j \in Live : pre[j] = v}] :
                finvote = OnlyRound0(fin, None)
          /\ halts = OnlyRound0([i \in Live |-> IF pre[i] = Skip THEN {Fresh(First, 0)} ELSE {}], {})

(***************************************************************************)
(* Round 0 ended with NO and nobody locked; all advanced, everybody locked *)
(* in round 1, and all but First had the Finish of its leader and sent     *)
(* Halt.  What First sends to the slow node is late: the slow node still   *)
(* waits for its proposal of round 0, and acted on the others' messages.   *)
(***************************************************************************)
Late ==
    /\ \E slow, second \in Live \ {First} :
       /\ slow # second
       /\ Reached([r \in Round |-> IF r = 0 THEN First ELSE second],
                  [r \in Round |-> IF r = 0 THEN Spb(Fresh(First, 0), Live \ {slow}, {})
                                   ELSE Spb(Fresh(second, 0), Live, Live)])
       /\ prevote = [r \in Round |-> [i \in Live |->
             IF r = 0 THEN No ELSE IF i # First THEN Skip ELSE Fresh(second, 0)]]
       /\ halts = [r \in Round |-> [i \in Live |->
             IF r > 0 /\ i # First THEN {Fresh(second, 0)} ELSE {}]]
       /\ finvote = [r \in Round |-> [i \in Live |->
             IF r = 0 THEN No ELSE IF i # slow THEN Fresh(second, 0) ELSE None]]
       /\ heard = OnlyRound0([i \in Live |-> IF i = slow THEN Live \ {First} ELSE Live], {})
    /\ props = [r \in Round |-> [i \in Live |-> {Fresh(i, 0)}]]
    /\ elected = {0, 1}

LateSpec == Late /\ [][Next]_vars

(***************************************************************************)
(* In round 0 one node (yes) was locked and prevoted YES; another (no) had *)
(* counted 2f+1 NO before it heard that.  A slow node has what everybody   *)
(* but the leader sent, so it misses the leader's block; it will lead      *)
(* round 1.  First and no counted a mixed quorum of FinVotes, yes counted  *)
(* 2f+1 YES; the slow node counted a mixed one as well if advanced.        *)
(***************************************************************************)
Adopted(advanced) ==
    /\ \E slow, yes, no \in Live \ {First} :
          /\ Cardinality({slow, yes, no}) = 3
          /\ Reached([r \in Round |-> IF r = 0 THEN First ELSE slow],
                     [r \in Round |-> IF r = 0 THEN Spb(Fresh(First, 0), Live \ {slow}, {yes})
                                      ELSE Spb(None, {}, {})])
          /\ props = [r \in Round |-> [i \in Live |->
                IF r = 0 THEN {Fresh(i, 0)}
                ELSE IF i = slow THEN (IF advanced THEN {Fresh(slow, 1)} ELSE {})
                ELSE IF i = yes THEN {} ELSE {Fresh(First, 0)}]]
          /\ prevote = OnlyRound0([i \in Live |-> IF i = yes THEN Fresh(First, 0) ELSE No], None)
          /\ finvote = OnlyRound0([i \in Live |-> IF i = no THEN No ELSE Fresh(First, 0)], None)
          /\ heard = OnlyRound0([i \in Live |->
                IF i = no THEN Live \ {slow} ELSE IF i = yes THEN Live
                ELSE IF i = slow /\ ~advanced THEN {} ELSE Live \ {First}], {})
          /\ halts = OnlyRound0([i \in Live |-> IF i = yes THEN {Fresh(First, 0)} ELSE {}], {})
    /\ elected = {0}

\* The slow node proposed a fresh frontier ...
ForgottenSpec == Adopted(TRUE) /\ [][Next]_vars

\* ... or is still to adopt, or to miss, the block.
VotesSpec == (Voted \/ Late \/ Adopted(FALSE)) /\ [][Next]_vars
=============================================================================
