---------------------------- MODULE MCDataPlane ----------------------------
(***************************************************************************)
(* Instances of DataPlane for TLC.  Four chains that grow at once are too  *)
(* much for it: each run starts from reachable states further on.  What a  *)
(* node sends to another one arrives in order, messages of the control     *)
(* plane included, so none of these states has a node act on a message     *)
(* while an earlier one of the same sender is still under way (but for     *)
(* votes for the last block, which the bound MaxHeight leaves over).       *)
(***************************************************************************)
EXTENDS DataPlane, TLC

\* Live and silent nodes are interchangeable among themselves.
Symmetry == Permutations(Live) \cup Permutations(Silent)

Upto(h) == [p \in Node |-> h]

\* No epoch has ended and nothing is lost yet.
FirstEpoch ==
    /\ losses = 0
    /\ OrderedCert = [i \in Node |-> Upto(0)]
    /\ Epoch = [i \in Node |-> 0]
    /\ HaltFlags = [i \in Node |-> {}]
    /\ committed = [i \in Node |-> [p \in Node |-> {}]]
    /\ loopback = [i \in Node |-> FALSE]

(***************************************************************************)
(* One chain is still to grow: the goroutine that broadcasts the first     *)
(* block of the node late is the last to run.  The other chains are        *)
(* complete, the chain of far came last, so that it was proposed to SMVBA  *)
(* with its first block; the last two blocks of that chain are still on    *)
(* their way to late, which therefore has not started SMVBA.               *)
(***************************************************************************)
OneChain ==
    \E late, far \in Live :
        LET others == Live \ {late}
            to(i, p, f, g) == IF i = late /\ p = far THEN g ELSE f
            chain(p, h, none) == IF p = late THEN none ELSE h
            tips == [p \in Node |-> chain(p, MaxHeight - 1, 0)]
        IN  /\ far # late
            /\ Height = [p \in Node |-> chain(p, MaxHeight, 0)]
            /\ CurrentCert = [i \in Node |-> [p \in Node |-> to(i, p, tips[p], tips[p] - 2)]]
            /\ BlockHashMap = [i \in Node |-> [p \in Node |->
                  chain(p, to(i, p, Heights, 1 .. MaxHeight - 2), {})]]
            /\ blocks = [p \in Node |-> [i \in Node |->
                  to(i, p, <<>>, <<MaxHeight - 1, MaxHeight>>)]]
            /\ blockVotes = [i \in Node |-> [h \in Heights |->
                  chain(i, IF h < MaxHeight THEN others
                           ELSE {i} \cup {j \in {late} : i # far}, {})]]
            /\ votes = {v \in Vote : /\ v.height = MaxHeight /\ v.from # v.to
                                     /\ {v.from, v.to} \subseteq others}
            /\ smvbaflag = [i \in Node |-> i # late]
            /\ smvbaBlocks = [author : others, epoch : {0}, frontier : {[tips EXCEPT ![far] = 1]}]
    /\ decision = [e \in Epochs |-> {}]
    /\ FirstEpoch

(***************************************************************************)
(* SMVBA just decided the frontier of height one that three nodes had      *)
(* proposed, and no node knows it yet; every third block was sent, and has *)
(* been received and voted for, but by a slow node.  The fourth node has   *)
(* not begun, and handled nothing.                                         *)
(***************************************************************************)
FirstEpochDecided ==
    \E slow, resting \in Live :
        LET awake == Live \ {resting}
            fast == awake \ {slow}
            upto(h) == [p \in Node |-> IF p = resting THEN 0 ELSE h]
        IN  /\ slow # resting
            /\ Height = upto(3)
            /\ CurrentCert = [i \in Node |-> IF i = resting THEN Upto(0)
                                             ELSE IF i = slow THEN upto(1) ELSE upto(2)]
            /\ BlockHashMap = [i \in Node |-> [p \in Node |->
                  IF resting \in {i, p} THEN {} ELSE IF i = slow THEN {1, 2} ELSE {1, 2, 3}]]
            /\ blockVotes = [i \in Node |-> [h \in Heights |->
                  IF i = resting THEN {} ELSE IF h \in {1, 2} THEN awake ELSE fast]]
            /\ blocks = [p \in Node |-> [i \in Node |->
                  IF p = resting THEN <<>> ELSE IF i = resting THEN <<1, 2, 3>>
                  ELSE IF i = slow THEN <<3>> ELSE <<>>]]
            /\ smvbaflag = [i \in Node |-> i # resting]
            /\ smvbaBlocks = [author : awake, epoch : {0}, frontier : {upto(1)}]
            /\ decision = [e \in Epochs |-> IF e = 0 THEN {upto(1)} ELSE {}]
    /\ votes = {}
    /\ FirstEpoch

Begun(i) == Height[i] > 0

\* The bounds of the first of these starts: no epoch is decided, and the votes
\* left over are not lost.
NothingDecided ==
    /\ UNCHANGED decision
    /\ ~ProposedAgain(0)'
    /\ {v \in votes : Height[v.to] = MaxHeight /\ v.height = MaxHeight} \subseteq votes'

\* The bounds of the second one: the node that rests goes on resting, no fresh
\* frontier is proposed for the first epoch any more, what is lost is lost
\* before it ends, and then no fresh frontier is proposed for the second one
\* either, nor is one before every block arrived.
FirstEpochOver ==
    /\ \A i \in Live : Begun(i)' => Begun(i)
    /\ \A p, i \in Live : ~Begun(i) => UNCHANGED <<blocks[p][i], HaltFlags[i]>>
    /\ \A b \in smvbaBlocks' \ smvbaBlocks : b.epoch > 0 /\ Begun(b.author)
    /\ losses' > losses => \A i \in Live : HaltFlags[i] = {}
    /\ losses > 0 => \A e \in Epochs : ~ProposedAgain(e)'
    /\ ProposedAgain(1)' =>
          ProposedAgain(1) \/ \A p, i \in Live : Begun(i) => blocks[p][i] = <<>>

EitherBound == IF decision[0] = {} THEN NothingDecided ELSE FirstEpochOver

EpochsSpec == (OneChain \/ FirstEpochDecided) /\ [][Next]_vars

(***************************************************************************)
(* Every node sent two blocks, and all arrived but those of one node at a  *)
(* slow one.  A quorum without that node proposed what it had certified    *)
(* when the third chain grew, and can decide without hearing from it.      *)
(***************************************************************************)
SlowNode ==
    \E slow, last \in Live :
        LET others == Live \ {slow, last}
            late(i, p, f, g) == IF i = slow /\ p = last THEN g ELSE f
            cert == [i \in Node |-> [p \in Node |-> late(i, p, 1, 0)]]
        IN  /\ slow # last
            /\ Height = Upto(2)
            /\ CurrentCert = cert
            /\ BlockHashMap = [i \in Node |-> [p \in Node |-> late(i, p, {1, 2}, {})]]
            /\ blockVotes = [i \in Node |-> [h \in Heights |->
                  IF h = 2 THEN others ELSE IF i = slow THEN Live \ {last} ELSE Live \ {slow}]]
            /\ blocks = [p \in Node |-> [i \in Node |-> late(i, p, <<>>, <<1, 2>>)]]
            /\ votes = {v \in Vote : /\ v.height = 2 => v.from \notin others
                                     /\ v.height = 1 => v.from = last /\ v.to = slow
                                     /\ v.from = slow => v.to # last}
            /\ smvbaBlocks = {[author |-> i, epoch |-> 0,
                                frontier |-> [cert[i] EXCEPT ![IF i = slow THEN last ELSE slow] = 0]] :
                               i \in Live \ {last}}
    /\ smvbaflag = [i \in Node |-> TRUE]
    /\ decision = [e \in Epochs |-> {}]
    /\ FirstEpoch

SlowNodeSpec == SlowNode /\ [][Next]_vars
=============================================================================
