-------------------------- MODULE DataPlaneProofs --------------------------
(***************************************************************************)
(* Proofs about the data plane, for every committee and every bound.       *)
(*                                                                         *)
(* CertSound is not inductive: what carries it is that a proposer only     *)
(* moves past a height once a quorum stored its block (ChainCertified),    *)
(* which in turn needs every vote, counted or on its way, to come from a   *)
(* node that stored the block, and no block to be known, on its way or     *)
(* certified above the height its proposer reached.                        *)
(***************************************************************************)
EXTENDS DataPlane, CommitteeProofs

-----------------------------------------------------------------------------
(* Type correctness. *)

LEMMA TrytoStartType ==
    ASSUME TypeOK, NEW i \in Node, NEW cc \in Frontier, NEW oc \in Frontier,
           NEW running \in BOOLEAN, NEW e \in 0 .. MaxEpoch,
           TrytoStartMVBA(i, cc, oc, running, e)
    PROVE  /\ smvbaflag' \in [Node -> BOOLEAN]
           /\ smvbaBlocks' \subseteq SMVBABlock
<1>1. smvbaflag' \in [Node -> BOOLEAN]
  BY DEF TypeOK, TrytoStartMVBA
<1>2. [author |-> i, epoch |-> e, frontier |-> cc] \in SMVBABlock
  BY DEF SMVBABlock
<1>3. smvbaBlocks' \subseteq SMVBABlock
  BY <1>2 DEF TypeOK, TrytoStartMVBA
<1>4. QED
  BY <1>1, <1>3

LEMMA SendType ==
    ASSUME TypeOK, NEW i \in Node, NEW h \in Heights, NEW self \in BOOLEAN,
           Send(i, h, self)
    PROVE  blocks' \in [Node -> [Node -> Seq(Heights)]]
<1>1. \A j \in Node : Append(blocks[i][j], h) \in Seq(Heights)
  BY DEF TypeOK
<1>2. QED
  BY <1>1 DEF TypeOK, Send

LEMMA CommitType ==
    ASSUME TypeOK, NEW i \in Node, NEW f \in Frontier, Commit(i, f)
    PROVE  /\ committed' \in [Node -> [Node -> SUBSET Heights]]
           /\ OrderedCert' \in [Node -> Frontier]
           /\ Advanced(OrderedCert[i], f) \in Frontier
<1>1. \A p \in Node : Deliverable(i, p, f) \subseteq Heights
  BY DEF TypeOK, Deliverable
<1>2. Advanced(OrderedCert[i], f) \in Frontier
  BY DEF TypeOK, Advanced, Frontier
<1>3. QED
  BY <1>1, <1>2 DEF TypeOK, Commit

LEMMA TypeInit == Init => TypeOK
  BY BoundsAssumption
     DEF Init, TypeOK, Frontier, Heights, Epochs, Vote, SMVBABlock

LEMMA TypeNext == TypeOK /\ [Next]_vars => TypeOK'
<1> SUFFICES ASSUME TypeOK, [Next]_vars
             PROVE  TypeOK'
  OBVIOUS
<1> USE BoundsAssumption
<1> Live \subseteq Node
  BY DEF Live
<1>1. ASSUME NEW i \in Live, BroadcastFirst(i)
      PROVE  TypeOK'
  <2>1. 1 \in Heights
    BY DEF Heights
  <2>2. blocks' \in [Node -> [Node -> Seq(Heights)]]
    BY <1>1, <2>1, SendType DEF BroadcastFirst
  <2>3. Height' \in [Node -> 0 .. MaxHeight]
    BY <1>1 DEF BroadcastFirst, TypeOK
  <2>4. QED
    BY <1>1, <2>2, <2>3 DEF BroadcastFirst, TypeOK, controlVars
<1>2. ASSUME NEW i \in Live, LoopbackFirst(i)
      PROVE  TypeOK'
  <2>1. 1 \in Heights
    BY DEF Heights
  <2>2. Append(blocks[i][i], 1) \in Seq(Heights)
    BY <2>1 DEF TypeOK
  <2>3. QED
    BY <1>2, <2>2 DEF LoopbackFirst, TypeOK, controlVars
<1>3. ASSUME NEW i \in Live, NEW p \in Live, HandleBlockMessage(i, p)
      PROVE  TypeOK'
  <2> DEFINE h == Head(blocks[p][i])
             cc == [CurrentCert[i] EXCEPT ![p] = h - 1]
  <2>1. h \in Heights /\ Tail(blocks[p][i]) \in Seq(Heights)
    BY <1>3 DEF HandleBlockMessage, NewCert, TypeOK
  <2>2. cc \in Frontier
    <3>1. CurrentCert[i] \in [Node -> 0 .. MaxHeight]
      BY DEF TypeOK, Frontier
    <3>2. h - 1 \in 0 .. MaxHeight
      <4> HIDE DEF h
      <4> QED BY <2>1 DEF Heights
    <3>3. QED
      BY <3>1, <3>2 DEF Frontier
  <2>3. TrytoStartMVBA(i, cc, OrderedCert[i], smvbaflag[i], Epoch[i])
    BY <1>3 DEF HandleBlockMessage, NewCert
  <2>4. /\ smvbaflag' \in [Node -> BOOLEAN]
        /\ smvbaBlocks' \subseteq SMVBABlock
    <3> HIDE DEF cc
    <3> OrderedCert[i] \in Frontier /\ smvbaflag[i] \in BOOLEAN /\ Epoch[i] \in 0 .. MaxEpoch
      BY DEF TypeOK
    <3> QED BY <2>2, <2>3, TrytoStartType
  <2>5. CurrentCert' \in [Node -> Frontier]
    BY <1>3, <2>2 DEF HandleBlockMessage, NewCert, TypeOK
  <2>6. BlockHashMap' \in [Node -> [Node -> SUBSET Heights]]
    BY <1>3, <2>1 DEF HandleBlockMessage, NewCert, TypeOK
  <2>7. votes' \subseteq Vote
    BY <1>3, <2>1 DEF HandleBlockMessage, NewCert, TypeOK, Vote
  <2>8. blocks' \in [Node -> [Node -> Seq(Heights)]]
    BY <1>3, <2>1 DEF HandleBlockMessage, NewCert, TypeOK
  <2>9. QED
    BY <1>3, <2>4, <2>5, <2>6, <2>7, <2>8 DEF HandleBlockMessage, NewCert, TypeOK
<1>4. ASSUME NEW i \in Live, HandleVoteForBlock(i)
      PROVE  TypeOK'
  <2>1. PICK v \in votes :
            /\ v.to = i
            /\ votes' = votes \ {v}
            /\ DropVote(i, v) \/ CountVote(i, v) \/ CertifyBlock(i, v)
            /\ UNCHANGED <<loopback, CurrentCert, BlockHashMap, losses, controlVars>>
    BY <1>4 DEF HandleVoteForBlock
  <2>2. v \in Vote /\ v.height \in Heights /\ v.from \in Node
    BY DEF TypeOK, Vote
  <2>3. CASE DropVote(i, v)
    BY <2>1, <2>3 DEF DropVote, TypeOK, controlVars
  <2>4. CASE CountVote(i, v)
    <3>1. blockVotes' \in [Node -> [Heights -> SUBSET Node]]
      BY <2>2, <2>4 DEF CountVote, TypeOK
    <3>2. QED
      BY <2>1, <2>4, <3>1 DEF CountVote, TypeOK, controlVars
  <2>5. CASE CertifyBlock(i, v)
    <3>1. Height[i] \in 0 .. MaxHeight /\ Height[i] + 1 \in Heights
      BY <2>5 DEF CertifyBlock, TypeOK, Heights
    <3>2. blocks' \in [Node -> [Node -> Seq(Heights)]]
      BY <2>5, <3>1, SendType DEF CertifyBlock
    <3>3. Height' \in [Node -> 0 .. MaxHeight]
      BY <2>5, <3>1 DEF CertifyBlock, TypeOK, Heights
    <3>4. blockVotes' \in [Node -> [Heights -> SUBSET Node]]
      BY <2>2, <2>5 DEF CertifyBlock, TypeOK
    <3>5. QED
      BY <2>1, <3>2, <3>3, <3>4 DEF TypeOK, controlVars
  <2>6. QED
    BY <2>1, <2>3, <2>4, <2>5
<1>5. ASSUME NEW i \in Live, NEW p \in Live, LoseBlock(p, i)
      PROVE  TypeOK'
  <2>1. Tail(blocks[p][i]) \in Seq(Heights)
    BY <1>5 DEF LoseBlock, TypeOK
  <2>2. losses' \in 0 .. MaxLosses
    BY <1>5 DEF LoseBlock, TypeOK
  <2>3. blocks' \in [Node -> [Node -> Seq(Heights)]]
    BY <1>5, <2>1 DEF LoseBlock, TypeOK
  <2>4. QED
    BY <1>5, <2>2, <2>3 DEF LoseBlock, TypeOK, dataVars, controlVars
<1>6. ASSUME NEW v \in votes, LoseVote(v)
      PROVE  TypeOK'
  BY <1>6 DEF LoseVote, TypeOK, dataVars, controlVars
<1>7. ASSUME NEW e \in Epochs, Decide(e)
      PROVE  TypeOK'
  <2>1. PICK b \in BlocksOf(e) : decision' = [decision EXCEPT ![e] = @ \cup {b.frontier}]
    BY <1>7 DEF Decide
  <2>2. b.frontier \in Frontier
    BY DEF BlocksOf, TypeOK, SMVBABlock
  <2>3. decision' \in [Epochs -> SUBSET Frontier]
    BY <2>1, <2>2 DEF TypeOK
  <2>4. QED
    BY <1>7, <2>3 DEF Decide, TypeOK, dataVars, netVars
<1>8. ASSUME NEW i \in Live, ProposeAgain(i)
      PROVE  TypeOK'
  <2>1. [author |-> i, epoch |-> Epoch[i], frontier |-> CurrentCert[i]] \in SMVBABlock
    BY DEF SMVBABlock, TypeOK
  <2>2. QED
    BY <1>8, <2>1 DEF ProposeAgain, TypeOK, dataVars, netVars
<1>9. ASSUME NEW i \in Live, NEW e \in Epochs, HandleHalt(i, e)
      PROVE  TypeOK'
  <2>1. PICK f \in decision[e] :
            /\ Commit(i, f)
            /\ TrytoStartMVBA(i, CurrentCert[i], Advanced(OrderedCert[i], f), FALSE, e + 1)
    BY <1>9 DEF HandleHalt
  <2>2. f \in Frontier /\ CurrentCert[i] \in Frontier
    BY DEF TypeOK
  <2>3. /\ committed' \in [Node -> [Node -> SUBSET Heights]]
        /\ OrderedCert' \in [Node -> Frontier]
        /\ Advanced(OrderedCert[i], f) \in Frontier
    BY <2>1, <2>2, CommitType
  <2>4. e + 1 \in 0 .. MaxEpoch
    BY DEF Epochs
  <2>5. /\ smvbaflag' \in [Node -> BOOLEAN]
        /\ smvbaBlocks' \subseteq SMVBABlock
    BY <2>1, <2>2, <2>3, <2>4, TrytoStartType
  <2>6. QED
    BY <1>9, <2>3, <2>4, <2>5 DEF HandleHalt, TypeOK, dataVars, netVars
<1>10. ASSUME NEW i \in Live, NEW e \in Epochs, HandleHaltMissing(i, e)
       PROVE  TypeOK'
  <2>1. e + 1 \in 0 .. MaxEpoch
    BY DEF Epochs
  <2>2. CurrentCert[i] \in Frontier /\ OrderedCert[i] \in Frontier
    BY DEF TypeOK
  <2>3. /\ smvbaflag' \in [Node -> BOOLEAN]
        /\ smvbaBlocks' \subseteq SMVBABlock
    BY <1>10, <2>1, <2>2, TrytoStartType DEF HandleHaltMissing
  <2>4. QED
    BY <1>10, <2>1, <2>3 DEF HandleHaltMissing, TypeOK, dataVars, netVars
<1>11. ASSUME NEW i \in Live, NEW e \in Epochs, HandleLateProposal(i, e)
       PROVE  TypeOK'
  <2>1. PICK b \in BlocksOf(e) : Commit(i, b.frontier)
    BY <1>11 DEF HandleLateProposal
  <2>2. b.frontier \in Frontier
    BY DEF BlocksOf, TypeOK, SMVBABlock
  <2>3. /\ committed' \in [Node -> [Node -> SUBSET Heights]]
        /\ OrderedCert' \in [Node -> Frontier]
    BY <2>1, <2>2, CommitType
  <2>4. QED
    BY <1>11, <2>3 DEF HandleLateProposal, TypeOK, dataVars, netVars
<1>12. CASE UNCHANGED vars
  BY <1>12 DEF TypeOK, vars, dataVars, netVars, controlVars
<1>13. QED
  BY <1>1, <1>2, <1>3, <1>4, <1>5, <1>6, <1>7, <1>8, <1>9, <1>10, <1>11, <1>12 DEF Next

(***************************************************************************)
(* Every reachable state of the data plane is well typed.                  *)
(***************************************************************************)
THEOREM TypeCorrect == Spec => []TypeOK
<1>1. QED
  BY TypeInit, TypeNext, PTL DEF Spec

-----------------------------------------------------------------------------
(* The inductive invariant. *)

\* Votes, on their way or counted, come from nodes that stored the block.
VotesHeld ==
    /\ \A v \in votes : v.from \in Holders(v.to, v.height)
    /\ \A p \in Node : \A h \in Heights : blockVotes[p][h] \subseteq Holders(p, h)

\* A proposer only moved past blocks a quorum stored.
ChainCertified ==
    \A p \in Node : \A h \in Heights : h < Height[p] => Certified(p, h)

\* No block above the proposer's height is on its way or known.
BlocksSent ==
    /\ \A i \in Node : loopback[i] => Height[i] >= 1
    /\ \A p, i \in Node : \A k \in 1 .. Len(blocks[p][i]) : blocks[p][i][k] <= Height[p]
    /\ \A p, i \in Node : \A h \in BlockHashMap[i][p] : h <= Height[p]

\* A certificate stays below the height its proposer reached.
Below(f) == \A p \in Node : f[p] > 0 => f[p] < Height[p]

CertsBelow == \A i \in Node : Below(CurrentCert[i])

DataInv == VotesHeld /\ ChainCertified /\ BlocksSent /\ CertsBelow

\* Frontiers that were proposed or decided only reach certified blocks.
FrontierCertified(f) == \A p \in Node : \A h \in 1 .. f[p] : Certified(p, h)

ControlInv ==
    /\ \A b \in smvbaBlocks : FrontierCertified(b.frontier)
    /\ \A e \in Epochs : \A f \in decision[e] : FrontierCertified(f)
    /\ CommittedCertified

-----------------------------------------------------------------------------
(* What only grows: heights, and the nodes that stored a block. *)

LEMMA Growth ==
    ASSUME TypeOK, [Next]_vars
    PROVE  /\ \A p \in Node : Height[p] <= Height'[p]
           /\ \A i, p \in Node : BlockHashMap[i][p] \subseteq BlockHashMap'[i][p]
<1> Live \subseteq Node
  BY DEF Live
<1>1. ASSUME NEW i \in Live, BroadcastFirst(i)
      PROVE  /\ \A p \in Node : Height[p] <= Height'[p]
             /\ BlockHashMap' = BlockHashMap
  BY <1>1 DEF BroadcastFirst, TypeOK
<1>2. ASSUME NEW i \in Live, NEW p \in Live, HandleBlockMessage(i, p)
      PROVE  /\ Height' = Height
             /\ \A j, q \in Node : BlockHashMap[j][q] \subseteq BlockHashMap'[j][q]
  BY <1>2 DEF HandleBlockMessage, NewCert, TypeOK
<1>3. ASSUME NEW i \in Live, HandleVoteForBlock(i)
      PROVE  /\ \A p \in Node : Height[p] <= Height'[p]
             /\ BlockHashMap' = BlockHashMap
  <2>1. Height' = Height \/ Height' = [Height EXCEPT ![i] = @ + 1]
    BY <1>3 DEF HandleVoteForBlock, DropVote, CountVote, CertifyBlock
  <2>2. BlockHashMap' = BlockHashMap
    BY <1>3 DEF HandleVoteForBlock
  <2>3. \A p \in Node : Height[p] \in Int
    BY BoundsAssumption DEF TypeOK
  <2>4. CASE Height' = [Height EXCEPT ![i] = @ + 1]
    <3>1. \A p \in Node : Height'[p] = IF p = i THEN Height[p] + 1 ELSE Height[p]
      BY <2>4 DEF TypeOK
    <3>2. QED
      BY <2>2, <2>3, <3>1
  <2>5. QED
    BY <2>1, <2>2, <2>3, <2>4
<1>4. CASE Height' = Height /\ BlockHashMap' = BlockHashMap
  BY <1>4 DEF TypeOK
<1>5. QED
  <2>1. CASE \E i \in Live : BroadcastFirst(i)
    BY <1>1, <2>1
  <2>2. CASE \E i, p \in Live : HandleBlockMessage(i, p)
    <3>1. Height' = Height /\ \A j, q \in Node : BlockHashMap[j][q] \subseteq BlockHashMap'[j][q]
      BY <1>2, <2>2
    <3>2. QED
      BY <3>1 DEF TypeOK
  <2>3. CASE \E i \in Live : HandleVoteForBlock(i)
    BY <1>3, <2>3
  <2>4. CASE \/ \E i \in Live : LoopbackFirst(i)
             \/ \E p, i \in Live : LoseBlock(p, i)
             \/ \E v \in votes : LoseVote(v)
             \/ UNCHANGED vars
    BY <1>4, <2>4 DEF LoopbackFirst, LoseBlock, LoseVote, vars, dataVars
  <2>5. CASE \/ \E i \in Live : ProposeAgain(i)
             \/ \E e \in Epochs : Decide(e)
             \/ \E i \in Live, e \in Epochs :
                    HandleHalt(i, e) \/ HandleHaltMissing(i, e) \/ HandleLateProposal(i, e)
    BY <1>4, <2>5 DEF ProposeAgain, Decide, HandleHalt, HandleHaltMissing,
                      HandleLateProposal, dataVars
  <2>6. QED
    BY <2>1, <2>2, <2>3, <2>4, <2>5 DEF Next

LEMMA HoldersGrow ==
    ASSUME TypeOK, [Next]_vars, NEW p \in Node, NEW h
    PROVE  /\ Holders(p, h) \subseteq Holders(p, h)'
           /\ Certified(p, h) => Certified(p, h)'
<1>1. Holders(p, h) \subseteq Holders(p, h)'
  BY Growth DEF Holders
<1>2. Holders(p, h)' \in SUBSET Node
  BY DEF Holders
<1>3. /\ Cardinality(Holders(p, h)) \in Nat
      /\ Cardinality(Holders(p, h)') \in Nat
      /\ Cardinality(Holders(p, h)) <= Cardinality(Holders(p, h)')
  BY <1>1, <1>2, NodeSubsets
<1>4. QED
  BY <1>1, <1>3, ThresholdTypes DEF Certified

LEMMA FrontierStable ==
    ASSUME TypeOK, [Next]_vars, NEW f \in Frontier, FrontierCertified(f)
    PROVE  \A p \in Node : \A h \in 1 .. f[p] : Certified(p, h)'
BY HoldersGrow DEF FrontierCertified

LEMMA BelowCertified ==
    ASSUME TypeOK, ChainCertified, NEW f \in Frontier, Below(f)
    PROVE  FrontierCertified(f)
<1> SUFFICES ASSUME NEW p \in Node, NEW h \in 1 .. f[p]
             PROVE  Certified(p, h)
  BY DEF FrontierCertified
<1>1. f[p] \in 0 .. MaxHeight /\ Height[p] \in 0 .. MaxHeight
  BY DEF TypeOK, Frontier
<1>2. h \in Heights /\ h < Height[p]
  BY <1>1, BoundsAssumption DEF Below, Heights
<1>3. QED
  BY <1>2 DEF ChainCertified

-----------------------------------------------------------------------------
(* The data plane keeps its part of the invariant. *)

LEMMA DataInvInit == Init => DataInv
  BY BoundsAssumption
     DEF Init, DataInv, VotesHeld, ChainCertified, BlocksSent, CertsBelow, Below, Heights

\* Steps that leave the nodes' data alone and put nothing on the network.
LEMMA DataInvQuiet ==
    ASSUME TypeOK, TypeOK', DataInv, UNCHANGED dataVars, votes' \subseteq votes,
           \A p, i \in Node : \/ blocks'[p][i] = blocks[p][i]
                              \/ /\ blocks[p][i] # <<>>
                                 /\ blocks'[p][i] = Tail(blocks[p][i])
    PROVE  DataInv'
<1>1. VotesHeld'
  BY DEF DataInv, VotesHeld, Holders, dataVars
<1>2. ChainCertified'
  BY DEF DataInv, ChainCertified, Certified, Holders, dataVars
<1>3. BlocksSent'
  <2>1. ASSUME NEW p \in Node, NEW i \in Node, NEW k \in 1 .. Len(blocks'[p][i])
        PROVE  blocks'[p][i][k] <= Height'[p]
    <3>1. blocks[p][i] \in Seq(Heights)
      BY DEF TypeOK
    <3>2. \A n \in 1 .. Len(blocks[p][i]) : blocks[p][i][n] <= Height[p]
      BY DEF DataInv, BlocksSent
    <3>3. CASE blocks'[p][i] = blocks[p][i]
      BY <3>2, <3>3 DEF dataVars
    <3>4. CASE blocks[p][i] # <<>> /\ blocks'[p][i] = Tail(blocks[p][i])
      <4>1. k + 1 \in 1 .. Len(blocks[p][i]) /\ blocks'[p][i][k] = blocks[p][i][k + 1]
        BY <2>1, <3>1, <3>4
      <4>2. QED
        BY <3>2, <4>1 DEF dataVars
    <3>5. QED
      BY <3>3, <3>4
  <2>2. QED
    BY <2>1 DEF DataInv, BlocksSent, dataVars
<1>4. CertsBelow'
  BY DEF DataInv, CertsBelow, Below, dataVars
<1>5. QED
  BY <1>1, <1>2, <1>3, <1>4 DEF DataInv

\* What Send puts on the network stays below the proposer's new height.
LEMMA SendBelow ==
    ASSUME TypeOK, TypeOK', [Next]_vars, BlocksSent, NEW i \in Node, NEW h \in Heights,
           NEW self \in BOOLEAN, Send(i, h, self), h <= Height'[i]
    PROVE  \A p, j \in Node : \A k \in 1 .. Len(blocks'[p][j]) :
               blocks'[p][j][k] <= Height'[p]
<1> SUFFICES ASSUME NEW p \in Node, NEW j \in Node, NEW k \in 1 .. Len(blocks'[p][j])
             PROVE  blocks'[p][j][k] <= Height'[p]
  OBVIOUS
<1>1. blocks[p][j] \in Seq(Heights) /\ \A q \in Node : Height[q] \in Int /\ Height'[q] \in Int
  BY BoundsAssumption DEF TypeOK
<1>2. \A n \in 1 .. Len(blocks[p][j]) : blocks[p][j][n] \in Int /\ blocks[p][j][n] <= Height'[p]
  <2> SUFFICES ASSUME NEW n \in 1 .. Len(blocks[p][j])
               PROVE  blocks[p][j][n] \in Int /\ blocks[p][j][n] <= Height'[p]
    OBVIOUS
  <2>1. blocks[p][j][n] \in Heights
    BY <1>1
  <2>2. blocks[p][j][n] <= Height[p] /\ Height[p] <= Height'[p]
    BY Growth DEF BlocksSent
  <2>3. QED
    BY <1>1, <2>1, <2>2 DEF Heights
<1>3. CASE blocks'[p][j] = blocks[p][j]
  BY <1>2, <1>3
<1>4. CASE p = i /\ blocks'[p][j] = Append(blocks[p][j], h)
  <2>1. \/ k \in 1 .. Len(blocks[p][j]) /\ blocks'[p][j][k] = blocks[p][j][k]
        \/ blocks'[p][j][k] = h
    BY <1>1, <1>4
  <2>2. QED
    BY <1>2, <1>4, <2>1
<1>5. QED
  BY <1>3, <1>4 DEF Send, TypeOK

\* Steps that only raise heights: nothing known or certified gets above them.
LEMMA StillBelow ==
    ASSUME TypeOK, TypeOK', [Next]_vars, DataInv, UNCHANGED <<CurrentCert, BlockHashMap>>,
           \A i \in Node : loopback'[i] => loopback[i] \/ Height'[i] >= 1
    PROVE  /\ \A i \in Node : loopback'[i] => Height'[i] >= 1
           /\ \A p, i \in Node : \A h \in BlockHashMap'[i][p] : h <= Height'[p]
           /\ CertsBelow'
<1>1. \A p \in Node : Height[p] \in Int /\ Height'[p] \in Int /\ Height[p] <= Height'[p]
  BY Growth, BoundsAssumption DEF TypeOK
<1>2. \A i \in Node : loopback'[i] => Height'[i] >= 1
  BY <1>1 DEF DataInv, BlocksSent
<1>3. ASSUME NEW p \in Node, NEW i \in Node, NEW h \in BlockHashMap[i][p]
      PROVE  h <= Height'[p]
  <2>1. h \in Int
    BY DEF TypeOK, Heights
  <2>2. h <= Height[p]
    BY DEF DataInv, BlocksSent
  <2>3. QED
    BY <1>1, <2>1, <2>2
<1>4. ASSUME NEW i \in Node, NEW p \in Node, CurrentCert[i][p] > 0
      PROVE  CurrentCert[i][p] < Height'[p]
  <2>1. CurrentCert[i][p] \in 0 .. MaxHeight
    BY DEF TypeOK, Frontier
  <2>2. CurrentCert[i][p] < Height[p]
    BY <1>4 DEF DataInv, CertsBelow, Below
  <2>3. QED
    BY <1>1, <2>1, <2>2, BoundsAssumption
<1>5. QED
  BY <1>2, <1>3, <1>4 DEF CertsBelow, Below

LEMMA DataInvNext == TypeOK /\ TypeOK' /\ DataInv /\ [Next]_vars => DataInv'
<1> SUFFICES ASSUME TypeOK, TypeOK', DataInv, [Next]_vars
             PROVE  DataInv'
  OBVIOUS
<1> Live \subseteq Node
  BY DEF Live
<1> DEFINE KnownBelow == \A p, j \in Node : \A h \in BlockHashMap[j][p] : h <= Height[p]
           SentBelow == \A p, j \in Node : \A k \in 1 .. Len(blocks[p][j]) :
                            blocks[p][j][k] <= Height[p]
           LoopbackBelow == \A j \in Node : loopback[j] => Height[j] >= 1
<1>0. \A p \in Node : Height[p] \in Int /\ Height'[p] \in Int /\ Height[p] <= Height'[p]
  BY Growth, BoundsAssumption DEF TypeOK
<1>1. ASSUME NEW i \in Live, BroadcastFirst(i)
      PROVE  DataInv'
  <2>1. /\ Height[i] = 0
        /\ Height' = [Height EXCEPT ![i] = 1]
        /\ loopback' = [loopback EXCEPT ![i] = TRUE]
        /\ Send(i, 1, FALSE)
        /\ UNCHANGED <<CurrentCert, BlockHashMap, blockVotes, votes>>
    BY <1>1 DEF BroadcastFirst
  <2>2. VotesHeld'
    BY <2>1 DEF DataInv, VotesHeld, Holders
  <2>3. ChainCertified'
    <3>1. ASSUME NEW p \in Node, NEW h \in Heights, h < Height'[p]
          PROVE  h < Height[p]
      BY <2>1, <3>1 DEF TypeOK, Heights
    <3>2. QED
      BY <2>1, <3>1 DEF DataInv, ChainCertified, Certified, Holders
  <2>4. SentBelow'
    <3>1. 1 \in Heights /\ 1 <= Height'[i]
      BY <2>1, BoundsAssumption DEF Heights, TypeOK
    <3>2. QED
      BY <2>1, <3>1, SendBelow DEF DataInv
  <2>5. KnownBelow' /\ LoopbackBelow' /\ CertsBelow'
    <3>1. \A j \in Node : loopback'[j] => loopback[j] \/ Height'[j] >= 1
      BY <2>1 DEF TypeOK
    <3>2. QED
      BY <2>1, <3>1, StillBelow
  <2>6. QED
    BY <2>2, <2>3, <2>4, <2>5 DEF DataInv, BlocksSent
<1>2. ASSUME NEW i \in Live, LoopbackFirst(i)
      PROVE  DataInv'
  <2>1. /\ loopback[i]
        /\ loopback' = [loopback EXCEPT ![i] = FALSE]
        /\ blocks' = [blocks EXCEPT ![i][i] = Append(@, 1)]
        /\ UNCHANGED <<Height, CurrentCert, BlockHashMap, blockVotes, votes>>
    BY <1>2 DEF LoopbackFirst
  <2>2. VotesHeld' /\ ChainCertified' /\ CertsBelow'
    BY <2>1 DEF DataInv, VotesHeld, ChainCertified, CertsBelow, Below, Certified, Holders
  <2>3. KnownBelow' /\ LoopbackBelow'
    BY <2>1 DEF DataInv, BlocksSent, TypeOK
  <2>4. ASSUME NEW p \in Node, NEW j \in Node, NEW k \in 1 .. Len(blocks'[p][j])
        PROVE  blocks'[p][j][k] <= Height'[p]
    <3>1. \A n \in 1 .. Len(blocks[p][j]) : blocks[p][j][n] <= Height[p]
      BY DEF DataInv, BlocksSent
    <3>2. CASE p = i /\ j = i
      <4>1. blocks'[p][j] = Append(blocks[p][j], 1) /\ blocks[p][j] \in Seq(Heights)
        BY <2>1, <3>2 DEF TypeOK
      <4>2. \/ k \in 1 .. Len(blocks[p][j]) /\ blocks'[p][j][k] = blocks[p][j][k]
            \/ blocks'[p][j][k] = 1
        BY <2>4, <4>1
      <4>3. 1 <= Height[p]
        BY <1>0, <2>1, <3>2 DEF DataInv, BlocksSent
      <4>4. QED
        BY <2>1, <3>1, <4>2, <4>3
    <3>3. CASE ~(p = i /\ j = i)
      <4>1. blocks'[p][j] = blocks[p][j]
        BY <2>1, <3>3 DEF TypeOK
      <4>2. QED
        BY <2>1, <2>4, <3>1, <4>1
    <3>4. QED
      BY <3>2, <3>3
  <2>5. QED
    BY <2>2, <2>3, <2>4 DEF DataInv, BlocksSent
<1>3. ASSUME NEW i \in Live, NEW p \in Live, HandleBlockMessage(i, p)
      PROVE  DataInv'
  <2>0. /\ blocks[p][i] # <<>>
        /\ blocks[p][i] \in Seq(Heights)
    BY <1>3 DEF HandleBlockMessage, NewCert, TypeOK
  <2>h. PICK h \in Heights : h = Head(blocks[p][i])
    BY <2>0
  <2>1. /\ blocks' = [blocks EXCEPT ![p][i] = Tail(@)]
        /\ CurrentCert' = [CurrentCert EXCEPT ![i] = [@ EXCEPT ![p] = h - 1]]
        /\ BlockHashMap' = [BlockHashMap EXCEPT ![i][p] = @ \cup {h}]
        /\ votes' = votes \cup {[from |-> i, to |-> p, height |-> h]}
        /\ UNCHANGED <<Height, loopback, blockVotes>>
    BY <1>3, <2>h DEF HandleBlockMessage, NewCert
  <2>2. h <= Height[p]
    <3>1. h = blocks[p][i][1] /\ 1 \in 1 .. Len(blocks[p][i])
      BY <2>0, <2>h
    <3>2. QED
      BY <3>1 DEF DataInv, BlocksSent
  <2>3. VotesHeld'
    <3>1. i \in Holders(p, h)'
      <4>1. BlockHashMap \in [Node -> [Node -> SUBSET Heights]]
        BY DEF TypeOK
      <4>2. h \in BlockHashMap'[i][p]
        BY <2>1, <4>1
      <4>3. QED
        BY <4>2 DEF Holders
    <3>2. \A v \in votes : v.from \in Holders(v.to, v.height)'
      <4> SUFFICES ASSUME NEW v \in votes
                   PROVE  v.from \in Holders(v.to, v.height)'
        OBVIOUS
      <4>1. v.to \in Node /\ v.from \in Holders(v.to, v.height)
        BY DEF DataInv, VotesHeld, TypeOK, Vote
      <4>2. Holders(v.to, v.height) \subseteq Holders(v.to, v.height)'
        BY <4>1, HoldersGrow
      <4>3. QED
        BY <4>1, <4>2
    <3>3. \A v \in votes' : v.from \in Holders(v.to, v.height)'
      <4> SUFFICES ASSUME NEW v \in votes'
                   PROVE  v.from \in Holders(v.to, v.height)'
        OBVIOUS
      <4>1. CASE v \in votes
        BY <3>2, <4>1
      <4>2. CASE v = [from |-> i, to |-> p, height |-> h]
        <5>1. v.from = i /\ v.to = p /\ v.height = h
          BY <4>2
        <5>2. QED
          BY <3>1, <5>1
      <4>3. QED
        BY <2>1, <4>1, <4>2
    <3>4. \A q \in Node : \A g \in Heights : blockVotes'[q][g] \subseteq Holders(q, g)'
      BY <2>1, HoldersGrow DEF DataInv, VotesHeld
    <3>5. QED
      BY <3>3, <3>4 DEF VotesHeld
  <2>4. ChainCertified'
    BY <2>1, HoldersGrow DEF DataInv, ChainCertified
  <2>5. SentBelow'
    <3> SUFFICES ASSUME NEW q \in Node, NEW j \in Node, NEW k \in 1 .. Len(blocks'[q][j])
                 PROVE  blocks'[q][j][k] <= Height'[q]
      OBVIOUS
    <3>1. blocks[q][j] \in Seq(Heights) /\ \A n \in 1 .. Len(blocks[q][j]) : blocks[q][j][n] <= Height[q]
      BY DEF DataInv, BlocksSent, TypeOK
    <3>2. CASE q = p /\ j = i
      <4>1. blocks[q][j] # <<>> /\ blocks'[q][j] = Tail(blocks[q][j])
        BY <2>0, <2>1, <3>2 DEF TypeOK
      <4>2. k + 1 \in 1 .. Len(blocks[q][j]) /\ blocks'[q][j][k] = blocks[q][j][k + 1]
        BY <3>1, <4>1
      <4>3. QED
        BY <2>1, <3>1, <4>2
    <3>3. CASE ~(q = p /\ j = i)
      <4>1. blocks'[q][j] = blocks[q][j]
        BY <2>1, <3>3 DEF TypeOK
      <4>2. QED
        BY <2>1, <3>1, <4>1
    <3>4. QED
      BY <3>2, <3>3
  <2>6. KnownBelow'
    BY <2>1, <2>2 DEF DataInv, BlocksSent, TypeOK
  <2>7. LoopbackBelow'
    BY <2>1 DEF DataInv, BlocksSent
  <2>8. CertsBelow'
    <3> SUFFICES ASSUME NEW j \in Node, NEW q \in Node, CurrentCert'[j][q] > 0
                 PROVE  CurrentCert'[j][q] < Height'[q]
      BY DEF CertsBelow, Below
    <3>1. CASE j = i /\ q = p
      <4>1. CurrentCert'[j][q] = h - 1
        BY <2>1, <3>1 DEF TypeOK, Frontier
      <4>2. QED
        BY <1>0, <2>1, <2>2, <3>1, <4>1 DEF Heights
    <3>2. CASE ~(j = i /\ q = p)
      <4>1. CurrentCert'[j][q] = CurrentCert[j][q]
        BY <2>1, <3>2 DEF TypeOK, Frontier
      <4>2. QED
        BY <2>1, <4>1 DEF DataInv, CertsBelow, Below
    <3>3. QED
      BY <3>1, <3>2
  <2>9. QED
    BY <2>3, <2>4, <2>5, <2>6, <2>7, <2>8 DEF DataInv, BlocksSent
<1>4. ASSUME NEW i \in Live, HandleVoteForBlock(i)
      PROVE  DataInv'
  <2>1. PICK v \in votes :
            /\ v.to = i
            /\ votes' = votes \ {v}
            /\ DropVote(i, v) \/ CountVote(i, v) \/ CertifyBlock(i, v)
            /\ UNCHANGED <<loopback, CurrentCert, BlockHashMap, losses, controlVars>>
    BY <1>4 DEF HandleVoteForBlock
  <2>2. /\ v.height \in Heights
        /\ v.from \in Holders(i, v.height)
        /\ v.height <= Height[i]
    BY <2>1 DEF TypeOK, Vote, DataInv, VotesHeld, BlocksSent, Holders
  <2> DEFINE voters == blockVotes[i][v.height] \cup {v.from}
  <2>3. CASE DropVote(i, v)
    <3>1. UNCHANGED dataVars /\ votes' \subseteq votes /\ blocks' = blocks
      BY <2>1, <2>3 DEF DropVote, dataVars
    <3>2. QED
      BY <3>1, DataInvQuiet
  <2>4. ASSUME blockVotes' = [blockVotes EXCEPT ![i][v.height] = voters]
        PROVE  VotesHeld'
    <3>1. \A q \in Node, g \in Heights : Holders(q, g)' = Holders(q, g)
      BY <2>1 DEF Holders
    <3>2. ASSUME NEW q \in Node, NEW g \in Heights
          PROVE  blockVotes'[q][g] \subseteq Holders(q, g)
      <4>1. blockVotes'[q][g] = IF q = i /\ g = v.height THEN voters ELSE blockVotes[q][g]
        BY <2>2, <2>4 DEF TypeOK
      <4>2. blockVotes[q][g] \subseteq Holders(q, g)
        BY DEF DataInv, VotesHeld
      <4>3. QED
        BY <2>2, <4>1, <4>2
    <3>3. \A w \in votes' : w.to \in Node /\ w.height \in Heights /\ w.from \in Holders(w.to, w.height)
      BY <2>1 DEF DataInv, VotesHeld, TypeOK, Vote
    <3>4. QED
      BY <3>1, <3>2, <3>3 DEF VotesHeld
  <2>5. CASE CountVote(i, v)
    <3>1. UNCHANGED <<Height, blocks>> /\ blockVotes' = [blockVotes EXCEPT ![i][v.height] = voters]
      BY <2>5 DEF CountVote
    <3>2. ChainCertified' /\ BlocksSent' /\ CertsBelow'
      BY <2>1, <3>1
         DEF DataInv, ChainCertified, BlocksSent, CertsBelow, Below, Certified, Holders
    <3>3. QED
      BY <2>4, <3>1, <3>2 DEF DataInv
  <2>6. CASE CertifyBlock(i, v)
    <3>1. /\ v.height >= Height[i]
          /\ Height[i] < MaxHeight
          /\ HighFlag(Cardinality(voters))
          /\ blockVotes' = [blockVotes EXCEPT ![i][v.height] = voters]
          /\ Height' = [Height EXCEPT ![i] = @ + 1]
          /\ Send(i, Height[i] + 1, TRUE)
      BY <2>6 DEF CertifyBlock
    <3>2. v.height = Height[i]
      BY <1>0, <2>2, <3>1 DEF Heights
    <3>3. Certified(i, Height[i])
      <4>1. voters \subseteq Holders(i, v.height)
        BY <2>2 DEF DataInv, VotesHeld
      <4>2. Holders(i, v.height) \in SUBSET Node
        BY DEF Holders
      <4>3. /\ Cardinality(voters) \in Nat
            /\ Cardinality(Holders(i, v.height)) \in Nat
            /\ Cardinality(voters) <= Cardinality(Holders(i, v.height))
        BY <4>1, <4>2, NodeSubsets
      <4>4. Cardinality(voters) = HightThreshold
        BY <3>1 DEF HighFlag
      <4>5. QED
        BY <3>2, <4>3, <4>4 DEF Certified
    <3>4. ChainCertified'
      <4>1. ASSUME NEW p \in Node, NEW h \in Heights, h < Height'[p]
            PROVE  Certified(p, h)
        <5>1. CASE p = i /\ h = Height[i]
          BY <3>3, <5>1
        <5>2. CASE ~(p = i /\ h = Height[i])
          <6>1. Height'[p] = IF p = i THEN Height[p] + 1 ELSE Height[p]
            BY <3>1 DEF TypeOK
          <6>2. h < Height[p]
            BY <1>0, <4>1, <5>2, <6>1 DEF Heights
          <6>3. QED
            BY <6>2 DEF DataInv, ChainCertified
        <5>3. QED
          BY <5>1, <5>2
      <4>2. QED
        BY <4>1, HoldersGrow DEF ChainCertified
    <3>5. BlocksSent'
      <4>1. Height[i] + 1 \in Heights /\ Height[i] + 1 <= Height'[i]
        BY <1>0, <2>2, <3>1, BoundsAssumption DEF TypeOK, Heights
      <4>2. SentBelow'
        BY <3>1, <4>1, SendBelow DEF DataInv
      <4>3. KnownBelow' /\ LoopbackBelow'
        BY <2>1, StillBelow
      <4>4. QED
        BY <4>2, <4>3 DEF BlocksSent
    <3>6. CertsBelow'
      BY <2>1, StillBelow
    <3>7. QED
      BY <2>4, <3>1, <3>4, <3>5, <3>6 DEF DataInv
  <2>7. QED
    BY <2>1, <2>3, <2>5, <2>6
<1>5. ASSUME NEW i \in Live, NEW p \in Live, LoseBlock(p, i)
      PROVE  DataInv'
  <2>1. \A q, j \in Node : \/ blocks'[q][j] = blocks[q][j]
                           \/ /\ blocks[q][j] # <<>>
                              /\ blocks'[q][j] = Tail(blocks[q][j])
    BY <1>5 DEF LoseBlock, TypeOK
  <2>2. UNCHANGED dataVars /\ votes' = votes
    BY <1>5 DEF LoseBlock
  <2>3. QED
    BY <2>1, <2>2, DataInvQuiet
<1>6. ASSUME NEW v \in votes, LoseVote(v)
      PROVE  DataInv'
  <2>1. UNCHANGED dataVars /\ votes' \subseteq votes /\ blocks' = blocks
    BY <1>6 DEF LoseVote
  <2>2. QED
    BY <2>1, DataInvQuiet
<1>7. CASE UNCHANGED <<dataVars, netVars>>
  <2>1. UNCHANGED dataVars /\ votes' = votes /\ blocks' = blocks
    BY <1>7 DEF netVars
  <2>2. QED
    BY <2>1, DataInvQuiet
<1>8. QED
  <2>1. CASE \/ \E i \in Live : ProposeAgain(i)
             \/ \E e \in Epochs : Decide(e)
             \/ \E i \in Live, e \in Epochs :
                    HandleHalt(i, e) \/ HandleHaltMissing(i, e) \/ HandleLateProposal(i, e)
             \/ UNCHANGED vars
    BY <1>7, <2>1 DEF ProposeAgain, Decide, HandleHalt, HandleHaltMissing,
                      HandleLateProposal, vars
  <2>2. QED
    BY <1>1, <1>2, <1>3, <1>4, <1>5, <1>6, <2>1 DEF Next

-----------------------------------------------------------------------------
(* The control plane keeps its part of the invariant. *)

LEMMA ControlInvInit == Init => ControlInv
  BY DEF Init, ControlInv, CommittedCertified

\* Frontiers certified before a step are certified after it.
LEMMA ProposedStable ==
    ASSUME TypeOK, [Next]_vars, ControlInv
    PROVE  /\ \A b \in smvbaBlocks : FrontierCertified(b.frontier)'
           /\ \A e \in Epochs : \A f \in decision[e] :
                 \A p \in Node : \A h \in 1 .. f[p] : Certified(p, h)'
           /\ \A i, p \in Node : \A h \in committed[i][p] : Certified(p, h)'
<1>1. \A b \in smvbaBlocks : b.frontier \in Frontier
  BY DEF TypeOK, SMVBABlock
<1>2. \A b \in smvbaBlocks : \A p \in Node : \A h \in 1 .. b.frontier[p] : Certified(p, h)'
  BY <1>1, FrontierStable DEF ControlInv
<1>3. \A e \in Epochs : \A f \in decision[e] :
         \A p \in Node : \A h \in 1 .. f[p] : Certified(p, h)'
  BY FrontierStable DEF ControlInv, TypeOK
<1>4. \A i, p \in Node : \A h \in committed[i][p] : Certified(p, h)'
  BY HoldersGrow DEF ControlInv, CommittedCertified
<1>5. ASSUME NEW b \in smvbaBlocks
      PROVE  FrontierCertified(b.frontier)'
  BY <1>2 DEF FrontierCertified
<1>6. QED
  BY <1>3, <1>4, <1>5

LEMMA CommitCertified ==
    ASSUME TypeOK, [Next]_vars, ControlInv, NEW i \in Node, NEW f \in Frontier,
           FrontierCertified(f), Commit(i, f)
    PROVE  CommittedCertified'
<1> SUFFICES ASSUME NEW j \in Node, NEW p \in Node, NEW h \in committed'[j][p]
             PROVE  Certified(p, h)'
  BY DEF CommittedCertified
<1>1. CASE h \in committed[j][p]
  BY <1>1, ProposedStable
<1>2. CASE h \in Deliverable(i, p, f)
  <2>1. h \in Heights /\ h <= f[p] /\ f[p] \in 0 .. MaxHeight
    BY <1>2 DEF Deliverable, TypeOK, Frontier
  <2>2. h \in 1 .. f[p]
    BY <2>1, BoundsAssumption DEF Heights
  <2>3. QED
    BY <2>2, FrontierStable
<1>3. QED
  BY <1>1, <1>2 DEF Commit, TypeOK

LEMMA StartCertified ==
    ASSUME TypeOK, [Next]_vars, ControlInv, NEW i \in Node, NEW cc \in Frontier,
           NEW oc \in Frontier, NEW running \in BOOLEAN, NEW e \in 0 .. MaxEpoch,
           FrontierCertified(cc), TrytoStartMVBA(i, cc, oc, running, e)
    PROVE  \A b \in smvbaBlocks' : FrontierCertified(b.frontier)'
<1>1. \A p \in Node : \A h \in 1 .. cc[p] : Certified(p, h)'
  BY FrontierStable
<1>2. smvbaBlocks' \subseteq smvbaBlocks \cup {[author |-> i, epoch |-> e, frontier |-> cc]}
  BY DEF TrytoStartMVBA
<1>3. ASSUME NEW b \in smvbaBlocks'
      PROVE  \A p \in Node : \A h \in 1 .. b.frontier[p] : Certified(p, h)'
  <2>1. CASE b \in smvbaBlocks
    <3>1. b.frontier \in Frontier /\ FrontierCertified(b.frontier)
      BY <2>1 DEF TypeOK, SMVBABlock, ControlInv
    <3>2. QED
      BY <3>1, FrontierStable
  <2>2. CASE b = [author |-> i, epoch |-> e, frontier |-> cc]
    <3>1. b.frontier = cc
      BY <2>2
    <3>2. QED
      BY <1>1, <3>1
  <2>3. QED
    BY <1>2, <2>1, <2>2
<1>4. QED
  BY <1>3 DEF FrontierCertified

LEMMA ControlInvNext ==
    TypeOK /\ TypeOK' /\ DataInv /\ ControlInv /\ [Next]_vars => ControlInv'
<1> SUFFICES ASSUME TypeOK, TypeOK', DataInv, ControlInv, [Next]_vars
             PROVE  ControlInv'
  OBVIOUS
<1> Live \subseteq Node
  BY DEF Live
<1> DEFINE Proposed == \A b \in smvbaBlocks : FrontierCertified(b.frontier)
           Decided == \A e \in Epochs : \A f \in decision[e] : FrontierCertified(f)
<1>1. decision' = decision => Decided'
  BY ProposedStable DEF FrontierCertified
<1>2. smvbaBlocks' = smvbaBlocks => Proposed'
  BY ProposedStable
<1>3. committed' = committed => CommittedCertified'
  BY ProposedStable DEF CommittedCertified
<1>4. ASSUME NEW i \in Node
      PROVE  CurrentCert[i] \in Frontier /\ FrontierCertified(CurrentCert[i])
  <2>1. CurrentCert[i] \in Frontier /\ Below(CurrentCert[i])
    BY DEF TypeOK, DataInv, CertsBelow
  <2>2. QED
    BY <2>1, BelowCertified DEF DataInv
<1>5. ASSUME NEW i \in Live, NEW p \in Live, HandleBlockMessage(i, p)
      PROVE  ControlInv'
  <2>1. /\ blocks[p][i] # <<>>
        /\ blocks[p][i] \in Seq(Heights)
    BY <1>5 DEF HandleBlockMessage, NewCert, TypeOK
  <2>2. PICK h \in Heights : h = Head(blocks[p][i])
    BY <2>1
  <2>3. PICK cc : cc = [CurrentCert[i] EXCEPT ![p] = h - 1]
    OBVIOUS
  <2>4. /\ TrytoStartMVBA(i, cc, OrderedCert[i], smvbaflag[i], Epoch[i])
        /\ UNCHANGED <<decision, committed>>
    BY <1>5, <2>2, <2>3 DEF HandleBlockMessage, NewCert
  <2>5. cc \in Frontier /\ Below(cc)
    <3>1. h = blocks[p][i][1] /\ 1 \in 1 .. Len(blocks[p][i])
      BY <2>1, <2>2
    <3>2. h - 1 \in 0 .. MaxHeight /\ h \in Int /\ Height[p] \in Int
      BY BoundsAssumption DEF TypeOK, Heights
    <3>3. h - 1 < Height[p]
      <4>1. h <= Height[p]
        BY <3>1 DEF DataInv, BlocksSent
      <4>2. QED
        BY <3>2, <4>1
    <3>4. CurrentCert[i] \in [Node -> 0 .. MaxHeight]
      BY DEF TypeOK, Frontier
    <3>5. cc \in [Node -> 0 .. MaxHeight] /\ \A q \in Node : cc[q] = IF q = p THEN h - 1 ELSE CurrentCert[i][q]
      BY <2>3, <3>2, <3>4
    <3>6. QED
      BY <3>3, <3>5 DEF DataInv, CertsBelow, Below, Frontier
  <2>6. FrontierCertified(cc)
    BY <2>5, BelowCertified DEF DataInv
  <2>7. Proposed'
    <3>1. OrderedCert[i] \in Frontier /\ smvbaflag[i] \in BOOLEAN /\ Epoch[i] \in 0 .. MaxEpoch
      BY DEF TypeOK
    <3>2. QED
      BY <2>4, <2>5, <2>6, <3>1, StartCertified
  <2>8. QED
    BY <1>1, <1>3, <2>4, <2>7 DEF ControlInv
<1>6. ASSUME NEW e \in Epochs, Decide(e)
      PROVE  ControlInv'
  <2>1. PICK b \in BlocksOf(e) : decision' = [decision EXCEPT ![e] = @ \cup {b.frontier}]
    BY <1>6 DEF Decide
  <2>2. FrontierCertified(b.frontier)'
    BY ProposedStable DEF BlocksOf
  <2>3. ASSUME NEW d \in Epochs, NEW f \in decision'[d]
        PROVE  FrontierCertified(f)'
    <3>1. CASE f \in decision[d]
      BY <3>1, ProposedStable DEF FrontierCertified
    <3>2. CASE f = b.frontier
      BY <2>2, <3>2
    <3>3. QED
      BY <2>1, <3>1, <3>2 DEF TypeOK
  <2>4. QED
    BY <1>2, <1>3, <1>6, <2>3 DEF Decide, ControlInv
<1>7. ASSUME NEW i \in Live, ProposeAgain(i)
      PROVE  ControlInv'
  <2>1. \A p \in Node : \A h \in 1 .. CurrentCert[i][p] : Certified(p, h)'
    BY <1>4, FrontierStable
  <2>2. PICK c : c = [author |-> i, epoch |-> Epoch[i], frontier |-> CurrentCert[i]]
    OBVIOUS
  <2>3. c.frontier = CurrentCert[i] /\ smvbaBlocks' = smvbaBlocks \cup {c}
    BY <1>7, <2>2 DEF ProposeAgain
  <2>4. FrontierCertified(c.frontier)'
    BY <2>1, <2>3 DEF FrontierCertified
  <2>5. Proposed'
    BY <2>3, <2>4, ProposedStable
  <2>6. QED
    BY <1>1, <1>3, <1>7, <2>5 DEF ProposeAgain, ControlInv
<1>8. ASSUME NEW i \in Live, NEW e \in Epochs, HandleHalt(i, e)
      PROVE  ControlInv'
  <2>1. PICK f \in decision[e] :
            /\ Commit(i, f)
            /\ TrytoStartMVBA(i, CurrentCert[i], Advanced(OrderedCert[i], f), FALSE, e + 1)
    BY <1>8 DEF HandleHalt
  <2>2. f \in Frontier /\ FrontierCertified(f)
    BY DEF TypeOK, ControlInv
  <2>3. Advanced(OrderedCert[i], f) \in Frontier /\ e + 1 \in 0 .. MaxEpoch
    BY <2>1, <2>2, CommitType, BoundsAssumption DEF Epochs
  <2>4. CommittedCertified'
    BY <2>1, <2>2, CommitCertified
  <2>5. Proposed'
    BY <1>4, <2>1, <2>3, StartCertified
  <2>6. QED
    BY <1>1, <1>8, <2>4, <2>5 DEF HandleHalt, ControlInv
<1>9. ASSUME NEW i \in Live, NEW e \in Epochs, HandleHaltMissing(i, e)
      PROVE  ControlInv'
  <2>1. OrderedCert[i] \in Frontier /\ e + 1 \in 0 .. MaxEpoch
    BY BoundsAssumption DEF TypeOK, Epochs
  <2>2. Proposed'
    BY <1>4, <1>9, <2>1, StartCertified DEF HandleHaltMissing
  <2>3. QED
    BY <1>1, <1>3, <1>9, <2>2 DEF HandleHaltMissing, ControlInv
<1>10. ASSUME NEW i \in Live, NEW e \in Epochs, HandleLateProposal(i, e)
       PROVE  ControlInv'
  <2>1. PICK b \in BlocksOf(e) : Commit(i, b.frontier)
    BY <1>10 DEF HandleLateProposal
  <2>2. b.frontier \in Frontier /\ FrontierCertified(b.frontier)
    BY DEF BlocksOf, TypeOK, SMVBABlock, ControlInv
  <2>3. CommittedCertified'
    BY <2>1, <2>2, CommitCertified
  <2>4. QED
    BY <1>1, <1>2, <1>10, <2>3 DEF HandleLateProposal, ControlInv
<1>11. CASE UNCHANGED controlVars
  BY <1>1, <1>2, <1>3, <1>11 DEF controlVars, ControlInv
<1>12. QED
  <2>1. CASE \/ \E i \in Live : BroadcastFirst(i) \/ LoopbackFirst(i) \/ HandleVoteForBlock(i)
             \/ \E p, i \in Live : LoseBlock(p, i)
             \/ \E v \in votes : LoseVote(v)
             \/ UNCHANGED vars
    BY <1>11, <2>1 DEF BroadcastFirst, LoopbackFirst, HandleVoteForBlock, LoseBlock, LoseVote, vars
  <2>2. QED
    BY <1>5, <1>6, <1>7, <1>8, <1>9, <1>10, <2>1 DEF Next

-----------------------------------------------------------------------------
(* The theorems. *)

Inv == TypeOK /\ DataInv /\ ControlInv

LEMMA InvInductive == Spec => []Inv
<1>1. Init => Inv
  BY TypeInit, DataInvInit, ControlInvInit DEF Inv
<1>2. Inv /\ [Next]_vars => Inv'
  BY TypeNext, DataInvNext, ControlInvNext DEF Inv
<1>3. QED
  BY <1>1, <1>2, PTL DEF Spec

(***************************************************************************)
(* Whatever the network loses and however the goroutines interleave, a     *)
(* certificate a node holds for a chain vouches for blocks that a quorum   *)
(* of nodes stored, up to the certified height.                            *)
(***************************************************************************)
THEOREM CertificatesAreSound == Spec => []CertSound
<1>1. Inv => CertSound
  <2> SUFFICES ASSUME Inv, NEW i \in Node
               PROVE  FrontierCertified(CurrentCert[i])
    BY DEF CertSound, FrontierCertified
  <2>1. CurrentCert[i] \in Frontier /\ Below(CurrentCert[i])
    BY DEF Inv, TypeOK, DataInv, CertsBelow
  <2>2. QED
    BY <2>1, BelowCertified DEF Inv, DataInv
<1>2. QED
  BY <1>1, InvInductive, PTL

(***************************************************************************)
(* Every block a node commits, at the end of an epoch or late, is stored   *)
(* by a quorum.                                                            *)
(***************************************************************************)
THEOREM CommitsAreCertified == Spec => []CommittedCertified
<1>1. Inv => CommittedCertified
  BY DEF Inv, ControlInv
<1>2. QED
  BY <1>1, InvInductive, PTL

-----------------------------------------------------------------------------
(***************************************************************************)
(* The order in which chains are certified and committed.  A certificate   *)
(* is assigned, not raised, so it only moves forward because the blocks on *)
(* the link are in order and all above the certificate (QueuesInOrder),    *)
(* but for the own first block, which is on its way once (FirstOnce); that *)
(* a late frontier commits nothing below what was committed needs every    *)
(* committed height to be covered by OrderedCert (CommittedOrdered).       *)
(***************************************************************************)
\* A queue in order above c, where the heights in skip do not matter.
Ascending(q, c, skip) ==
    \A k \in 1 .. Len(q) : q[k] \notin skip =>
        /\ c < q[k]
        /\ \A m \in 1 .. Len(q) : k < m /\ q[m] \notin skip => q[k] < q[m]

\* The heights that may come out of order on the way from p to i.
Unordered(i, p) == IF i = p THEN {1} ELSE {}

QueuesInOrder ==
    \A p, i \in Node : Ascending(blocks[p][i], CurrentCert[i][p], Unordered(i, p))

\* The own first block waits in its goroutine, in the queue, or was handled.
FirstOnce ==
    \A i \in Node :
        /\ \A k \in 1 .. Len(blocks[i][i]) : blocks[i][i][k] = 1 =>
              /\ ~loopback[i] /\ 1 \notin BlockHashMap[i][i]
              /\ \A m \in 1 .. Len(blocks[i][i]) : blocks[i][i][m] = 1 => m = k
        /\ loopback[i] => 1 \notin BlockHashMap[i][i]

CommittedOrdered ==
    \A i, p \in Node : \A h \in committed[i][p] : h <= OrderedCert[i][p]

LEMMA HeightsAreIntegers == \A q \in Seq(Heights) : \A k \in 1 .. Len(q) : q[k] \in Int
<1>1. Heights \subseteq Int
  BY DEF Heights
<1>2. ASSUME NEW q \in Seq(Heights), NEW k \in 1 .. Len(q) PROVE q[k] \in Heights
  OBVIOUS
<1>3. QED
  BY <1>1, <1>2

LEMMA AscendingAppend ==
    ASSUME NEW q \in Seq(Heights), NEW c \in Int, NEW skip, NEW h \in Heights,
           Ascending(q, c, skip),
           h \in skip \/ (c < h /\ \A k \in 1 .. Len(q) : q[k] < h)
    PROVE  Ascending(Append(q, h), c, skip)
<1> DEFINE r == Append(q, h)
<1>1. /\ Len(r) = Len(q) + 1
      /\ r[Len(q) + 1] = h
      /\ \A k \in 1 .. Len(q) : r[k] = q[k]
  OBVIOUS
<1>2. ASSUME NEW k \in 1 .. Len(r), r[k] \notin skip
      PROVE  c < r[k] /\ \A m \in 1 .. Len(r) : k < m /\ r[m] \notin skip => r[k] < r[m]
  <2>1. CASE k = Len(q) + 1
    BY <1>1, <1>2, <2>1
  <2>2. CASE k \in 1 .. Len(q)
    <3>1. c < r[k]
      BY <1>1, <1>2, <2>2 DEF Ascending
    <3>2. ASSUME NEW m \in 1 .. Len(r), k < m, r[m] \notin skip
          PROVE  r[k] < r[m]
      <4>1. CASE m = Len(q) + 1
        BY <1>1, <2>2, <3>2, <4>1
      <4>2. CASE m \in 1 .. Len(q)
        BY <1>1, <1>2, <2>2, <3>2, <4>2 DEF Ascending
      <4>3. QED
        BY <1>1, <4>1, <4>2
    <3>3. QED
      BY <3>1, <3>2
  <2>3. QED
    BY <1>1, <2>1, <2>2
<1>3. QED
  BY <1>2 DEF Ascending

LEMMA AscendingTail ==
    ASSUME NEW q \in Seq(Heights), NEW c \in Int, NEW skip, Ascending(q, c, skip), q # <<>>
    PROVE  /\ Head(q) \notin skip => c < Head(q)
           /\ Head(q) \notin skip => Ascending(Tail(q), Head(q) - 1, skip)
           /\ Ascending(Tail(q), c, skip)
<1> DEFINE r == Tail(q)
<1>1. /\ Len(q) \in Nat /\ Len(q) >= 1
      /\ Len(r) = Len(q) - 1
      /\ Head(q) = q[1]
      /\ \A k \in 1 .. Len(r) : r[k] = q[k + 1]
  OBVIOUS
<1>2. \A k \in 1 .. Len(q) : q[k] \in Int
  BY HeightsAreIntegers
<1>3. q[1] \notin skip => c < q[1]
  BY <1>1 DEF Ascending
<1>4. ASSUME NEW k \in 1 .. Len(r), r[k] \notin skip
      PROVE  /\ c < r[k]
             /\ Head(q) \notin skip => Head(q) - 1 < r[k]
             /\ \A m \in 1 .. Len(r) : k < m /\ r[m] \notin skip => r[k] < r[m]
  <2>1. k + 1 \in 1 .. Len(q) /\ 1 < k + 1 /\ 1 \in 1 .. Len(q) /\ q[k + 1] \notin skip
    BY <1>1, <1>4
  <2>2. c < q[k + 1] /\ (q[1] \notin skip => q[1] < q[k + 1])
    BY <2>1 DEF Ascending
  <2>3. ASSUME NEW m \in 1 .. Len(r), k < m, r[m] \notin skip
        PROVE  r[k] < r[m]
    <3>1. m + 1 \in 1 .. Len(q) /\ k + 1 < m + 1 /\ q[m + 1] \notin skip
      BY <1>1, <2>3
    <3>2. q[k + 1] < q[m + 1]
      BY <2>1, <3>1 DEF Ascending
    <3>3. QED
      BY <1>1, <3>2
  <2>4. QED
    BY <1>1, <1>2, <2>1, <2>2, <2>3
<1>5. Ascending(r, c, skip)
  BY <1>4 DEF Ascending
<1>6. Head(q) \notin skip => Ascending(r, Head(q) - 1, skip)
  BY <1>4 DEF Ascending
<1>7. QED
  BY <1>1, <1>3, <1>5, <1>6

\* Every height is above zero.
LEMMA AscendingFromZero ==
    ASSUME NEW q \in Seq(Heights), NEW c \in Int, NEW skip, Ascending(q, c, skip)
    PROVE  Ascending(q, 0, skip)
<1>1. \A k \in 1 .. Len(q) : q[k] \in Heights
  OBVIOUS
<1>2. \A k \in 1 .. Len(q) : 0 < q[k]
  BY <1>1 DEF Heights
<1>3. QED
  BY <1>2 DEF Ascending

\* A block of the height above the proposer's fits behind every queue.
LEMMA SendInOrder ==
    ASSUME Inv, QueuesInOrder, NEW i \in Node, NEW self \in BOOLEAN,
           NEW h \in Heights, h = Height[i] + 1, Send(i, h, self), UNCHANGED CurrentCert
    PROVE  QueuesInOrder'
<1> USE DEF Inv
<1> SUFFICES ASSUME NEW p \in Node, NEW j \in Node
             PROVE  Ascending(blocks'[p][j], CurrentCert[j][p], Unordered(j, p))
  BY DEF QueuesInOrder
<1> DEFINE skip == Unordered(j, p)
<1>1. /\ blocks[p][j] \in Seq(Heights)
      /\ CurrentCert[j][p] \in 0 .. MaxHeight
      /\ Height[p] \in 0 .. MaxHeight
  BY DEF TypeOK, Frontier
<1>2. Ascending(blocks[p][j], CurrentCert[j][p], skip)
  BY DEF QueuesInOrder
<1>3. CASE blocks'[p][j] = blocks[p][j]
  BY <1>2, <1>3
<1>4. CASE p = i /\ blocks'[p][j] = Append(blocks[p][j], h)
  <2> HIDE DEF skip
  <2>1. CurrentCert[j][p] < h
    BY <1>1, <1>4, BoundsAssumption DEF DataInv, CertsBelow, Below
  <2>2. \A k \in 1 .. Len(blocks[p][j]) : blocks[p][j][k] < h
    <3>1. \A k \in 1 .. Len(blocks[p][j]) : blocks[p][j][k] \in Int
      BY <1>1, HeightsAreIntegers
    <3>2. \A k \in 1 .. Len(blocks[p][j]) : blocks[p][j][k] <= Height[p]
      BY DEF DataInv, BlocksSent
    <3>3. QED
      BY <1>1, <1>4, <3>1, <3>2
  <2>3. CurrentCert[j][p] \in Int
    BY <1>1, BoundsAssumption
  <2>4. Ascending(Append(blocks[p][j], h), CurrentCert[j][p], skip)
    BY <1>1, <1>2, <2>1, <2>2, <2>3, AscendingAppend
  <2>5. QED
    BY <1>4, <2>4 DEF skip
<1>5. QED
  BY <1>3, <1>4 DEF Send, TypeOK

LEMMA QueuesInOrderNext ==
    Inv /\ QueuesInOrder /\ [Next]_vars => QueuesInOrder'
<1> SUFFICES ASSUME Inv, QueuesInOrder, [Next]_vars
             PROVE  QueuesInOrder'
  OBVIOUS
<1> USE DEF Inv
<1> Live \subseteq Node
  BY DEF Live
<1> /\ blocks \in [Node -> [Node -> Seq(Heights)]]
    /\ CurrentCert \in [Node -> [Node -> Int]]
  BY BoundsAssumption DEF TypeOK, Frontier
<1>1. ASSUME NEW i \in Live, BroadcastFirst(i) PROVE QueuesInOrder'
  <2>1. Height[i] = 0 /\ Send(i, 1, FALSE) /\ UNCHANGED CurrentCert
    BY <1>1 DEF BroadcastFirst
  <2>2. 1 \in Heights /\ 1 = Height[i] + 1
    BY <2>1, BoundsAssumption DEF Heights
  <2>3. QED
    BY <2>1, <2>2, SendInOrder
<1>2. ASSUME NEW i \in Live, LoopbackFirst(i) PROVE QueuesInOrder'
  <2>1. UNCHANGED CurrentCert
    BY <1>2 DEF LoopbackFirst
  <2>2. ASSUME NEW q \in Node, NEW j \in Node
        PROVE  Ascending(blocks'[q][j], CurrentCert[j][q], Unordered(j, q))
    <3>1. Ascending(blocks[q][j], CurrentCert[j][q], Unordered(j, q))
      BY DEF QueuesInOrder
    <3>2. CASE q = i /\ j = i
      <4>1. blocks'[q][j] = Append(blocks[q][j], 1) /\ 1 \in Unordered(j, q)
        BY <1>2, <3>2 DEF LoopbackFirst, Unordered
      <4>2. 1 \in Heights
        BY BoundsAssumption DEF Heights
      <4>3. QED
        BY <3>1, <4>1, <4>2, AscendingAppend
    <3>3. CASE ~(q = i /\ j = i)
      <4>1. blocks'[q][j] = blocks[q][j]
        BY <1>2, <3>3 DEF LoopbackFirst
      <4>2. QED
        BY <3>1, <4>1
    <3>4. QED
      BY <3>2, <3>3
  <2>3. QED
    BY <2>1, <2>2 DEF QueuesInOrder
<1>3. ASSUME NEW i \in Live, NEW p \in Live, HandleBlockMessage(i, p) PROVE QueuesInOrder'
  <2>1. /\ blocks[p][i] # <<>>
        /\ blocks' = [blocks EXCEPT ![p][i] = Tail(@)]
        /\ CurrentCert' = [CurrentCert EXCEPT ![i] = [@ EXCEPT ![p] = Head(blocks[p][i]) - 1]]
    BY <1>3 DEF HandleBlockMessage, NewCert
  <2>2. ASSUME NEW q \in Node, NEW j \in Node
        PROVE  Ascending(blocks'[q][j], CurrentCert'[j][q], Unordered(j, q))
    <3>1. Ascending(blocks[q][j], CurrentCert[j][q], Unordered(j, q))
      BY DEF QueuesInOrder
    <3>2. CASE q = p /\ j = i
      <4>1. blocks'[q][j] = Tail(blocks[q][j]) /\ CurrentCert'[j][q] = Head(blocks[q][j]) - 1
        BY <2>1, <3>2
      <4>2. CASE Head(blocks[q][j]) \notin Unordered(j, q)
        BY <2>1, <3>1, <3>2, <4>1, <4>2, AscendingTail
      <4>3. CASE Head(blocks[q][j]) \in Unordered(j, q)
        <5>0. Head(blocks[q][j]) = 1
          BY <4>3 DEF Unordered
        <5>1. CurrentCert'[j][q] = 0
          BY <4>1, <5>0
        <5>2. Ascending(Tail(blocks[q][j]), CurrentCert[j][q], Unordered(j, q))
          BY <2>1, <3>1, <3>2, AscendingTail
        <5>3. Tail(blocks[q][j]) \in Seq(Heights)
          BY <2>1, <3>2
        <5>4. QED
          BY <4>1, <5>1, <5>2, <5>3, AscendingFromZero
      <4>4. QED
        BY <4>2, <4>3
    <3>3. CASE ~(q = p /\ j = i)
      <4>1. blocks'[q][j] = blocks[q][j] /\ CurrentCert'[j][q] = CurrentCert[j][q]
        BY <2>1, <3>3
      <4>2. QED
        BY <3>1, <4>1
    <3>4. QED
      BY <3>2, <3>3
  <2>3. QED
    BY <2>2 DEF QueuesInOrder
<1>4. ASSUME NEW i \in Live, HandleVoteForBlock(i) PROVE QueuesInOrder'
  <2>1. PICK v \in votes : DropVote(i, v) \/ CountVote(i, v) \/ CertifyBlock(i, v)
    BY <1>4 DEF HandleVoteForBlock
  <2>2. UNCHANGED CurrentCert
    BY <1>4 DEF HandleVoteForBlock
  <2>3. CASE DropVote(i, v) \/ CountVote(i, v)
    BY <2>2, <2>3 DEF DropVote, CountVote, QueuesInOrder
  <2>4. CASE CertifyBlock(i, v)
    <3>1. Height[i] < MaxHeight /\ Send(i, Height[i] + 1, TRUE)
      BY <2>4 DEF CertifyBlock
    <3>2. Height[i] + 1 \in Heights
      BY <3>1, BoundsAssumption DEF TypeOK, Heights
    <3>3. QED
      BY <2>2, <3>1, <3>2, SendInOrder
  <2>5. QED
    BY <2>1, <2>3, <2>4
<1>5. ASSUME NEW i \in Live, NEW p \in Live, LoseBlock(p, i) PROVE QueuesInOrder'
  <2>1. /\ blocks[p][i] # <<>>
        /\ blocks' = [blocks EXCEPT ![p][i] = Tail(@)]
        /\ UNCHANGED CurrentCert
    BY <1>5 DEF LoseBlock, dataVars
  <2>2. ASSUME NEW q \in Node, NEW j \in Node
        PROVE  Ascending(blocks'[q][j], CurrentCert'[j][q], Unordered(j, q))
    <3>1. Ascending(blocks[q][j], CurrentCert[j][q], Unordered(j, q))
      BY DEF QueuesInOrder
    <3>2. \/ blocks'[q][j] = blocks[q][j]
          \/ blocks[q][j] # <<>> /\ blocks'[q][j] = Tail(blocks[q][j])
      BY <2>1
    <3>3. QED
      BY <2>1, <3>1, <3>2, AscendingTail
  <2>3. QED
    BY <2>2 DEF QueuesInOrder
<1>6. CASE UNCHANGED <<blocks, CurrentCert>>
  BY <1>6 DEF QueuesInOrder
<1>7. QED
  BY <1>1, <1>2, <1>3, <1>4, <1>5, <1>6
     DEF Next, vars, dataVars, netVars, LoseVote, Decide, ProposeAgain, HandleHalt,
         HandleHaltMissing, HandleLateProposal

LEMMA FirstOnceNext == Inv /\ FirstOnce /\ [Next]_vars => FirstOnce'
<1> SUFFICES ASSUME Inv, FirstOnce, [Next]_vars, NEW j \in Node
             PROVE  /\ \A k \in 1 .. Len(blocks'[j][j]) : blocks'[j][j][k] = 1 =>
                          /\ ~loopback'[j] /\ 1 \notin BlockHashMap'[j][j]
                          /\ \A m \in 1 .. Len(blocks'[j][j]) : blocks'[j][j][m] = 1 => m = k
                    /\ loopback'[j] => 1 \notin BlockHashMap'[j][j]
  BY DEF FirstOnce
<1> DEFINE q == blocks[j][j]
           Once == /\ \A k \in 1 .. Len(blocks'[j][j]) : blocks'[j][j][k] = 1 =>
                          /\ ~loopback'[j] /\ 1 \notin BlockHashMap'[j][j]
                          /\ \A m \in 1 .. Len(blocks'[j][j]) : blocks'[j][j][m] = 1 => m = k
                   /\ loopback'[j] => 1 \notin BlockHashMap'[j][j]
<1> USE DEF Inv
<1> Live \subseteq Node
  BY DEF Live
<1> /\ q \in Seq(Heights)
    /\ blocks \in [Node -> [Node -> Seq(Heights)]]
    /\ BlockHashMap \in [Node -> [Node -> SUBSET Heights]]
    /\ loopback \in [Node -> BOOLEAN]
  BY DEF TypeOK
<1>1. /\ \A k \in 1 .. Len(q) : q[k] = 1 =>
              /\ ~loopback[j] /\ 1 \notin BlockHashMap[j][j]
              /\ \A m \in 1 .. Len(q) : q[m] = 1 => m = k
      /\ loopback[j] => 1 \notin BlockHashMap[j][j]
  BY DEF FirstOnce
<1>2. ASSUME UNCHANGED <<blocks[j][j], loopback[j], BlockHashMap[j][j]>> PROVE Once
  BY <1>1, <1>2
<1>3. ASSUME NEW i \in Live, BroadcastFirst(i) PROVE Once
  <2>1. CASE i = j
    <3>1. blocks'[j][j] = q /\ BlockHashMap'[j][j] = BlockHashMap[j][j]
      BY <1>3, <2>1 DEF BroadcastFirst, Send
    <3>2. \A k \in 1 .. Len(q) : q[k] # 1
      BY <1>3, <2>1 DEF BroadcastFirst, DataInv, BlocksSent
    <3>3. 1 \notin BlockHashMap[j][j]
      BY <1>3, <2>1 DEF BroadcastFirst, DataInv, BlocksSent
    <3>4. QED
      BY <3>1, <3>2, <3>3
  <2>2. CASE i # j
    BY <1>2, <1>3, <2>2 DEF BroadcastFirst, Send
  <2>3. QED
    BY <2>1, <2>2
<1>4. ASSUME NEW i \in Live, LoopbackFirst(i) PROVE Once
  <2>1. CASE i = j
    <3>1. /\ blocks'[j][j] = Append(q, 1) /\ loopback[j] /\ ~loopback'[j]
          /\ BlockHashMap'[j][j] = BlockHashMap[j][j]
      BY <1>4, <2>1 DEF LoopbackFirst
    <3>2. /\ Len(Append(q, 1)) = Len(q) + 1
          /\ \A k \in 1 .. Len(q) : Append(q, 1)[k] = q[k] /\ q[k] # 1
      BY <1>1, <3>1
    <3>3. QED
      BY <1>1, <3>1, <3>2
  <2>2. CASE i # j
    BY <1>2, <1>4, <2>2 DEF LoopbackFirst
  <2>3. QED
    BY <2>1, <2>2
<1>5. ASSUME NEW i \in Live, NEW p \in Live, HandleBlockMessage(i, p) PROVE Once
  <2>1. /\ blocks[p][i] # <<>>
        /\ blocks' = [blocks EXCEPT ![p][i] = Tail(@)]
        /\ BlockHashMap' = [BlockHashMap EXCEPT ![i][p] = @ \cup {Head(blocks[p][i])}]
        /\ UNCHANGED loopback
    BY <1>5 DEF HandleBlockMessage
  <2>2. CASE i = j /\ p = j
    <3>1. /\ q # <<>> /\ blocks'[j][j] = Tail(q) /\ loopback'[j] = loopback[j]
          /\ BlockHashMap'[j][j] = BlockHashMap[j][j] \cup {Head(q)}
      BY <2>1, <2>2
    <3>2. /\ Len(q) \in Nat /\ 1 \in 1 .. Len(q) /\ Head(q) = q[1]
          /\ Len(Tail(q)) = Len(q) - 1
          /\ \A k \in 1 .. Len(Tail(q)) : Tail(q)[k] = q[k + 1] /\ k + 1 \in 1 .. Len(q)
      BY <3>1
    <3>3. \A k \in 1 .. Len(Tail(q)) : Tail(q)[k] = 1 =>
              /\ ~loopback[j] /\ 1 \notin BlockHashMap[j][j] /\ Head(q) # 1
              /\ \A m \in 1 .. Len(Tail(q)) : Tail(q)[m] = 1 => m = k
      BY <1>1, <3>2
    <3>4. loopback[j] => Head(q) # 1
      BY <1>1, <3>2
    <3>5. QED
      BY <1>1, <3>1, <3>3, <3>4
  <2>3. CASE ~(i = j /\ p = j)
    BY <1>2, <2>1, <2>3
  <2>4. QED
    BY <2>2, <2>3
<1>6. ASSUME NEW i \in Live, HandleVoteForBlock(i) PROVE Once
  <2>1. PICK v \in votes : v.to = i /\ (DropVote(i, v) \/ CountVote(i, v) \/ CertifyBlock(i, v))
    BY <1>6 DEF HandleVoteForBlock
  <2>2. UNCHANGED <<loopback, BlockHashMap>>
    BY <1>6 DEF HandleVoteForBlock
  <2>3. CASE i = j /\ CertifyBlock(i, v)
    <3>1. blocks'[j][j] = Append(q, Height[j] + 1)
      BY <2>3 DEF CertifyBlock, Send
    <3>2. Height[j] + 1 # 1
      <4>1. v.from \in Node /\ v.height \in Heights /\ v.height \in BlockHashMap[v.from][j]
        BY <2>1, <2>3 DEF DataInv, VotesHeld, Holders, TypeOK, Vote
      <4>2. v.height <= Height[j]
        BY <4>1 DEF DataInv, BlocksSent
      <4>3. QED
        BY <4>1, <4>2 DEF Heights, TypeOK
    <3>3. Height[j] + 1 \in Heights
      BY <2>3, BoundsAssumption DEF CertifyBlock, TypeOK, Heights
    <3>4. /\ Len(Append(q, Height[j] + 1)) = Len(q) + 1
          /\ Append(q, Height[j] + 1)[Len(q) + 1] = Height[j] + 1
          /\ \A k \in 1 .. Len(q) : Append(q, Height[j] + 1)[k] = q[k]
      BY <3>3
    <3>5. QED
      BY <1>1, <2>2, <3>1, <3>2, <3>4
  <2>4. CASE ~(i = j /\ CertifyBlock(i, v))
    <3>1. blocks'[j][j] = blocks[j][j]
      BY <2>1, <2>4 DEF DropVote, CountVote, CertifyBlock, Send
    <3>2. QED
      BY <1>2, <2>2, <3>1
  <2>5. QED
    BY <2>3, <2>4
<1>7. ASSUME NEW i \in Live, NEW p \in Live, LoseBlock(p, i) PROVE Once
  BY <1>2, <1>7 DEF LoseBlock, dataVars
<1>8. ASSUME UNCHANGED <<blocks, loopback, BlockHashMap>> PROVE Once
  BY <1>2, <1>8
<1>9. Once
  <2> HIDE DEF Once
  <2>1. CASE \/ \E i \in Live : BroadcastFirst(i) \/ LoopbackFirst(i) \/ HandleVoteForBlock(i)
             \/ \E i, p \in Live : HandleBlockMessage(i, p) \/ LoseBlock(p, i)
    BY <1>3, <1>4, <1>5, <1>6, <1>7, <2>1
  <2>2. CASE \/ \E v \in votes : LoseVote(v)
             \/ \E i \in Live : ProposeAgain(i)
             \/ \E e \in Epochs : Decide(e)
             \/ \E i \in Live, e \in Epochs :
                    HandleHalt(i, e) \/ HandleHaltMissing(i, e) \/ HandleLateProposal(i, e)
             \/ UNCHANGED vars
    <3>1. UNCHANGED <<blocks, loopback, BlockHashMap>>
      BY <2>2
         DEF vars, dataVars, netVars, LoseVote, Decide, ProposeAgain, HandleHalt,
             HandleHaltMissing, HandleLateProposal
    <3>2. QED
      BY <1>8, <3>1
  <2>3. QED
    BY <2>1, <2>2 DEF Next
<1>10. QED
  BY <1>9

\* What a commit does to one chain of one node.
LEMMA CommitOfChain ==
    ASSUME TypeOK, NEW i \in Node, NEW f \in Frontier, Commit(i, f),
           NEW j \in Node, NEW p \in Node
    PROVE  /\ OrderedCert[j][p] \in Nat /\ OrderedCert'[j][p] \in Nat
           /\ OrderedCert[j][p] <= OrderedCert'[j][p]
           /\ committed'[j][p] =
                 committed[j][p] \cup {h \in BlockHashMap[j][p] :
                     OrderedCert[j][p] < h /\ h <= OrderedCert'[j][p]}
<1>1. /\ OrderedCert \in [Node -> Frontier]
      /\ committed \in [Node -> [Node -> SUBSET Heights]]
      /\ f[p] \in 0 .. MaxHeight /\ OrderedCert[j][p] \in 0 .. MaxHeight
      /\ BlockHashMap[j][p] \subseteq Int
  <2>1. Heights \subseteq Int
    BY DEF Heights
  <2>2. BlockHashMap[j][p] \subseteq Heights
    BY DEF TypeOK
  <2>3. QED
    BY <2>1, <2>2 DEF TypeOK, Frontier
<1>2. CASE j # i
  <2>1. OrderedCert'[j] = OrderedCert[j] /\ committed'[j] = committed[j]
    BY <1>1, <1>2 DEF Commit
  <2>2. {h \in BlockHashMap[j][p] : OrderedCert[j][p] < h /\ h <= OrderedCert'[j][p]} = {}
    BY <1>1, <2>1
  <2>3. QED
    BY <1>1, <2>1, <2>2, BoundsAssumption
<1>3. CASE j = i
  <2>1. /\ OrderedCert'[j][p] = IF f[p] > OrderedCert[j][p] THEN f[p] ELSE OrderedCert[j][p]
        /\ committed'[j][p] = committed[j][p] \cup Deliverable(j, p, f)
    BY <1>1, <1>3 DEF Commit, Advanced
  <2>2. Deliverable(j, p, f) =
           {h \in BlockHashMap[j][p] : OrderedCert[j][p] < h /\ h <= OrderedCert'[j][p]}
    BY <1>1, <2>1 DEF Deliverable
  <2>3. QED
    BY <1>1, <2>1, <2>2, BoundsAssumption
<1>4. QED
  BY <1>2, <1>3

\* The steps that commit, and what they leave alone.
LEMMA OnlyCommits ==
    ASSUME Inv, [Next]_vars
    PROVE  \/ UNCHANGED <<OrderedCert, committed>>
           \/ /\ UNCHANGED BlockHashMap
              /\ \E i \in Node : \E f \in Frontier : FrontierCertified(f) /\ Commit(i, f)
<1> USE DEF Inv
<1> Live \subseteq Node
  BY DEF Live
<1>1. ASSUME NEW i \in Live, NEW e \in Epochs, HandleHalt(i, e)
      PROVE  /\ UNCHANGED BlockHashMap
             /\ \E f \in Frontier : FrontierCertified(f) /\ Commit(i, f)
  BY <1>1 DEF HandleHalt, dataVars, TypeOK, ControlInv
<1>2. ASSUME NEW i \in Live, NEW e \in Epochs, HandleLateProposal(i, e)
      PROVE  /\ UNCHANGED BlockHashMap
             /\ \E f \in Frontier : FrontierCertified(f) /\ Commit(i, f)
  <2>1. PICK b \in BlocksOf(e) : Commit(i, b.frontier)
    BY <1>2 DEF HandleLateProposal
  <2>2. b.frontier \in Frontier /\ FrontierCertified(b.frontier)
    BY DEF BlocksOf, TypeOK, SMVBABlock, ControlInv
  <2>3. QED
    BY <1>2, <2>1, <2>2 DEF HandleLateProposal, dataVars
<1>3. QED
  BY <1>1, <1>2
     DEF Next, vars, controlVars, BroadcastFirst, LoopbackFirst, HandleBlockMessage,
         HandleVoteForBlock, LoseBlock, LoseVote, Decide, ProposeAgain, HandleHaltMissing

LEMMA CommittedOrderedNext ==
    Inv /\ CommittedOrdered /\ [Next]_vars => CommittedOrdered'
<1> SUFFICES ASSUME Inv, CommittedOrdered, [Next]_vars
             PROVE  CommittedOrdered'
  OBVIOUS
<1>1. CASE UNCHANGED <<OrderedCert, committed>>
  BY <1>1 DEF CommittedOrdered
<1>2. ASSUME NEW i \in Node, NEW f \in Frontier, Commit(i, f)
      PROVE  CommittedOrdered'
  <2> SUFFICES ASSUME NEW j \in Node, NEW p \in Node, NEW h \in committed'[j][p]
               PROVE  h <= OrderedCert'[j][p]
    BY DEF CommittedOrdered
  <2>1. /\ OrderedCert[j][p] \in Nat /\ OrderedCert'[j][p] \in Nat
        /\ OrderedCert[j][p] <= OrderedCert'[j][p]
        /\ h \in committed[j][p] \/ h <= OrderedCert'[j][p]
    BY <1>2, CommitOfChain DEF Inv
  <2>2. CASE h \in committed[j][p]
    <3>1. h <= OrderedCert[j][p] /\ h \in Int
      BY <2>2 DEF CommittedOrdered, Inv, TypeOK, Heights
    <3>2. QED
      BY <2>1, <3>1
  <2>3. QED
    BY <2>1, <2>2
<1>3. QED
  BY <1>1, <1>2, OnlyCommits

LEMMA OrderInductive == Spec => [](Inv /\ QueuesInOrder /\ FirstOnce /\ CommittedOrdered)
<1>1. Init => Inv /\ QueuesInOrder /\ FirstOnce /\ CommittedOrdered
  BY TypeInit, DataInvInit, ControlInvInit
     DEF Init, Inv, QueuesInOrder, Ascending, FirstOnce, CommittedOrdered
<1>2. Inv /\ QueuesInOrder /\ FirstOnce /\ CommittedOrdered /\ [Next]_vars
         => (Inv /\ QueuesInOrder /\ FirstOnce /\ CommittedOrdered)'
  BY TypeNext, DataInvNext, ControlInvNext, QueuesInOrderNext, FirstOnceNext,
     CommittedOrderedNext DEF Inv
<1>3. QED
  BY <1>1, <1>2, PTL DEF Spec

(***************************************************************************)
(* Whatever is lost, no certificate goes back although handleBlockMessage  *)
(* assigns it, but for that of a node's own chain, once, when its first    *)
(* block is handled after later ones.                                      *)
(***************************************************************************)
THEOREM CertificatesOnlyGrow == Spec => CertNeverRegresses
<1> DEFINE Forward ==
               \A i, p \in Node :
                   \/ CurrentCert'[i][p] >= CurrentCert[i][p]
                   \/ i = p /\ 1 \in BlockHashMap'[i][i] \ BlockHashMap[i][i]
<1>1. Inv /\ QueuesInOrder /\ FirstOnce /\ [Next]_vars => Forward
  <2> SUFFICES ASSUME Inv, QueuesInOrder, FirstOnce, [Next]_vars, NEW i \in Node, NEW p \in Node
               PROVE  \/ CurrentCert'[i][p] >= CurrentCert[i][p]
                      \/ i = p /\ 1 \in BlockHashMap'[i][i] \ BlockHashMap[i][i]
    OBVIOUS
  <2> USE DEF Inv
  <2>1. /\ CurrentCert \in [Node -> Frontier] /\ CurrentCert[i] \in [Node -> Int]
        /\ blocks[p][i] \in Seq(Heights)
        /\ BlockHashMap \in [Node -> [Node -> SUBSET Heights]]
    <3>1. CurrentCert \in [Node -> Frontier]
      BY DEF TypeOK
    <3>2. CurrentCert[i] \in [Node -> Int]
      BY <3>1, BoundsAssumption DEF Frontier
    <3>3. QED
      BY <3>1, <3>2 DEF TypeOK
  <2>2. ASSUME NEW j \in Live, NEW q \in Live, HandleBlockMessage(j, q)
        PROVE  \/ CurrentCert'[i][p] >= CurrentCert[i][p]
               \/ i = p /\ 1 \in BlockHashMap'[i][i] \ BlockHashMap[i][i]
    <3>1. /\ blocks[q][j] # <<>>
          /\ CurrentCert' = [CurrentCert EXCEPT ![j] = [@ EXCEPT ![q] = Head(blocks[q][j]) - 1]]
          /\ BlockHashMap' = [BlockHashMap EXCEPT ![j][q] = @ \cup {Head(blocks[q][j])}]
      BY <2>2 DEF HandleBlockMessage, NewCert
    <3>2. CASE j = i /\ q = p /\ Head(blocks[p][i]) \notin Unordered(i, p)
      <4>1. CurrentCert'[i][p] = Head(blocks[p][i]) - 1
        BY <2>1, <3>1, <3>2
      <4>2. CurrentCert[i][p] < Head(blocks[p][i]) /\ Head(blocks[p][i]) \in Int
        <5>1. Ascending(blocks[p][i], CurrentCert[i][p], Unordered(i, p))
          BY DEF QueuesInOrder
        <5>2. Head(blocks[p][i]) \in Heights
          BY <2>1, <3>1, <3>2
        <5>3. QED
          BY <2>1, <3>1, <3>2, <5>1, <5>2, AscendingTail DEF Heights
      <4>3. QED
        BY <2>1, <4>1, <4>2
    <3>3. CASE j = i /\ q = p /\ Head(blocks[p][i]) \in Unordered(i, p)
      <4>1. i = p /\ Head(blocks[i][i]) = 1
        BY <3>3 DEF Unordered
      <4>2. 1 \in 1 .. Len(blocks[i][i]) /\ blocks[i][i][1] = 1
        BY <2>1, <3>1, <3>3, <4>1
      <4>3. 1 \notin BlockHashMap[i][i]
        BY <4>2 DEF FirstOnce
      <4>4. QED
        BY <2>1, <3>1, <3>3, <4>1, <4>3
    <3>4. CASE ~(j = i /\ q = p)
      <4>1. CurrentCert'[i][p] = CurrentCert[i][p]
        BY <2>1, <3>1, <3>4
      <4>2. QED
        BY <2>1, <4>1
    <3>5. QED
      BY <3>2, <3>3, <3>4
  <2>3. CASE UNCHANGED CurrentCert
    BY <2>1, <2>3
  <2>4. QED
    BY <2>2, <2>3
       DEF Next, vars, dataVars, BroadcastFirst, LoopbackFirst, HandleVoteForBlock, LoseBlock,
           LoseVote, Decide, ProposeAgain, HandleHalt, HandleHaltMissing, HandleLateProposal
<1>2. Inv /\ QueuesInOrder /\ FirstOnce /\ [Next]_vars => [Forward]_vars
  BY <1>1
<1>3. QED
  BY <1>2, OrderInductive, PTL DEF Spec, CertNeverRegresses

(***************************************************************************)
(* No commit, at the end of an epoch or late, adds a block below one the   *)
(* node already committed of the same chain.                               *)
(***************************************************************************)
THEOREM CommitsExtendChains == Spec => CommitInChainOrder
<1> DEFINE Extends == \A i, p \in Node : \A h \in committed'[i][p] \ committed[i][p] :
                          \A g \in committed[i][p] : g < h
<1>1. Inv /\ CommittedOrdered /\ [Next]_vars => Extends
  <2> SUFFICES ASSUME Inv, CommittedOrdered, [Next]_vars, NEW j \in Node, NEW p \in Node,
                      NEW h \in committed'[j][p] \ committed[j][p], NEW g \in committed[j][p]
               PROVE  g < h
    OBVIOUS
  <2>1. PICK i \in Node, f \in Frontier : Commit(i, f)
    BY OnlyCommits
  <2>2. OrderedCert[j][p] \in Nat /\ OrderedCert[j][p] < h /\ h \in BlockHashMap[j][p]
    BY <2>1, CommitOfChain DEF Inv
  <2>3. g \in Int /\ h \in Int /\ g <= OrderedCert[j][p]
    <3>1. BlockHashMap[j][p] \subseteq Heights /\ committed[j][p] \subseteq Heights
      BY DEF Inv, TypeOK
    <3>2. g <= OrderedCert[j][p]
      BY DEF CommittedOrdered
    <3>3. g \in Heights /\ h \in Heights
      BY <2>2, <3>1
    <3>4. QED
      BY <3>2, <3>3 DEF Heights
  <2>4. QED
    BY <2>2, <2>3
<1>2. Inv /\ CommittedOrdered /\ [Next]_vars => [Extends]_vars
  BY <1>1
<1>3. QED
  BY <1>2, OrderInductive, PTL DEF Spec, CommitInChainOrder

-----------------------------------------------------------------------------
(* The data plane implements the log. *)

LEMMA LogInit == Init => Log!Init
  BY DEF Init, Log!Init

LEMMA LogCommit ==
    ASSUME Inv, NEW i \in Node, NEW f \in Frontier, FrontierCertified(f), Commit(i, f),
           UNCHANGED BlockHashMap
    PROVE  Log!Commit(i)
<1>1. TypeOK
  BY DEF Inv
<1>2. /\ OrderedCert' = [OrderedCert EXCEPT ![i] = OrderedCert'[i]]
      /\ OrderedCert'[i] \in [Node -> Nat]
  <2>1. Advanced(OrderedCert[i], f) \in Frontier /\ OrderedCert \in [Node -> Frontier]
    BY <1>1, CommitType DEF TypeOK
  <2>2. OrderedCert' = [OrderedCert EXCEPT ![i] = Advanced(OrderedCert[i], f)]
    BY DEF Commit
  <2>3. OrderedCert'[i] = Advanced(OrderedCert[i], f)
    BY <2>1, <2>2
  <2>4. Frontier \subseteq [Node -> Nat]
    BY BoundsAssumption DEF Frontier
  <2>5. QED
    BY <2>1, <2>2, <2>3, <2>4
<1>3. ASSUME NEW p \in Node
      PROVE  /\ OrderedCert'[i][p] >= OrderedCert[i][p]
             /\ \A h \in OrderedCert[i][p] + 1 .. OrderedCert'[i][p] : Log!Kept(p, h)
  <2>1. /\ OrderedCert[i][p] \in Nat /\ OrderedCert'[i][p] \in Nat
        /\ OrderedCert[i][p] <= OrderedCert'[i][p]
    BY <1>1, CommitOfChain
  <2>2. OrderedCert'[i][p] = IF f[p] > OrderedCert[i][p] THEN f[p] ELSE OrderedCert[i][p]
    BY <1>1 DEF Commit, Advanced, TypeOK
  <2>3. f[p] \in Int
    BY DEF Frontier
  <2>4. ASSUME NEW h \in OrderedCert[i][p] + 1 .. OrderedCert'[i][p]
        PROVE  Log!Kept(p, h)
    <3>1. h \in 1 .. f[p]
      BY <2>1, <2>2, <2>3
    <3>2. Certified(p, h)
      BY <3>1 DEF FrontierCertified
    <3>3. QED
      <4>1. Holders(p, h) \in Quorum
        BY <3>2 DEF Certified, Holders, Quorum
      <4>2. QED
        BY <4>1 DEF Holders, Log!Kept
  <2>5. QED
    BY <2>1, <2>4
<1>4. committed' = [committed EXCEPT ![i] = [p \in Node |->
          committed[i][p] \cup Log!Between(i, p, OrderedCert[i][p], OrderedCert'[i][p])]]
  <2>1. committed \in [Node -> [Node -> SUBSET Heights]]
    BY <1>1 DEF TypeOK
  <2>2. committed' = [committed EXCEPT ![i] =
                        [p \in Node |-> committed[i][p] \cup Deliverable(i, p, f)]]
    BY DEF Commit
  <2>3. ASSUME NEW p \in Node
        PROVE  committed[i][p] \cup Deliverable(i, p, f) =
                 committed[i][p] \cup Log!Between(i, p, OrderedCert[i][p], OrderedCert'[i][p])
    <3>1. committed'[i][p] = committed[i][p] \cup Deliverable(i, p, f)
      BY <2>1, <2>2
    <3>2. QED
      BY <1>1, <3>1, CommitOfChain DEF Log!Between
  <2>4. QED
    BY <2>2, <2>3
<1>5. QED
  BY <1>2, <1>3, <1>4 DEF Log!Commit

LEMMA LogStep ==
    Inv /\ [Next]_vars => [Log!Next]_<<BlockHashMap, OrderedCert, committed>>
<1> SUFFICES ASSUME Inv, [Next]_vars
             PROVE  Log!Next \/ UNCHANGED <<BlockHashMap, OrderedCert, committed>>
  OBVIOUS
<1> Live \subseteq Node
  BY DEF Live
<1>1. ASSUME NEW i \in Live, NEW p \in Live, HandleBlockMessage(i, p)
      PROVE  Log!Next
  <2>1. blocks[p][i] # <<>> /\ blocks[p][i] \in Seq(Heights)
    BY <1>1 DEF HandleBlockMessage, Inv, TypeOK
  <2>2. PICK h \in Heights : h = Head(blocks[p][i])
    BY <2>1
  <2>3. /\ BlockHashMap' = [BlockHashMap EXCEPT ![i][p] = @ \cup {h}]
        /\ UNCHANGED <<OrderedCert, committed>>
    BY <1>1, <2>2 DEF HandleBlockMessage
  <2>4. Log!Store(i, p, h)
    BY <2>3 DEF Log!Store
  <2>5. QED
    BY <2>4 DEF Log!Next
<1>2. CASE ~\E i, p \in Live : HandleBlockMessage(i, p)
  <2>1. UNCHANGED BlockHashMap
    BY <1>2
       DEF Next, vars, dataVars, BroadcastFirst, LoopbackFirst, HandleVoteForBlock, LoseBlock,
           LoseVote, Decide, ProposeAgain, HandleHalt, HandleHaltMissing, HandleLateProposal
  <2>2. QED
    BY <2>1, OnlyCommits, LogCommit DEF Log!Next
<1>3. QED
  BY <1>1, <1>2

(***************************************************************************)
(* The data plane, with the epochs that drain it, implements CertifiedLog: *)
(* a node only ever stores a block or moves its commits forward over       *)
(* blocks that a quorum stores.                                            *)
(***************************************************************************)
THEOREM DataPlaneImplementsLog == Spec => Log!Init /\ LogSteps
<1>1. Inv /\ [Next]_vars => [Log!Next]_<<BlockHashMap, OrderedCert, committed>>
  BY LogStep
<1>2. QED
  BY <1>1, LogInit, InvInductive, PTL DEF Spec, LogSteps

-----------------------------------------------------------------------------
(* No wake-up of SMVBA is lost, and no chain gets stuck. *)

\* SMVBA runs at i whenever enough chains are ahead.
Woken(i) == Cardinality(NewCerts(CurrentCert[i], OrderedCert[i])) >= HightThreshold
               => smvbaflag[i]

LEMMA NeverIdleWoken == SMVBANeverIdle <=> \A i \in Live : Woken(i)
BY DEF SMVBANeverIdle, Woken, NewCerts

\* TrytoStartMVBA with the maps a node has afterwards wakes it, and no other
\* node is concerned.
LEMMA TryWakes ==
    ASSUME TypeOK, NEW i \in Node, NEW cc, NEW oc, NEW running \in BOOLEAN, NEW e,
           TrytoStartMVBA(i, cc, oc, running, e)
    PROVE  /\ Cardinality(NewCerts(cc, oc)) >= HightThreshold => smvbaflag'[i]
           /\ \A j \in Node \ {i} : smvbaflag'[j] = smvbaflag[j]
<1>1. smvbaflag' = [smvbaflag EXCEPT ![i] =
          running \/ (~running /\ Cardinality(NewCerts(cc, oc)) >= HightThreshold)]
  BY DEF TrytoStartMVBA
<1>2. QED
  BY <1>1 DEF TypeOK

\* Committing more leaves fewer chains ahead.
LEMMA CommitKeepsWoken ==
    ASSUME TypeOK, NEW i \in Node, NEW j \in Node, NEW f \in Frontier, Commit(i, f),
           UNCHANGED <<CurrentCert, smvbaflag>>, Woken(j)
    PROVE  Woken(j)'
<1>1. NewCerts(CurrentCert[j], OrderedCert[j])' \subseteq NewCerts(CurrentCert[j], OrderedCert[j])
  <2> SUFFICES ASSUME NEW p \in Node, CurrentCert[j][p] > OrderedCert'[j][p]
               PROVE  CurrentCert[j][p] > OrderedCert[j][p]
    BY DEF NewCerts
  <2>1. /\ OrderedCert[j][p] \in Nat /\ OrderedCert'[j][p] \in Nat
        /\ OrderedCert[j][p] <= OrderedCert'[j][p]
    BY CommitOfChain
  <2>2. CurrentCert[j][p] \in Int
    <3>1. CurrentCert[j] \in [Node -> 0 .. MaxHeight]
      BY DEF TypeOK, Frontier
    <3>2. QED
      BY <3>1
  <2>3. QED
    BY <2>1, <2>2
<1>2. NewCerts(CurrentCert[j], OrderedCert[j]) \in SUBSET Node
  BY DEF NewCerts
<1>3. /\ Cardinality(NewCerts(CurrentCert[j], OrderedCert[j])) \in Nat
      /\ Cardinality(NewCerts(CurrentCert[j], OrderedCert[j])') \in Nat
      /\ Cardinality(NewCerts(CurrentCert[j], OrderedCert[j])')
           <= Cardinality(NewCerts(CurrentCert[j], OrderedCert[j]))
  BY <1>1, <1>2, NodeSubsets
<1>4. QED
  BY <1>1, <1>3, ThresholdTypes DEF Woken

LEMMA WokenNext == TypeOK /\ SMVBANeverIdle /\ [Next]_vars => SMVBANeverIdle'
<1> SUFFICES ASSUME TypeOK, SMVBANeverIdle, [Next]_vars, NEW j \in Live
             PROVE  Woken(j)'
  BY NeverIdleWoken DEF SMVBANeverIdle, Woken, NewCerts
<1> Live \subseteq Node
  BY DEF Live
<1>0. Woken(j)
  BY NeverIdleWoken
<1>1. ASSUME NEW i \in Live, NEW p \in Live, HandleBlockMessage(i, p) PROVE Woken(j)'
  <2> DEFINE cc == NewCert(i, p, Head(blocks[p][i]))
  <2>1. /\ CurrentCert' = [CurrentCert EXCEPT ![i] = cc]
        /\ TrytoStartMVBA(i, cc, OrderedCert[i], smvbaflag[i], Epoch[i])
        /\ UNCHANGED OrderedCert
    BY <1>1 DEF HandleBlockMessage
  <2> HIDE DEF cc
  <2>2. smvbaflag[i] \in BOOLEAN /\ CurrentCert \in [Node -> Frontier]
    BY DEF TypeOK
  <2>3. CurrentCert'[j] = IF j = i THEN cc ELSE CurrentCert[j]
    BY <2>1, <2>2
  <2>4. /\ Cardinality(NewCerts(cc, OrderedCert[i])) >= HightThreshold => smvbaflag'[i]
        /\ \A k \in Node \ {i} : smvbaflag'[k] = smvbaflag[k]
    BY <2>1, <2>2, TryWakes
  <2>5. CASE j = i
    BY <2>1, <2>3, <2>4, <2>5 DEF Woken, NewCerts
  <2>6. CASE j # i
    BY <1>0, <2>1, <2>3, <2>4, <2>6 DEF Woken, NewCerts
  <2>7. QED
    BY <2>5, <2>6
<1>2. ASSUME NEW i \in Live, NEW e \in Epochs, HandleHalt(i, e) PROVE Woken(j)'
  <2>1. PICK f \in decision[e] :
            /\ Commit(i, f)
            /\ TrytoStartMVBA(i, CurrentCert[i], Advanced(OrderedCert[i], f), FALSE, e + 1)
    BY <1>2 DEF HandleHalt
  <2>2. UNCHANGED CurrentCert
    BY <1>2 DEF HandleHalt, dataVars
  <2>3. OrderedCert'[j] = IF j = i THEN Advanced(OrderedCert[i], f) ELSE OrderedCert[j]
    BY <2>1 DEF Commit, TypeOK
  <2>4. QED
    BY <1>0, <2>1, <2>2, <2>3, TryWakes DEF Woken
<1>3. ASSUME NEW i \in Live, NEW e \in Epochs, HandleHaltMissing(i, e) PROVE Woken(j)'
  <2>1. /\ TrytoStartMVBA(i, CurrentCert[i], OrderedCert[i], FALSE, e + 1)
        /\ UNCHANGED <<CurrentCert, OrderedCert>>
    BY <1>3 DEF HandleHaltMissing, dataVars
  <2>2. /\ Cardinality(NewCerts(CurrentCert[i], OrderedCert[i])) >= HightThreshold => smvbaflag'[i]
        /\ \A k \in Node \ {i} : smvbaflag'[k] = smvbaflag[k]
    BY <2>1, TryWakes
  <2>3. CASE j = i
    BY <2>1, <2>2, <2>3 DEF Woken, NewCerts
  <2>4. CASE j # i
    BY <1>0, <2>1, <2>2, <2>4 DEF Woken, NewCerts
  <2>5. QED
    BY <2>3, <2>4
<1>4. ASSUME NEW i \in Live, NEW e \in Epochs, HandleLateProposal(i, e) PROVE Woken(j)'
  <2>1. PICK b \in BlocksOf(e) : Commit(i, b.frontier)
    BY <1>4 DEF HandleLateProposal
  <2>2. b.frontier \in Frontier
    BY DEF BlocksOf, TypeOK, SMVBABlock
  <2>3. UNCHANGED <<CurrentCert, smvbaflag>>
    BY <1>4 DEF HandleLateProposal, dataVars
  <2>4. QED
    BY <1>0, <2>1, <2>2, <2>3, CommitKeepsWoken
<1>5. ASSUME UNCHANGED <<CurrentCert, OrderedCert, smvbaflag>> PROVE Woken(j)'
  BY <1>0, <1>5 DEF Woken, NewCerts
<1>6. CASE \/ \E i \in Live : BroadcastFirst(i) \/ LoopbackFirst(i) \/ HandleVoteForBlock(i)
           \/ \E p, i \in Live : LoseBlock(p, i)
           \/ \E v \in votes : LoseVote(v)
           \/ \E e \in Epochs : Decide(e)
           \/ \E i \in Live : ProposeAgain(i)
           \/ UNCHANGED vars
  <2>1. UNCHANGED <<CurrentCert, OrderedCert, smvbaflag>>
    BY <1>6 DEF BroadcastFirst, LoopbackFirst, HandleVoteForBlock, LoseBlock, LoseVote,
                Decide, ProposeAgain, vars, dataVars, controlVars
  <2>2. QED
    BY <1>5, <2>1
<1>7. QED
  BY <1>1, <1>2, <1>3, <1>4, <1>6 DEF Next

(***************************************************************************)
(* No wake-up is lost: whenever the certificates of enough chains are      *)
(* ahead of what a node ordered, SMVBA runs there, although nothing but a  *)
(* block or the end of an epoch ever calls TrytoStartMVBA.                 *)
(***************************************************************************)
THEOREM NoLostWakeUp == Spec => []SMVBANeverIdle
<1>1. Init => SMVBANeverIdle
  <2> SUFFICES ASSUME Init, NEW i \in Live PROVE Woken(i)
    BY NeverIdleWoken
  <2>1. NewCerts(CurrentCert[i], OrderedCert[i]) = {}
    BY DEF Init, NewCerts, Live
  <2>2. Cardinality(NewCerts(CurrentCert[i], OrderedCert[i])) = 0
    BY <2>1, FS_EmptySet
  <2>3. QED
    BY <2>2, ThresholdTypes DEF Woken
<1>2. QED
  BY <1>1, WokenNext, TypeCorrect, TypeInit, TypeNext, PTL DEF Spec

(***************************************************************************)
(* Why no chain gets stuck: without losses every live node's vote for the  *)
(* tip of a chain is accounted for until the next block is sent, in the    *)
(* queue it will come out of, on its way, or counted; and fewer than a     *)
(* quorum are counted while the tip stands (the aggregator reports a       *)
(* threshold only once, so one vote too many would be the end of it).      *)
(***************************************************************************)
Accounted(i, j) ==
    \/ i = j /\ loopback[i] /\ Height[i] = 1
    \/ \E k \in 1 .. Len(blocks[i][j]) : blocks[i][j][k] = Height[i]
    \/ [from |-> j, to |-> i, height |-> Height[i]] \in votes
    \/ j \in blockVotes[i][Height[i]]

VotesAccounted ==
    \A i, j \in Live : losses = 0 /\ Height[i] >= 1 => Accounted(i, j)

BelowQuorum ==
    \A i \in Live : \A h \in Heights :
        h >= Height[i] => Cardinality(blockVotes[i][h]) < HightThreshold

\* The votes under way name heights that exist.
LEMMA VotesForBlocks ==
    ASSUME Inv, NEW v \in votes
    PROVE  /\ v.from \in Node /\ v.to \in Node /\ v.height \in Heights
           /\ v.height <= Height[v.to]
<1> USE DEF Inv
<1>1. v.from \in Node /\ v.to \in Node /\ v.height \in Heights
  BY DEF TypeOK, Vote
<1>2. v.height \in BlockHashMap[v.from][v.to]
  BY DEF DataInv, VotesHeld, Holders
<1>3. QED
  BY <1>1, <1>2 DEF DataInv, BlocksSent

LEMMA BelowQuorumNext ==
    ASSUME LowThreshold # HightThreshold, Inv, Inv', BelowQuorum, [Next]_vars
    PROVE  BelowQuorum'
<1> USE DEF Inv
<1> Live \subseteq Node
  BY DEF Live
<1>1. ASSUME NEW i \in Live, HandleVoteForBlock(i) PROVE BelowQuorum'
  <2>1. PICK v \in votes : v.to = i /\ (DropVote(i, v) \/ CountVote(i, v) \/ CertifyBlock(i, v))
    BY <1>1 DEF HandleVoteForBlock
  <2>2. v.from \in Node /\ v.height \in Heights
    BY VotesForBlocks
  <2> DEFINE old == blockVotes[i][v.height]
             voters == old \cup {v.from}
  <2>3. CASE DropVote(i, v)
    BY <2>3 DEF DropVote, BelowQuorum
  <2>4. CASE CountVote(i, v)
    <3>1. /\ v.height >= Height[i] /\ ~HighFlag(Cardinality(voters)) /\ UNCHANGED Height
          /\ blockVotes' = [blockVotes EXCEPT ![i][v.height] = voters]
      BY <2>4 DEF CountVote
    <3>2. old \in SUBSET Node
      BY <2>2 DEF TypeOK
    <3>3. /\ Cardinality(old) \in Nat /\ Cardinality(voters) \in Nat
          /\ Cardinality(voters) <= Cardinality(old) + 1
      <4> HIDE DEF old
      <4>1. IsFiniteSet(old)
        BY <3>2, CommitteeAssumption, FS_Subset
      <4>2. Cardinality(old) \in Nat
        BY <4>1, FS_CardinalityType
      <4>3. Cardinality(voters) = Cardinality(old) \/ Cardinality(voters) = Cardinality(old) + 1
        BY <4>1, FS_AddElement
      <4>4. QED
        BY <4>2, <4>3
    <3>4. Cardinality(old) < HightThreshold
      BY <2>2, <3>1 DEF BelowQuorum
    <3>5. Cardinality(voters) # HightThreshold
      BY <3>1 DEF HighFlag, LowFlag
    <3>6. Cardinality(voters) < HightThreshold
      BY <3>3, <3>4, <3>5, ThresholdTypes
    <3>7. ASSUME NEW n \in Live, NEW h \in Heights
          PROVE  \/ blockVotes'[n][h] = blockVotes[n][h]
                 \/ n = i /\ h = v.height /\ blockVotes'[n][h] = voters
      <4>1. blockVotes \in [Node -> [Heights -> SUBSET Node]]
        BY DEF TypeOK
      <4> HIDE DEF voters
      <4>2. QED
        BY <2>2, <3>1, <4>1
    <3>8. QED
      <4> HIDE DEF voters
      <4>1. QED
        BY <3>1, <3>6, <3>7 DEF BelowQuorum
  <2>5. CASE CertifyBlock(i, v)
    <3>1. /\ v.height <= Height[i]
          /\ Height' = [Height EXCEPT ![i] = @ + 1]
          /\ blockVotes' = [blockVotes EXCEPT ![i][v.height] = voters]
      BY <2>1, <2>5, VotesForBlocks DEF CertifyBlock
    <3>2. \A n \in Node : Height[n] \in Int
      BY BoundsAssumption DEF TypeOK
    <3>3. ASSUME NEW n \in Live, NEW h \in Heights, h >= Height'[n]
          PROVE  h >= Height[n] /\ blockVotes'[n][h] = blockVotes[n][h]
      <4>1. Height'[n] = IF n = i THEN Height[n] + 1 ELSE Height[n]
        BY <3>1 DEF TypeOK
      <4>2. h \in Int /\ v.height \in Int
        BY <2>2 DEF Heights
      <4>3. ~(n = i /\ h = v.height) /\ h >= Height[n]
        BY <3>1, <3>2, <3>3, <4>1, <4>2
      <4>4. blockVotes \in [Node -> [Heights -> SUBSET Node]]
        BY DEF TypeOK
      <4> HIDE DEF voters
      <4>5. QED
        BY <2>2, <3>1, <4>3, <4>4
    <3>4. QED
      BY <3>3 DEF BelowQuorum
  <2>6. QED
    BY <2>1, <2>3, <2>4, <2>5
<1>2. ASSUME NEW i \in Live, BroadcastFirst(i) PROVE BelowQuorum'
  <2>1. Height[i] = 0 /\ Height' = [Height EXCEPT ![i] = 1] /\ UNCHANGED blockVotes
    BY <1>2 DEF BroadcastFirst
  <2>2. \A n \in Live : Height[n] <= Height'[n] /\ Height[n] \in Int /\ Height'[n] \in Int
    <3>1. \A n \in Node : Height[n] <= Height'[n]
      BY Growth
    <3>2. \A n \in Node : Height[n] \in 0 .. MaxHeight /\ Height'[n] \in 0 .. MaxHeight
      BY DEF TypeOK
    <3>3. QED
      BY <3>1, <3>2
  <2>3. \A h \in Heights : h \in Int
    BY DEF Heights
  <2>4. QED
    BY <2>1, <2>2, <2>3 DEF BelowQuorum
<1>3. ASSUME UNCHANGED <<Height, blockVotes>> PROVE BelowQuorum'
  BY <1>3 DEF BelowQuorum
<1>4. QED
  BY <1>1, <1>2, <1>3
     DEF Next, vars, dataVars, LoopbackFirst, HandleBlockMessage, LoseBlock, LoseVote, Decide,
         ProposeAgain, HandleHalt, HandleHaltMissing, HandleLateProposal

\* A broadcast puts the new tip on the way to every live node.
LEMMA SentArrives ==
    ASSUME TypeOK, NEW i \in Node, NEW j \in Node, NEW h \in Heights,
           blocks'[i][j] = Append(blocks[i][j], h)
    PROVE  \E k \in 1 .. Len(blocks'[i][j]) : blocks'[i][j][k] = h
<1>1. blocks[i][j] \in Seq(Heights)
  BY DEF TypeOK
<1>2. /\ Len(blocks[i][j]) + 1 \in 1 .. Len(blocks'[i][j])
      /\ blocks'[i][j][Len(blocks[i][j]) + 1] = h
  BY <1>1
<1>3. QED
  BY <1>2

LEMMA VotesAccountedNext ==
    ASSUME Inv, VotesAccounted, [Next]_vars
    PROVE  VotesAccounted'
<1> SUFFICES ASSUME NEW n \in Live, NEW j \in Live, losses' = 0, Height'[n] >= 1
             PROVE  Accounted(n, j)'
  BY DEF VotesAccounted
<1> USE DEF Inv
<1> Live \subseteq Node
  BY DEF Live
<1> DEFINE InQueue == \E k \in 1 .. Len(blocks[n][j]) : blocks[n][j][k] = Height[n]
<1>0. blocks[n][j] \in Seq(Heights) /\ Height[n] \in Int
  BY BoundsAssumption DEF TypeOK
<1>1. ASSUME UNCHANGED <<losses, Height>>
      PROVE  \/ n = j /\ loopback[n] /\ Height[n] = 1
             \/ InQueue
             \/ [from |-> j, to |-> n, height |-> Height[n]] \in votes
             \/ j \in blockVotes[n][Height[n]]
  BY <1>1 DEF VotesAccounted, Accounted
<1>2. ASSUME NEW i \in Live, BroadcastFirst(i) PROVE Accounted(n, j)'
  <2>1. /\ Height[i] = 0 /\ Height' = [Height EXCEPT ![i] = 1]
        /\ loopback' = [loopback EXCEPT ![i] = TRUE]
        /\ Send(i, 1, FALSE)
        /\ UNCHANGED <<blockVotes, votes, losses>>
    BY <1>2 DEF BroadcastFirst
  <2>2. CASE n = i /\ j = i
    BY <2>1, <2>2 DEF Accounted, TypeOK
  <2>3. CASE n = i /\ j # i
    <3>1. 1 \in Heights
      BY BoundsAssumption DEF Heights
    <3>2. \E k \in 1 .. Len(blocks'[n][j]) : blocks'[n][j][k] = 1
      <4>1. blocks'[n][j] = Append(blocks[n][j], 1)
        BY <2>1, <2>3 DEF Send, TypeOK
      <4>2. QED
        BY <3>1, <4>1, SentArrives
    <3>3. Height'[n] = 1
      BY <2>1, <2>3 DEF TypeOK
    <3>4. QED
      BY <3>2, <3>3 DEF Accounted
  <2>4. CASE n # i
    <3>1. blocks'[n] = blocks[n] /\ Height'[n] = Height[n] /\ loopback'[n] = loopback[n]
      BY <2>1, <2>4 DEF Send, TypeOK
    <3>2. Accounted(n, j)
      BY <2>1, <3>1 DEF VotesAccounted
    <3>3. QED
      BY <2>1, <3>1, <3>2 DEF Accounted
  <2>5. QED
    BY <2>2, <2>3, <2>4
<1>3. ASSUME NEW i \in Live, LoopbackFirst(i) PROVE Accounted(n, j)'
  <2>1. /\ loopback' = [loopback EXCEPT ![i] = FALSE]
        /\ blocks' = [blocks EXCEPT ![i][i] = Append(@, 1)]
        /\ UNCHANGED <<Height, losses, votes, blockVotes>>
    BY <1>3 DEF LoopbackFirst
  <2>2. CASE n = i /\ j = i
    <3>1. blocks'[n][j] = Append(blocks[n][j], 1)
      BY <2>1, <2>2 DEF TypeOK
    <3>2. /\ Len(blocks'[n][j]) = Len(blocks[n][j]) + 1
          /\ Len(blocks[n][j]) \in Nat
          /\ blocks'[n][j][Len(blocks[n][j]) + 1] = 1
          /\ \A k \in 1 .. Len(blocks[n][j]) : blocks'[n][j][k] = blocks[n][j][k]
      BY <1>0, <3>1, BoundsAssumption DEF Heights
    <3>3. CASE Height[n] = 1
      <4>1. Len(blocks[n][j]) + 1 \in 1 .. Len(blocks'[n][j])
        BY <3>2
      <4>2. QED
        BY <2>1, <3>2, <3>3, <4>1 DEF Accounted
    <3>4. CASE InQueue
      <4>1. PICK k \in 1 .. Len(blocks[n][j]) : blocks[n][j][k] = Height[n]
        BY <3>4
      <4>2. k \in 1 .. Len(blocks'[n][j]) /\ blocks'[n][j][k] = Height[n]
        BY <3>2, <4>1
      <4>3. QED
        BY <2>1, <4>2 DEF Accounted
    <3>5. QED
      BY <1>1, <2>1, <3>3, <3>4 DEF Accounted
  <2>3. CASE ~(n = i /\ j = i)
    <3>1. blocks'[n][j] = blocks[n][j] /\ (n = j => loopback'[n] = loopback[n])
      BY <2>1, <2>3 DEF TypeOK
    <3>2. QED
      BY <1>1, <2>1, <3>1 DEF Accounted
  <2>4. QED
    BY <2>2, <2>3
<1>4. ASSUME NEW i \in Live, NEW p \in Live, HandleBlockMessage(i, p) PROVE Accounted(n, j)'
  <2>1. /\ blocks[p][i] # <<>>
        /\ blocks' = [blocks EXCEPT ![p][i] = Tail(@)]
        /\ votes' = votes \cup {[from |-> i, to |-> p, height |-> Head(blocks[p][i])]}
        /\ UNCHANGED <<Height, loopback, blockVotes, losses>>
    BY <1>4 DEF HandleBlockMessage
  <2>2. CASE n = p /\ j = i /\ InQueue
    <3>1. PICK k \in 1 .. Len(blocks[n][j]) : blocks[n][j][k] = Height[n]
      BY <2>2
    <3>2. blocks[n][j] # <<>> /\ blocks'[n][j] = Tail(blocks[n][j])
      BY <2>1, <2>2 DEF TypeOK
    <3>3. CASE k = 1
      <4>1. Head(blocks[n][j]) = Height[n]
        BY <1>0, <3>1, <3>2, <3>3
      <4>2. QED
        BY <2>1, <2>2, <4>1 DEF Accounted
    <3>4. CASE k # 1
      <4>1. k - 1 \in 1 .. Len(blocks'[n][j]) /\ blocks'[n][j][k - 1] = Height[n]
        BY <1>0, <3>1, <3>2, <3>4
      <4>2. QED
        BY <2>1, <4>1 DEF Accounted
    <3>5. QED
      BY <3>3, <3>4
  <2>3. CASE ~(n = p /\ j = i)
    <3>1. blocks'[n][j] = blocks[n][j]
      BY <2>1, <2>3 DEF TypeOK
    <3>2. QED
      BY <1>1, <2>1, <3>1 DEF Accounted
  <2>4. CASE ~InQueue
    BY <1>1, <2>1, <2>4 DEF Accounted
  <2>5. QED
    BY <2>2, <2>3, <2>4
<1>5. ASSUME NEW i \in Live, HandleVoteForBlock(i) PROVE Accounted(n, j)'
  <2>1. PICK v \in votes :
            /\ v.to = i
            /\ votes' = votes \ {v}
            /\ DropVote(i, v) \/ CountVote(i, v) \/ CertifyBlock(i, v)
            /\ UNCHANGED <<loopback, losses>>
    BY <1>5 DEF HandleVoteForBlock
  <2>2. v.from \in Node /\ v.height \in Heights /\ v.height <= Height[i]
    BY <2>1, VotesForBlocks
  <2>3. CASE n = i /\ CertifyBlock(i, v)
    <3>1. /\ Height[i] < MaxHeight
          /\ Height' = [Height EXCEPT ![i] = @ + 1]
          /\ Send(i, Height[i] + 1, TRUE)
      BY <2>3 DEF CertifyBlock
    <3>2. Height[i] + 1 \in Heights
      <4>1. Height[i] \in 0 .. MaxHeight
        BY DEF TypeOK
      <4>2. QED
        BY <3>1, <4>1, BoundsAssumption DEF Heights
    <3>3. \E k \in 1 .. Len(blocks'[i][j]) : blocks'[i][j][k] = Height[i] + 1
      <4>1. blocks \in [Node -> [Node -> Seq(Heights)]]
        BY DEF TypeOK
      <4>2. blocks'[i][j] = Append(blocks[i][j], Height[i] + 1)
        BY <3>1, <4>1 DEF Send
      <4>3. QED
        BY <3>2, <4>2, SentArrives
    <3>4. Height'[n] = Height[i] + 1
      BY <2>3, <3>1 DEF TypeOK
    <3>5. QED
      BY <2>3, <3>3, <3>4 DEF Accounted
  <2>4. CASE ~(n = i /\ CertifyBlock(i, v))
    <3>1. blocks'[n][j] = blocks[n][j] /\ Height'[n] = Height[n]
      <4>1. CASE DropVote(i, v) \/ CountVote(i, v)
        BY <4>1 DEF DropVote, CountVote
      <4>2. CASE n # i /\ CertifyBlock(i, v)
        <5>1. /\ Height' = [Height EXCEPT ![i] = @ + 1]
              /\ \E sent : blocks' = [blocks EXCEPT ![i] = sent]
          BY <4>2, Zenon DEF CertifyBlock, Send
        <5>2. Height \in [Node -> 0 .. MaxHeight] /\ blocks \in [Node -> [Node -> Seq(Heights)]]
          BY DEF TypeOK
        <5>3. PICK sent : blocks' = [blocks EXCEPT ![i] = sent]
          BY <5>1
        <5>4. n # i
          BY <4>2
        <5>5. QED
          BY <5>1, <5>2, <5>3, <5>4
      <4>3. QED
        BY <2>1, <2>4, <4>1, <4>2
    <3>2. Accounted(n, j)
      BY <2>1, <3>1 DEF VotesAccounted
    <3>3. CASE v = [from |-> j, to |-> n, height |-> Height[n]]
      <4>1. n = i /\ v.from = j /\ v.height = Height[i]
        BY <2>1, <3>3
      <4>2. CountVote(i, v)
        BY <1>0, <2>1, <2>4, <4>1 DEF DropVote
      <4>3. blockVotes' = [blockVotes EXCEPT ![i][v.height] = @ \cup {v.from}]
        BY <4>2 DEF CountVote
      <4>4. j \in blockVotes'[n][Height[n]]
        BY <2>2, <4>1, <4>3 DEF TypeOK
      <4>5. QED
        BY <3>1, <4>4 DEF Accounted
    <3>4. CASE v # [from |-> j, to |-> n, height |-> Height[n]]
      <4>1. ASSUME NEW h \in Heights
            PROVE  blockVotes[n][h] \subseteq blockVotes'[n][h]
        <5>1. \/ blockVotes' = blockVotes
              \/ blockVotes' = [blockVotes EXCEPT ![i][v.height] = @ \cup {v.from}]
          BY <2>1 DEF DropVote, CountVote, CertifyBlock
        <5>2. blockVotes \in [Node -> [Heights -> SUBSET Node]]
          BY DEF TypeOK
        <5>3. QED
          BY <2>2, <5>1, <5>2
      <4>2. Height[n] \in Heights
        BY <1>0, <3>1 DEF TypeOK, Heights
      <4>3. QED
        BY <2>1, <3>1, <3>2, <3>4, <4>1, <4>2 DEF Accounted
    <3>5. QED
      BY <3>3, <3>4
  <2>5. QED
    BY <2>3, <2>4
<1>6. ASSUME \/ \E p, i \in Live : LoseBlock(p, i)
             \/ \E v \in votes : LoseVote(v)
      PROVE  FALSE
  <2>1. losses' = losses + 1
    BY <1>6 DEF LoseBlock, LoseVote
  <2>2. QED
    BY <2>1 DEF TypeOK
<1>7. ASSUME UNCHANGED <<Height, loopback, blocks, votes, losses, blockVotes>>
      PROVE  Accounted(n, j)'
  BY <1>1, <1>7 DEF Accounted
<1>8. CASE \/ \E e \in Epochs : Decide(e)
           \/ \E i \in Live : ProposeAgain(i)
           \/ \E i \in Live, e \in Epochs :
                  HandleHalt(i, e) \/ HandleHaltMissing(i, e) \/ HandleLateProposal(i, e)
           \/ UNCHANGED vars
  <2>1. UNCHANGED <<Height, loopback, blocks, votes, losses, blockVotes>>
    BY <1>8 DEF Decide, ProposeAgain, HandleHalt, HandleHaltMissing, HandleLateProposal, vars,
                dataVars, netVars
  <2>2. QED
    BY <1>7, <2>1
<1>9. QED
  BY <1>2, <1>3, <1>4, <1>5, <1>6, <1>8 DEF Next

LEMMA AccountedNeverStuck ==
    ASSUME Cardinality(Live) >= HightThreshold, Inv, VotesAccounted, BelowQuorum
    PROVE  NoChainStuck
<1> SUFFICES ASSUME NEW i \in Live, losses = 0, Height[i] \in 1 .. MaxHeight - 1,
                    ~loopback[i],
                    \A j \in Live :
                        /\ \A k \in DOMAIN blocks[i][j] : blocks[i][j][k] # Height[i]
                        /\ [from |-> j, to |-> i, height |-> Height[i]] \notin votes
             PROVE  FALSE
  BY DEF NoChainStuck
<1> USE DEF Inv
<1> Live \subseteq Node
  BY DEF Live
<1>1. Height[i] \in Heights
  BY DEF TypeOK, Heights
<1>2. ASSUME NEW j \in Live PROVE j \in blockVotes[i][Height[i]]
  <2>1. blocks[i][j] \in Seq(Heights)
    BY DEF TypeOK
  <2>2. DOMAIN blocks[i][j] = 1 .. Len(blocks[i][j])
    BY <2>1
  <2>3. Accounted(i, j)
    BY DEF VotesAccounted
  <2>4. QED
    BY <2>2, <2>3 DEF Accounted
<1>3. Live \in SUBSET blockVotes[i][Height[i]] /\ blockVotes[i][Height[i]] \in SUBSET Node
  BY <1>1, <1>2 DEF TypeOK
<1>4. /\ Cardinality(Live) \in Nat /\ Cardinality(blockVotes[i][Height[i]]) \in Nat
      /\ Cardinality(Live) <= Cardinality(blockVotes[i][Height[i]])
  BY <1>3, NodeSubsets
<1>5. Cardinality(blockVotes[i][Height[i]]) < HightThreshold
  <2>1. Height[i] >= Height[i]
    BY <1>1 DEF Heights
  <2>2. QED
    BY <1>1, <2>1 DEF BelowQuorum
<1>6. QED
  BY <1>4, <1>5, ThresholdTypes

(***************************************************************************)
(* While nothing is lost and a quorum is live, no chain gets stuck on a    *)
(* vote that was dropped as late or not counted, in any committee whose    *)
(* thresholds differ (four nodes or more; SmallCommitteesStall covers the  *)
(* rest).                                                                  *)
(***************************************************************************)
THEOREM ChainsNeverStuck ==
    ASSUME LowThreshold # HightThreshold, Cardinality(Live) >= HightThreshold
    PROVE  Spec => []NoChainStuck
<1>1. Init => VotesAccounted
  BY DEF Init, VotesAccounted, Live
<1>2. Init => BelowQuorum
  <2>1. Cardinality({}) = 0
    BY FS_EmptySet
  <2>2. QED
    BY <2>1, ThresholdTypes DEF Init, BelowQuorum, Live
<1>3. Inv /\ Inv' /\ VotesAccounted /\ BelowQuorum /\ [Next]_vars
         => VotesAccounted' /\ BelowQuorum'
  BY VotesAccountedNext, BelowQuorumNext
<1>4. Inv /\ VotesAccounted /\ BelowQuorum => NoChainStuck
  BY AccountedNeverStuck
<1>5. QED
  BY <1>1, <1>2, <1>3, <1>4, InvInductive, PTL DEF Spec

-----------------------------------------------------------------------------
(* Committees of one, two or three nodes. *)

Stalled == \A i \in Node : Height[i] <= 1 /\ smvbaflag[i] = FALSE

LEMMA NoStart ==
    ASSUME TypeOK, Stalled, NEW i \in Node, NEW cc \in Frontier, NEW oc \in Frontier, NEW e,
           \A p \in Node : cc[p] = 0, TrytoStartMVBA(i, cc, oc, FALSE, e)
    PROVE  \A j \in Node : smvbaflag'[j] = FALSE
<1>1. NewCerts(cc, oc) = {}
  BY DEF NewCerts, Frontier
<1>2. Cardinality(NewCerts(cc, oc)) = 0
  BY <1>1, FS_EmptySet
<1>3. ~(Cardinality(NewCerts(cc, oc)) >= HightThreshold)
  BY <1>2, ThresholdTypes
<1>4. smvbaflag' = [smvbaflag EXCEPT ![i] = FALSE]
  BY <1>3 DEF TrytoStartMVBA
<1>5. QED
  BY <1>4 DEF TypeOK, Stalled

LEMMA LowIsZero ==
    ASSUME TypeOK, DataInv, Stalled, NEW i \in Node, NEW p \in Node
    PROVE  CurrentCert[i][p] = 0
<1>1. CurrentCert[i] \in Frontier /\ Height[p] \in 0 .. MaxHeight
  BY DEF TypeOK
<1>2. CurrentCert[i][p] > 0 => CurrentCert[i][p] < Height[p]
  BY DEF DataInv, CertsBelow, Below
<1>3. Height[p] <= 1
  BY DEF Stalled
<1>4. QED
  BY <1>1, <1>2, <1>3, BoundsAssumption DEF Frontier

LEMMA StalledNext ==
    ASSUME LowThreshold = HightThreshold, Inv, Inv', Stalled, [Next]_vars
    PROVE  Stalled'
<1> USE DEF Inv
<1> Live \subseteq Node
  BY DEF Live
<1>1. \A i, p \in Node : CurrentCert[i][p] = 0
  BY LowIsZero
<1>2. ASSUME UNCHANGED smvbaflag, \A i \in Node : Height'[i] <= 1 PROVE Stalled'
  BY <1>2 DEF Stalled
<1>3. ASSUME UNCHANGED Height, \A i \in Node : smvbaflag'[i] = FALSE PROVE Stalled'
  BY <1>3 DEF Stalled
<1>4. ASSUME NEW i \in Live, BroadcastFirst(i) PROVE Stalled'
  BY <1>2, <1>4 DEF BroadcastFirst, controlVars, Stalled, TypeOK
<1>5. ASSUME NEW i \in Live, NEW p \in Live, HandleBlockMessage(i, p) PROVE Stalled'
  <2>1. UNCHANGED Height
    BY <1>5 DEF HandleBlockMessage
  <2> DEFINE cc == NewCert(i, p, Head(blocks[p][i]))
  <2>2. CurrentCert' = [CurrentCert EXCEPT ![i] = cc]
    BY <1>5 DEF HandleBlockMessage
  <2>3. TrytoStartMVBA(i, cc, OrderedCert[i], smvbaflag[i], Epoch[i])
    BY <1>5 DEF HandleBlockMessage
  <2>4. cc = CurrentCert'[i] /\ cc \in Frontier
    BY <2>2 DEF TypeOK
  <2>5. \A q \in Node : CurrentCert'[i][q] = 0
    <3>1. CurrentCert'[i] \in Frontier /\ Height \in [Node -> 0 .. MaxHeight]
      BY DEF TypeOK
    <3>2. \A q \in Node : CurrentCert'[i][q] > 0 => CurrentCert'[i][q] < Height[q]
      BY <2>1 DEF DataInv, CertsBelow, Below
    <3>3. \A q \in Node : Height[q] <= 1
      BY DEF Stalled
    <3>4. QED
      BY <3>1, <3>2, <3>3, BoundsAssumption DEF Frontier
  <2>6. smvbaflag[i] = FALSE /\ OrderedCert[i] \in Frontier
    BY DEF Stalled, TypeOK
  <2>7. \A j \in Node : smvbaflag'[j] = FALSE
    <3> HIDE DEF cc
    <3>1. QED
      BY <2>3, <2>4, <2>5, <2>6, NoStart
  <2>8. QED
    BY <1>3, <2>1, <2>7
<1>6. ASSUME NEW i \in Live, HandleVoteForBlock(i) PROVE Stalled'
  <2>1. PICK v \in votes : DropVote(i, v) \/ CountVote(i, v) \/ CertifyBlock(i, v)
    BY <1>6 DEF HandleVoteForBlock
  <2>2. ~CertifyBlock(i, v)
    BY DEF CertifyBlock, HighFlag, LowFlag
  <2>3. UNCHANGED Height
    BY <2>1, <2>2 DEF DropVote, CountVote
  <2>4. UNCHANGED smvbaflag
    BY <1>6 DEF HandleVoteForBlock, controlVars
  <2>5. QED
    BY <1>2, <2>3, <2>4 DEF Stalled
<1>7. ASSUME NEW i \in Live, NEW e \in Epochs, HandleHalt(i, e) PROVE Stalled'
  <2>1. UNCHANGED <<Height, CurrentCert>>
    BY <1>7 DEF HandleHalt, dataVars
  <2>2. PICK f \in decision[e] :
          TrytoStartMVBA(i, CurrentCert[i], Advanced(OrderedCert[i], f), FALSE, e + 1)
    BY <1>7 DEF HandleHalt
  <2>3. f \in Frontier
    BY DEF TypeOK
  <2>4. CurrentCert[i] \in Frontier /\ Advanced(OrderedCert[i], f) \in Frontier
    BY <2>3 DEF TypeOK, Advanced, Frontier
  <2>5. QED
    BY <1>1, <1>3, <2>1, <2>2, <2>4, NoStart
<1>8. ASSUME NEW i \in Live, NEW e \in Epochs, HandleHaltMissing(i, e) PROVE Stalled'
  <2>1. UNCHANGED <<Height, CurrentCert>>
    BY <1>8 DEF HandleHaltMissing, dataVars
  <2>2. TrytoStartMVBA(i, CurrentCert[i], OrderedCert[i], FALSE, e + 1)
    BY <1>8 DEF HandleHaltMissing
  <2>3. CurrentCert[i] \in Frontier /\ OrderedCert[i] \in Frontier
    BY DEF TypeOK
  <2>4. QED
    BY <1>1, <1>3, <2>1, <2>2, <2>3, NoStart
<1>9. ASSUME UNCHANGED <<Height, smvbaflag>> PROVE Stalled'
  BY <1>9 DEF Stalled
<1>10. QED
  BY <1>4, <1>5, <1>6, <1>7, <1>8, <1>9
     DEF Next, vars, dataVars, controlVars, LoopbackFirst, LoseBlock, LoseVote, Decide,
         ProposeAgain, HandleLateProposal

(***************************************************************************)
(* In a committee of one, two or three nodes the two thresholds coincide   *)
(* and the aggregator reports the low flag only: no node ever gets past    *)
(* its first block, hence no certificate, no SMVBA, no commit.             *)
(***************************************************************************)
THEOREM SmallCommitteesStall == LowThreshold = HightThreshold => (Spec => []Stalled)
<1> SUFFICES ASSUME LowThreshold = HightThreshold PROVE Spec => []Stalled
  OBVIOUS
<1>1. Init => Stalled
  BY DEF Init, Stalled
<1>2. Inv /\ Inv' /\ Stalled /\ [Next]_vars => Stalled'
  BY StalledNext
<1>3. QED
  BY <1>1, <1>2, InvInductive, PTL DEF Spec
=============================================================================
