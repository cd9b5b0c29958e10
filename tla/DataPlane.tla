----------------------------- MODULE DataPlane -----------------------------
(***************************************************************************)
(* The data plane of 014-DumboNG together with the way it feeds, and is    *)
(* drained by, the control plane.                                          *)
(*                                                                         *)
(* Every node broadcasts a chain of blocks; the block of height h + 1 is   *)
(* sent once 2f+1 nodes voted for the block of height h, so that receiving *)
(* block h + 1 is what certifies block h (CurrentCert).  The vector of     *)
(* certified heights, the frontier, is what a node proposes to SMVBA; the  *)
(* frontier SMVBA outputs tells the node which blocks to commit.           *)
(*                                                                         *)
(* Abstractions.                                                           *)
(*  - SMVBA is a service: for an epoch it outputs one of the frontiers     *)
(*    proposed in that epoch, the same for every node unless some node     *)
(*    proposed twice.  Its own modules are SPB and Rounds.                 *)
(*  - A live proposer creates one block per height and does not restart,   *)
(*    so the hash of a block is the pair of its proposer and height:       *)
(*    BlockHashMap[i][p] keeps the heights whose hash node i knows.        *)
(*  - Blocks travel on one TCP connection per pair of nodes, in order; a   *)
(*    node pushes its own blocks straight into its receive channel.        *)
(*    Votes are only ever counted in sets, so their order is not kept.     *)
(*  - A dial or write failure loses a message for good (Sender.connect):   *)
(*    Lose, at most MaxLosses times.                                       *)
(*  - Batches, signatures and the store's I/O errors are left out.         *)
(***************************************************************************)
EXTENDS Committee, Sequences

CONSTANTS MaxHeight,   \* bound: no block above this height is created
          MaxEpoch,    \* bound: no epoch from this one on is decided
          MaxLosses,   \* bound: messages the network may lose
          MaxProposals \* bound: no fresh proposal in an epoch with that many

ASSUME BoundsAssumption ==
    /\ MaxHeight \in Nat \ {0}
    /\ MaxEpoch \in Nat
    /\ MaxLosses \in Nat
    /\ MaxProposals \in Nat

VARIABLES
    Height,        \* Height[i]: height of the last block node i created
    loopback,      \* loopback[i]: the first block was sent but not yet pushed
                   \* into i's own receive channel by its goroutine
    CurrentCert,   \* CurrentCert[i][p]: certified height of p's chain at i
    BlockHashMap,  \* BlockHashMap[i][p]: heights of p's blocks known to i
    blockVotes,    \* blockVotes[i][h]: voters node i counted for its block h
    blocks,        \* blocks[p][i]: heights of p's blocks on their way to i
    votes,         \* votes for blocks on their way to the proposer
    losses,        \* number of messages lost so far
    OrderedCert,   \* OrderedCert[i][p]: height up to which i committed p's chain
    Epoch,         \* Epoch[i]: the epoch node i is in
    smvbaflag,     \* smvbaflag[i]: SMVBA is running at i
    smvbaBlocks,   \* the SMVBA blocks proposed so far
    decision,      \* decision[e]: the frontiers SMVBA output in epoch e
    HaltFlags,     \* HaltFlags[i]: the epochs node i halted in
    committed      \* committed[i][p]: heights of p's blocks i committed

dataVars == <<Height, loopback, CurrentCert, BlockHashMap, blockVotes>>
netVars == <<blocks, votes, losses>>
controlVars == <<OrderedCert, Epoch, smvbaflag, smvbaBlocks, decision,
                 HaltFlags, committed>>
vars == <<dataVars, netVars, controlVars>>

Heights == 1 .. MaxHeight
Epochs == 0 .. MaxEpoch - 1
Frontier == [Node -> 0 .. MaxHeight]
Vote == [from : Node, to : Node, height : Heights]
SMVBABlock == [author : Node, epoch : 0 .. MaxEpoch, frontier : Frontier]

-----------------------------------------------------------------------------
(* Init: NewCore and initCert. *)
Init ==
    /\ Height = [i \in Node |-> 0]
    /\ loopback = [i \in Node |-> FALSE]
    /\ CurrentCert = [i \in Node |-> [p \in Node |-> 0]]
    /\ BlockHashMap = [i \in Node |-> [p \in Node |-> {}]]
    /\ blockVotes = [i \in Node |-> [h \in Heights |-> {}]]
    /\ blocks = [p \in Node |-> [i \in Node |-> <<>>]]
    /\ votes = {}
    /\ losses = 0
    /\ OrderedCert = [i \in Node |-> [p \in Node |-> 0]]
    /\ Epoch = [i \in Node |-> 0]
    /\ smvbaflag = [i \in Node |-> FALSE]
    /\ smvbaBlocks = {}
    /\ decision = [e \in Epochs |-> {}]
    /\ HaltFlags = [i \in Node |-> {}]
    /\ committed = [i \in Node |-> [p \in Node |-> {}]]

-----------------------------------------------------------------------------
(* Helpers shared by the handlers. *)

\* generatesmvbaproposal: the proposers whose certified height moved past
\* what has been ordered.
NewCerts(cc, oc) == {p \in Node : cc[p] > oc[p]}

\* TrytoStartMVBA at node i, whose maps are cc and oc, whose flag is running
\* and whose epoch is e.
TrytoStartMVBA(i, cc, oc, running, e) ==
    LET start == /\ ~running
                 /\ Cardinality(NewCerts(cc, oc)) >= HightThreshold
    IN  /\ smvbaflag' = [smvbaflag EXCEPT ![i] = running \/ start]
        /\ smvbaBlocks' =
              IF start
              THEN smvbaBlocks \cup {[author |-> i, epoch |-> e, frontier |-> cc]}
              ELSE smvbaBlocks

\* handleBlockMessage: what node i takes as certified once block h of p came.
NewCert_mutantTip(i, p, h) == [CurrentCert[i] EXCEPT ![p] = h]

NewCert_mutantTwoBehind(i, p, h) == [CurrentCert[i] EXCEPT ![p] = h - 2]

NewCert(i, p, h) == [CurrentCert[i] EXCEPT ![p] = h - 1]

\* PbBroadcastBlock of block h by node i: to every node by the network, to
\* itself by its receive channel unless the push is still pending.
Send(i, h, self) ==
    blocks' = [blocks EXCEPT ![i] =
                 [j \in Node |-> IF j \in Live /\ (j # i \/ self)
                                 THEN Append(blocks[i][j], h)
                                 ELSE blocks[i][j]]]

\* Two plausible slips in the commit loop: no upper bound, only the last block.
Deliverable_mutantUnbounded(i, p, f) ==
    {h \in BlockHashMap[i][p] : OrderedCert[i][p] < h}

Deliverable_mutantTipOnly(i, p, f) == BlockHashMap[i][p] \cap {f[p]}

\* commitSMVBABlock for one proposer: the blocks between the ordered height
\* and the certificate that are known here; a missing block is skipped.
Deliverable(i, p, f) ==
    {h \in BlockHashMap[i][p] : OrderedCert[i][p] < h /\ h <= f[p]}

\* A slip in the same place: the ordered height is assigned, not raised.
Advanced_mutantAssigned(oc, f) == f

Advanced(oc, f) == [p \in Node |-> IF f[p] > oc[p] THEN f[p] ELSE oc[p]]

Commit(i, f) ==
    /\ committed' = [committed EXCEPT ![i] =
                       [p \in Node |-> @[p] \cup Deliverable(i, p, f)]]
    /\ OrderedCert' = [OrderedCert EXCEPT ![i] = Advanced(@, f)]

-----------------------------------------------------------------------------
(* The data plane. *)

\* Core.Run: the goroutine that broadcasts the first block ...
BroadcastFirst(i) ==
    /\ Height[i] = 0
    /\ Height' = [Height EXCEPT ![i] = 1]
    /\ loopback' = [loopback EXCEPT ![i] = TRUE]
    /\ Send(i, 1, FALSE)
    /\ UNCHANGED <<CurrentCert, BlockHashMap, blockVotes, votes, losses, controlVars>>

\* ... and pushes it into the node's own receive channel, later.
LoopbackFirst(i) ==
    /\ loopback[i]
    /\ loopback' = [loopback EXCEPT ![i] = FALSE]
    /\ blocks' = [blocks EXCEPT ![i][i] = Append(@, 1)]
    /\ UNCHANGED <<Height, CurrentCert, BlockHashMap, blockVotes, votes, losses, controlVars>>

\* handleBlockMessage: store the block, certify its predecessor, vote for it,
\* and start SMVBA if enough chains grew.
HandleBlockMessage(i, p) ==
    /\ blocks[p][i] # <<>>
    /\ LET h == Head(blocks[p][i])
           cc == NewCert(i, p, h)
       IN  /\ blocks' = [blocks EXCEPT ![p][i] = Tail(@)]
           /\ CurrentCert' = [CurrentCert EXCEPT ![i] = cc]
           /\ BlockHashMap' = [BlockHashMap EXCEPT ![i][p] = @ \cup {h}]
           /\ votes' = votes \cup {[from |-> i, to |-> p, height |-> h]}
           /\ TrytoStartMVBA(i, cc, OrderedCert[i], smvbaflag[i], Epoch[i])
    /\ UNCHANGED <<Height, loopback, blockVotes, losses, OrderedCert, Epoch,
                   decision, HaltFlags, committed>>

\* A slip in the test: a vote for the current block is dropped as well.
DropVote_mutantCurrent(i, v) ==
    /\ v.height <= Height[i]
    /\ UNCHANGED <<Height, blockVotes, blocks>>

\* handleVoteForBlock, a vote for a block already certified: dropped.
DropVote(i, v) ==
    /\ v.height < Height[i]
    /\ UNCHANGED <<Height, blockVotes, blocks>>

\* handleVoteForBlock, a vote that is counted but is not the 2f+1st.
CountVote(i, v) ==
    /\ v.height >= Height[i]
    /\ LET voters == blockVotes[i][v.height] \cup {v.from}
       IN  /\ ~HighFlag(Cardinality(voters))
           /\ blockVotes' = [blockVotes EXCEPT ![i][v.height] = voters]
    /\ UNCHANGED <<Height, blocks>>

\* handleVoteForBlock, the 2f+1st vote: the next block is broadcast.
CertifyBlock(i, v) ==
    /\ v.height >= Height[i]
    /\ Height[i] < MaxHeight
    /\ LET voters == blockVotes[i][v.height] \cup {v.from}
       IN  /\ HighFlag(Cardinality(voters))
           /\ blockVotes' = [blockVotes EXCEPT ![i][v.height] = voters]
    /\ Height' = [Height EXCEPT ![i] = @ + 1]
    /\ Send(i, Height[i] + 1, TRUE)

HandleVoteForBlock(i) ==
    \E v \in votes :
        /\ v.to = i
        /\ votes' = votes \ {v}
        /\ DropVote(i, v) \/ CountVote(i, v) \/ CertifyBlock(i, v)
        /\ UNCHANGED <<loopback, CurrentCert, BlockHashMap, losses, controlVars>>

-----------------------------------------------------------------------------
(* The network loses a message: connect or Write fails, nothing is resent   *)
(* (the mutant sends it again, behind what is queued meanwhile).           *)
LoseBlock_mutantResent(p, i) ==
    /\ losses < MaxLosses
    /\ p # i
    /\ blocks[p][i] # <<>>
    /\ losses' = losses + 1
    /\ blocks' = [blocks EXCEPT ![p][i] = Append(Tail(@), Head(@))]
    /\ UNCHANGED <<dataVars, votes, controlVars>>

LoseBlock(p, i) ==
    /\ losses < MaxLosses
    /\ p # i
    /\ blocks[p][i] # <<>>
    /\ losses' = losses + 1
    /\ blocks' = [blocks EXCEPT ![p][i] = Tail(@)]
    /\ UNCHANGED <<dataVars, votes, controlVars>>

LoseVote(v) ==
    /\ losses < MaxLosses
    /\ losses' = losses + 1
    /\ votes' = votes \ {v}
    /\ UNCHANGED <<dataVars, blocks, controlVars>>

-----------------------------------------------------------------------------
(* The control plane, seen from the data plane. *)

\* The SMVBA blocks of epoch e, and the nodes that proposed one.
BlocksOf(e) == {b \in smvbaBlocks : b.epoch = e}

Proposers(e) == {b.author : b \in BlocksOf(e)}

\* Some node proposed a second, fresh frontier in epoch e.
ProposedAgain(e) == Cardinality(BlocksOf(e)) > Cardinality(Proposers(e))

\* SMVBA decides an epoch: one of the SMVBA blocks proposed for it.  A leader
\* is only elected after 2f+1 nodes finished, hence proposed.  Fresh frontiers
\* may lead other nodes to another decision (Agreement in Rounds).
Decide(e) ==
    /\ decision[e] = {} \/ ProposedAgain(e)
    /\ Cardinality(Proposers(e)) >= HightThreshold
    /\ \E b \in BlocksOf(e) : decision' = [decision EXCEPT ![e] = @ \cup {b.frontier}]
    /\ UNCHANGED <<dataVars, netVars, OrderedCert, Epoch, smvbaflag, smvbaBlocks,
                   HaltFlags, committed>>

\* advanceNextRound when the value to carry over is unknown here: a fresh
\* frontier is proposed for the epoch.
ProposeAgain(i) ==
    /\ Epoch[i] < MaxEpoch
    /\ Cardinality(Proposers(Epoch[i])) >= HightThreshold
    /\ Cardinality(BlocksOf(Epoch[i])) < MaxProposals
    /\ smvbaBlocks' = smvbaBlocks \cup
          {[author |-> i, epoch |-> Epoch[i], frontier |-> CurrentCert[i]]}
    /\ UNCHANGED <<dataVars, netVars, OrderedCert, Epoch, smvbaflag, decision,
                   HaltFlags, committed>>

\* handleHalt with the decided SMVBA block stored here: commit it, enter the
\* next epoch and try to start SMVBA again.
HandleHalt(i, e) ==
    /\ e >= Epoch[i]
    /\ e \notin HaltFlags[i]
    /\ \E f \in decision[e] :
          /\ Commit(i, f)
          /\ TrytoStartMVBA(i, CurrentCert[i], Advanced(OrderedCert[i], f), FALSE, e + 1)
    /\ HaltFlags' = [HaltFlags EXCEPT ![i] = @ \cup {e}]
    /\ Epoch' = [Epoch EXCEPT ![i] = e + 1]
    /\ UNCHANGED <<dataVars, netVars, decision>>

\* Ending the epoch without trying to start the next one.
HandleHaltMissing_mutantNoStart(i, e) ==
    /\ e >= Epoch[i]
    /\ e \notin HaltFlags[i]
    /\ decision[e] # {}
    /\ smvbaflag' = [smvbaflag EXCEPT ![i] = FALSE]
    /\ HaltFlags' = [HaltFlags EXCEPT ![i] = @ \cup {e}]
    /\ Epoch' = [Epoch EXCEPT ![i] = e + 1]
    /\ UNCHANGED <<dataVars, netVars, OrderedCert, smvbaBlocks, decision, committed>>

\* handleHalt when the decided SMVBA block has not arrived: nothing is
\* committed ("Processing retriever" only logs), the epoch ends all the same.
HandleHaltMissing(i, e) ==
    /\ e >= Epoch[i]
    /\ e \notin HaltFlags[i]
    /\ decision[e] # {}
    /\ TrytoStartMVBA(i, CurrentCert[i], OrderedCert[i], FALSE, e + 1)
    /\ HaltFlags' = [HaltFlags EXCEPT ![i] = @ \cup {e}]
    /\ Epoch' = [Epoch EXCEPT ![i] = e + 1]
    /\ UNCHANGED <<dataVars, netVars, OrderedCert, decision, committed>>

\* handleSpbProposal of a leader's SMVBA block of an epoch that already halted
\* here: committed on arrival.  The rounds of an epoch are not tracked in this
\* module, so any proposer may have been the leader of one of them.
HandleLateProposal(i, e) ==
    /\ e \in HaltFlags[i]
    /\ \E b \in BlocksOf(e) : Commit(i, b.frontier)
    /\ UNCHANGED <<dataVars, netVars, Epoch, smvbaflag, smvbaBlocks, decision, HaltFlags>>

-----------------------------------------------------------------------------
Next ==
    \/ \E i \in Live : BroadcastFirst(i)
    \/ \E i \in Live : LoopbackFirst(i)
    \/ \E i, p \in Live : HandleBlockMessage(i, p)
    \/ \E i \in Live : HandleVoteForBlock(i)
    \/ \E p, i \in Live : LoseBlock(p, i)
    \/ \E v \in votes : LoseVote(v)
    \/ \E e \in Epochs : Decide(e)
    \/ \E i \in Live : ProposeAgain(i)
    \/ \E i \in Live, e \in Epochs : HandleHalt(i, e)
    \/ \E i \in Live, e \in Epochs : HandleHaltMissing(i, e)
    \/ \E i \in Live, e \in Epochs : HandleLateProposal(i, e)

Spec == Init /\ [][Next]_vars

-----------------------------------------------------------------------------
(* Type invariant. *)
TypeOK ==
    /\ Height \in [Node -> 0 .. MaxHeight]
    /\ loopback \in [Node -> BOOLEAN]
    /\ CurrentCert \in [Node -> Frontier]
    /\ BlockHashMap \in [Node -> [Node -> SUBSET Heights]]
    /\ blockVotes \in [Node -> [Heights -> SUBSET Node]]
    /\ blocks \in [Node -> [Node -> Seq(Heights)]]
    /\ votes \subseteq Vote
    /\ losses \in 0 .. MaxLosses
    /\ OrderedCert \in [Node -> Frontier]
    /\ Epoch \in [Node -> 0 .. MaxEpoch]
    /\ smvbaflag \in [Node -> BOOLEAN]
    /\ smvbaBlocks \subseteq SMVBABlock
    /\ decision \in [Epochs -> SUBSET Frontier]
    /\ HaltFlags \in [Node -> SUBSET Epochs]
    /\ committed \in [Node -> [Node -> SUBSET Heights]]

\* The nodes that stored p's block of height h and voted for it.
Holders(p, h) == {j \in Node : h \in BlockHashMap[j][p]}

Certified(p, h) == Cardinality(Holders(p, h)) >= HightThreshold

(***************************************************************************)
(* A certificate means what its name says: when a node holds CurrentCert   *)
(* h > 0 for a proposer, a quorum of nodes stored that block, and every    *)
(* earlier block of the chain, whatever was reordered or lost meanwhile.   *)
(* The certificate is implicit (the arrival of block h + 1), no node       *)
(* checks it; this is what makes assigning Height-1 in handleBlockMessage  *)
(* sound.                                                                  *)
(***************************************************************************)
CertSound ==
    \A i, p \in Node : \A h \in 1 .. CurrentCert[i][p] : Certified(p, h)

(***************************************************************************)
(* Everything a node committed is held by a quorum: a frontier decided by  *)
(* SMVBA, or committed late, never reaches past the certified blocks.      *)
(***************************************************************************)
CommittedCertified ==
    \A i, p \in Node : \A h \in committed[i][p] : Certified(p, h)

(***************************************************************************)
(* commitSMVBABlock appends to each chain: a node never commits a block of *)
(* a proposer below one it already committed, although late SMVBA blocks   *)
(* of halted epochs are committed after those of later epochs.             *)
(***************************************************************************)
CommitInChainOrder ==
    [][\A i, p \in Node : \A h \in committed'[i][p] \ committed[i][p] :
          \A g \in committed[i][p] : g < h]_vars

(***************************************************************************)
(* A certificate never goes backwards, although handleBlockMessage assigns *)
(* it (it takes no maximum): the blocks of a chain are handled in order,   *)
(* lost ones left out.  The one exception is a node's own chain, whose     *)
(* first block is pushed by a goroutine and may be handled after later     *)
(* ones (Core.Run); that happens once.                                     *)
(***************************************************************************)
CertNeverRegresses ==
    [][\A i, p \in Node :
          \/ CurrentCert'[i][p] >= CurrentCert[i][p]
          \/ i = p /\ 1 \in BlockHashMap'[i][i] \ BlockHashMap[i][i]]_vars

(***************************************************************************)
(* Together these make the data plane and its epochs an implementation of  *)
(* a plain log: whatever is decided, decided twice, committed late or      *)
(* skipped, a step stores one block, or moves one node's commits forward,  *)
(* never backward, over blocks that a quorum stores, or shows nothing.     *)
(***************************************************************************)
Quorum == {Q \in SUBSET Node : Cardinality(Q) >= HightThreshold}

Log == INSTANCE CertifiedLog
          WITH Node <- Node, Quorum <- Quorum, Heights <- Heights,
               stored <- BlockHashMap, ordered <- OrderedCert, log <- committed

LogSteps == [][Log!Next]_<<BlockHashMap, OrderedCert, committed>>

(***************************************************************************)
(* The comment over the late commit in handleSpbProposal says "ensure all  *)
(* block is received": a node that ordered a chain up to some height       *)
(* committed every block of it.                                            *)
(***************************************************************************)
NoBlockSkipped ==
    \A i, p \in Node : \A h \in 1 .. OrderedCert[i][p] : h \in committed[i][p]

(***************************************************************************)
(* Without losses no chain gets stuck, however late the votes come: while  *)
(* the tip of a live node's chain is not certified there, the tip or a     *)
(* vote for it is on its way; every step uses one of these up.  So no vote *)
(* that is dropped as late (core.go:270), or counted before its proposer   *)
(* got the block itself, is missing for the next block.                    *)
(***************************************************************************)
NoChainStuck ==
    \A i \in Live :
        losses = 0 /\ Height[i] \in 1 .. MaxHeight - 1
            => \/ loopback[i]
               \/ \E j \in Live : \/ \E k \in DOMAIN blocks[i][j] : blocks[i][j][k] = Height[i]
                                 \/ [from |-> j, to |-> i, height |-> Height[i]] \in votes

(***************************************************************************)
(* No wake-up is lost: TrytoStartMVBA gives up when SMVBA is running or    *)
(* too few chains grew, and nothing but the next block or the end of an    *)
(* epoch tries again, yet SMVBA runs whenever enough chains are ahead of   *)
(* what is ordered.                                                        *)
(***************************************************************************)
SMVBANeverIdle ==
    \A i \in Live :
        Cardinality({p \in Node : CurrentCert[i][p] > OrderedCert[i][p]}) >= HightThreshold
            => smvbaflag[i]
=============================================================================
