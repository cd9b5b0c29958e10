------------------------------- MODULE NodeIO --------------------------------
(***************************************************************************)
(* One DumboNG node between its clients and its peers: the transaction     *)
(* pool, the goroutine that handles what arrives, which puts a batch (or   *)
(* none) into each block it proposes, and the transport that carries the   *)
(* blocks.                                                                 *)
(*                                                                         *)
(* That goroutine drains recvCh, and it pushes every block it proposes     *)
(* into recvCh too.  What else arrives there is counted only; which of it  *)
(* is the vote that makes the node propose is left open.                   *)
(***************************************************************************)
EXTENDS TxQueue, Transport

CONSTANTS RecvCap,   \* capacity of recvCh
          MaxEmpty   \* bound: blocks proposed without a batch

ASSUME RecvAssumption == RecvCap \in Nat \ {0}

VARIABLES carried,   \* per block proposed: number of batches handed out so far
          inbox,     \* number of messages in recvCh
          looping    \* is Core.Run about to push its own block into recvCh?

ownVars == <<inbox, looping>>
ioVars == <<poolVars, netVars, carried, ownVars>>

IOInit == Init /\ NetInit /\ carried = <<>> /\ inbox = 0 /\ looping = FALSE

\* PbBroadcastBlock up to its push: GetBatch and Transmitor.Send in one go.
Publish ==
    /\ Send(Peer)
    /\ \/ GetBatch
       \/ /\ batchChannel = <<>> /\ Len(log) - Len(handed) < MaxEmpty
          /\ UNCHANGED poolVars
    /\ carried' = Append(carried, Len(handed'))

\* The first block has a goroutine of its own; its push is one of Receive.
ProposeFirst == log = <<>> /\ Publish /\ UNCHANGED ownVars

\* Core.Run takes the vote that completes a quorum.
ProposeNext ==
    /\ log # <<>> /\ ~looping /\ inbox > 0
    /\ Publish
    /\ inbox' = inbox - 1 /\ looping' = TRUE

\* A push that gives up when the channel is full.
Loopback_mutantDrops ==
    /\ looping /\ looping' = FALSE
    /\ inbox' = IF inbox < RecvCap THEN inbox + 1 ELSE inbox
    /\ UNCHANGED <<poolVars, netVars, carried>>

\* RecvChannel() <- bm, which waits while the channel is full.
Loopback ==
    /\ looping /\ inbox < RecvCap
    /\ inbox' = inbox + 1 /\ looping' = FALSE
    /\ UNCHANGED <<poolVars, netVars, carried>>

\* Other goroutines push: the receiver, the first block, the SPB instances.
Receive ==
    /\ inbox < RecvCap
    /\ inbox' = inbox + 1
    /\ UNCHANGED <<poolVars, netVars, carried, looping>>

\* Core.Run handles a message that makes it propose nothing.
Handle ==
    /\ ~looping /\ inbox > 0
    /\ inbox' = inbox - 1
    /\ UNCHANGED <<poolVars, netVars, carried, looping>>

PoolStep == (Submit \/ Run) /\ UNCHANGED <<netVars, carried, ownVars>>
NetStep == NetNext /\ UNCHANGED <<poolVars, carried, ownVars>>

IONext ==
    \/ ProposeFirst \/ ProposeNext \/ Loopback \/ Receive \/ Handle
    \/ PoolStep \/ NetStep

IOSpec == IOInit /\ [][IONext]_ioVars

\* The goroutines run, and messages keep arriving, among them again and again
\* the votes to go on proposing (NoChainStuck of DataPlane).
FairIOSpec ==
    IOSpec /\ WF_ioVars(Run /\ UNCHANGED <<netVars, carried, ownVars>>)
           /\ WF_ioVars(ProposeFirst) /\ SF_ioVars(ProposeNext)
           /\ WF_ioVars(Receive) /\ WF_ioVars(Loopback)
           /\ NetFairness

\* The only goroutine that drains recvCh waits for room in it.
Jammed == looping /\ inbox = RecvCap

(***************************************************************************)
(* End to end: once enough transactions are submitted for k batches, every *)
(* peer gets the blocks with those batches, unless a connection failed or  *)
(* recvCh was full when the node pushed its own block.  That needs all     *)
(* peers to read, and a ring larger than a batch.                          *)
(***************************************************************************)
TransactionsReachPeers ==
    LET k == MaxTxs \div BatchSize IN
    (reading = Peer /\ maxQueueSize > BatchSize /\ submitted = MaxTxs)
        ~> \/ Jammed
           \/ \A p \in Peer : p \in missed \/ \E n \in 1..Len(got[p]) : carried[got[p][n]] = k

(***************************************************************************)
(* A full recvCh is a deadlock, not a delay: nothing that the peers, the   *)
(* clients or the node's other goroutines do frees Core.Run again, and the *)
(* node never proposes another block.                                      *)
(***************************************************************************)
JamIsFinal == [][Jammed => Jammed' /\ log' = log /\ handed' = handed]_ioVars
=============================================================================
