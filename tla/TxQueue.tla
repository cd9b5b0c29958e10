------------------------------- MODULE TxQueue -------------------------------
(***************************************************************************)
(* The transaction pool of a DumboNG node: clients submit into a channel,  *)
(* the queue goroutine moves transactions through a ring into batches, and *)
(* the consensus goroutine fetches a batch whenever it makes a block.      *)
(* Transactions are numbered in the order of their submission.             *)
(***************************************************************************)
EXTENDS Integers, Sequences

CONSTANTS MaxQueueSizes,     \* the ring sizes a parameter file may give
          BatchSize,
          N, Id,             \* committee size and this node
          TxCap, BatchCap,   \* capacities of the two channels
          MaxTxs,            \* bound: transactions submitted
          NoBatch            \* the queue goroutine is not pushing

Tx == 1..MaxTxs

ASSUME PoolAssumption ==
    /\ MaxQueueSizes \subseteq Nat \ {0} /\ BatchSize \in Nat \ {0}
    /\ N \in Nat \ {0} /\ Id \in 0..(N - 1)
    /\ TxCap \in Nat \ {0} /\ BatchCap \in Nat \ {0} /\ MaxTxs \in Nat
    /\ NoBatch \notin [ID : Nat, Txs : [1..BatchSize -> Tx]]

VARIABLES maxQueueSize,   \* from the parameter file
          submitted,      \* number of transactions submitted
          txChannel,
          queue, wind, rind, nums, bcnt,
          pushing,        \* the batch make() is about to push
          batchChannel,
          accepted,       \* history: the transactions stored in the ring
          handed          \* history: the batches GetBatch returned

ring == <<queue, wind, rind, nums, bcnt, pushing, accepted>>
poolVars == <<maxQueueSize, submitted, txChannel, ring, batchChannel, handed>>

Init ==
    /\ maxQueueSize \in MaxQueueSizes
    /\ submitted = 0 /\ txChannel = <<>>
    /\ queue = [i \in 0..(maxQueueSize - 1) |-> 0]
    /\ wind = 0 /\ rind = -1 /\ nums = 0 /\ bcnt = 0
    /\ pushing = NoBatch /\ batchChannel = <<>>
    /\ accepted = <<>> /\ handed = <<>>

(***************************************************************************)
(* A control connection, or the built-in maker, submits; it waits while    *)
(* the channel is full.                                                    *)
(***************************************************************************)
Submit ==
    /\ submitted < MaxTxs /\ Len(txChannel) < TxCap
    /\ submitted' = submitted + 1
    /\ txChannel' = Append(txChannel, submitted + 1)
    /\ UNCHANGED <<maxQueueSize, ring, batchChannel, handed>>

\* What make() reads from the ring r, and where it stops reading.
Batch_mutantFromLastRead(r) ==
    [ID |-> Id + N * bcnt,
     Txs |-> [i \in 1..BatchSize |-> r[(rind + i - 1) % maxQueueSize]]]
Batch(r) == [ID |-> Id + N * bcnt,
             Txs |-> [i \in 1..BatchSize |-> r[(rind + i) % maxQueueSize]]]
ReadTo == (rind + BatchSize) % maxQueueSize

\* The ring counts as full when the writer meets the transaction read last; a
\* conventional ring would count its transactions.
Full_mutantCounted == nums = maxQueueSize
Full_mutantKeepsOneFree == (wind + 1) % maxQueueSize = rind
Full == wind = rind

BatchReady_mutantTooMany == nums + 1 > BatchSize
BatchReady == nums + 1 >= BatchSize

(***************************************************************************)
(* The queue goroutine takes a transaction and drops it when the ring is   *)
(* full; otherwise it stores it and makes a batch as soon as it can.       *)
(***************************************************************************)
Take ==
    /\ pushing = NoBatch /\ txChannel # <<>>
    /\ txChannel' = Tail(txChannel)
    /\ UNCHANGED <<maxQueueSize, submitted, batchChannel, handed>>

Drop == Take /\ Full /\ UNCHANGED ring

Put ==
    /\ Take /\ ~Full
    /\ queue' = [queue EXCEPT ![wind] = Head(txChannel)]
    /\ wind' = (wind + 1) % maxQueueSize
    /\ accepted' = Append(accepted, Head(txChannel))
    /\ bcnt' = bcnt

Store == Put /\ ~BatchReady /\ nums' = nums + 1 /\ UNCHANGED <<rind, pushing>>

Make ==
    /\ Put /\ BatchReady
    /\ pushing' = Batch(queue')
    /\ rind' = ReadTo
    /\ nums' = nums + 1 - BatchSize

\* make() waits while the channel of batches is full.
Push ==
    /\ pushing # NoBatch /\ Len(batchChannel) < BatchCap
    /\ batchChannel' = Append(batchChannel, pushing)
    /\ pushing' = NoBatch /\ bcnt' = bcnt + 1
    /\ UNCHANGED <<maxQueueSize, submitted, txChannel, queue, wind, rind, nums, accepted, handed>>

\* GetBatch; without a batch it returns Batch{ID: -1} at once and changes nothing.
GetBatch ==
    /\ batchChannel # <<>>
    /\ handed' = Append(handed, Head(batchChannel))
    /\ batchChannel' = Tail(batchChannel)
    /\ UNCHANGED <<maxQueueSize, submitted, txChannel, ring>>

Run == Drop \/ Store \/ Make \/ Push
Next == Submit \/ Run \/ GetBatch

Spec == Init /\ [][Next]_poolVars

Stream == INSTANCE BatchStream
             WITH BatchSize <- BatchSize, N <- N, Id <- Id, Tx <- Tx,
                  accepted <- accepted, handed <- handed

(***************************************************************************)
(* The batches handed out are consecutive pieces of the accepted stream:   *)
(* the ring neither loses, repeats nor reorders what it took, in whatever  *)
(* order the goroutines run.                                               *)
(***************************************************************************)
StreamSpec == Stream!Spec

(***************************************************************************)
(* With a ring larger than a batch no transaction is ever dropped: the     *)
(* back pressure of full channels reaches the clients instead.             *)
(***************************************************************************)
NothingDropped ==
    maxQueueSize > BatchSize => accepted \o txChannel = [i \in 1..submitted |-> i]

(***************************************************************************)
(* With a ring exactly as large as a batch the pool makes one batch and    *)
(* then drops for ever: the test for a full ring holds one short of it.    *)
(***************************************************************************)
OneBatchWhenTight == maxQueueSize = BatchSize => Len(handed) <= 1
=============================================================================
