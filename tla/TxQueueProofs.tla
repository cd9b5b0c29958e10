---------------------------- MODULE TxQueueProofs ----------------------------
(***************************************************************************)
(* The pool implements BatchStream whenever the ring holds a batch.        *)
(***************************************************************************)
EXTENDS TxQueue, TLAPS

Batches == [ID : Nat, Txs : [1..BatchSize -> Tx]]

TypeOK ==
    /\ maxQueueSize \in MaxQueueSizes
    /\ submitted \in 0..MaxTxs
    /\ txChannel \in Seq(Tx)
    /\ queue \in [0..(maxQueueSize - 1) -> Nat]
    /\ wind \in 0..(maxQueueSize - 1)
    /\ rind \in -1..(maxQueueSize - 1)
    /\ nums \in 0..(BatchSize - 1)
    /\ bcnt \in Nat
    /\ pushing # NoBatch => pushing \in Batches
    /\ batchChannel \in Seq(Batches)
    /\ accepted \in Seq(Tx)
    /\ handed \in Seq(Batches)

\* Batches made so far, the one being pushed included.
Made == IF pushing = NoBatch THEN bcnt ELSE bcnt + 1

\* The ring holds what was accepted after the last batch made, from rind on.
RingOK ==
    /\ wind = (rind + 1 + nums) % maxQueueSize
    /\ Len(accepted) = Made * BatchSize + nums
    /\ \A i \in 1..nums : queue[(rind + i) % maxQueueSize] = accepted[Made * BatchSize + i]

\* The batches on their way are the next ones of the stream.
PipeOK ==
    /\ bcnt = Len(handed) + Len(batchChannel)
    /\ \A j \in 1..Len(batchChannel) :
          batchChannel[j] = Stream!BatchOf(accepted, Len(handed) + j - 1)
    /\ pushing # NoBatch => pushing = Stream!BatchOf(accepted, bcnt)

IInv == TypeOK /\ RingOK /\ PipeOK
-----------------------------------------------------------------------------
(***************************************************************************)
(* Arithmetic of the ring's indices.                                       *)
(***************************************************************************)

\* An index is in the ring.
LEMMA InRing ==
    ASSUME NEW M \in Nat \ {0}, NEW x \in Nat
    PROVE  x % M \in 0..(M - 1)
  BY SMT

\* One step after a wrapped index.
LEMMA NextInRing ==
    ASSUME NEW M \in Nat \ {0}, NEW x \in 0..(2 * M - 1)
    PROVE  ((x % M) + 1) % M = (x + 1) % M
<1>1. x % M = IF x < M THEN x ELSE x - M
  BY SMT
<1>2. CASE x + 1 < M
  BY <1>1, <1>2, SMT
<1>3. CASE x + 1 = M
  BY <1>1, <1>3, SMT
<1>4. CASE x + 1 > M /\ x + 1 < 2 * M
  BY <1>1, <1>4, SMT
<1>5. CASE x + 1 = 2 * M
  BY <1>1, <1>5, SMT
<1> QED
  BY <1>2, <1>3, <1>4, <1>5, SMT

\* Up to M consecutive indices are different places of the ring.
LEMMA DifferentPlaces ==
    ASSUME NEW M \in Nat \ {0}, NEW r \in -1..(M - 1),
           NEW i \in 1..M, NEW j \in 1..M, i # j
    PROVE  (r + i) % M # (r + j) % M
<1>1. r + i \in 0..(2 * M - 1) /\ r + j \in 0..(2 * M - 1)
  BY SMT
<1>2. (r + i) % M = IF r + i < M THEN r + i ELSE r + i - M
  BY <1>1, SMT
<1>3. (r + j) % M = IF r + j < M THEN r + j ELSE r + j - M
  BY <1>1, SMT
<1> QED
  BY <1>1, <1>2, <1>3, SMT

LEMMA ProductMonotone ==
    ASSUME NEW a \in Nat, NEW b \in Nat, a <= b, NEW c \in Nat
    PROVE  a * c <= b * c
<1>1. (b - a) * c >= 0
  BY SMT
<1>2. (b - a) * c = b * c - a * c
  BY SMT
<1> QED
  BY <1>1, <1>2, SMT

\* A complete batch does not change when the stream grows.
LEMMA BatchStable ==
    ASSUME NEW log \in Seq(Tx), NEW tx \in Tx, NEW k \in Nat,
           (k + 1) * BatchSize <= Len(log)
    PROVE  Stream!BatchOf(Append(log, tx), k) = Stream!BatchOf(log, k)
<1> USE PoolAssumption
<1>1. \A i \in 1..BatchSize : k * BatchSize + i \in 1..Len(log)
  <2>1. (k + 1) * BatchSize = k * BatchSize + BatchSize
    BY SMT
  <2>2. k * BatchSize \in Nat
    BY SMT
  <2> QED
    BY <2>1, <2>2, SMT
<1>2. \A n \in 1..Len(log) : Append(log, tx)[n] = log[n]
  OBVIOUS
<1> QED
  BY <1>1, <1>2 DEF Stream!BatchOf

\* A number tells the node and the batch.
LEMMA IdsDiffer ==
    ASSUME NEW i \in 0..(N - 1), NEW j \in 0..(N - 1), NEW k \in Nat, NEW l \in Nat,
           i + N * k = j + N * l
    PROVE  i = j /\ k = l
<1> USE PoolAssumption
<1>1. k < l => N * (l - k) >= N
  BY SMT
<1>2. l < k => N * (k - l) >= N
  BY SMT
<1>3. N * (l - k) = N * l - N * k /\ N * (k - l) = N * k - N * l
  BY SMT
<1> QED
  BY <1>1, <1>2, <1>3, SMT

-----------------------------------------------------------------------------
(***************************************************************************)
(* The invariant is inductive.                                             *)
(***************************************************************************)

RingsHoldABatch == \A m \in MaxQueueSizes : BatchSize <= m

LEMMA Initially == Init => IInv
<1> SUFFICES ASSUME Init PROVE IInv
  OBVIOUS
<1> USE PoolAssumption DEF Init
<1>1. maxQueueSize \in Nat \ {0}
  OBVIOUS
<1>2. TypeOK
  BY <1>1 DEF TypeOK
<1>3. RingOK
  BY <1>1, SMT DEF RingOK, Made
<1>4. PipeOK
  BY DEF PipeOK
<1> QED
  BY <1>2, <1>3, <1>4 DEF IInv

\* Put writes behind the last transaction stored, and leaves those unread.
LEMMA PutWrites ==
    ASSUME TypeOK, RingOK, PipeOK, Put, RingsHoldABatch
    PROVE  /\ queue' \in [0..(maxQueueSize - 1) -> Nat]
           /\ accepted' \in Seq(Tx) /\ txChannel' \in Seq(Tx)
           /\ wind' = (rind + 1 + nums + 1) % maxQueueSize
           /\ wind' \in 0..(maxQueueSize - 1)
           /\ Len(accepted') = bcnt * BatchSize + nums + 1
           /\ \A i \in 1..(nums + 1) :
                 queue'[(rind + i) % maxQueueSize] = accepted'[bcnt * BatchSize + i]
           /\ Len(handed) + Len(batchChannel) = bcnt
           /\ \A j \in 1..Len(batchChannel) :
                 batchChannel[j] = Stream!BatchOf(accepted', Len(handed) + j - 1)
<1> USE PoolAssumption
<1> DEFINE M == maxQueueSize
           tx == Head(txChannel)
<1>1. /\ M \in Nat \ {0} /\ BatchSize <= M /\ BatchSize \in Nat \ {0}
      /\ nums \in 0..(BatchSize - 1)
      /\ rind \in -1..(M - 1) /\ bcnt \in Nat /\ Made = bcnt
      /\ queue \in [0..(M - 1) -> Nat] /\ accepted \in Seq(Tx)
  BY DEF TypeOK, RingsHoldABatch, Put, Take, Made
<1>2. tx \in Tx /\ tx \in Nat /\ txChannel' \in Seq(Tx)
  <2>1. txChannel \in Seq(Tx) /\ txChannel # <<>> /\ txChannel' = Tail(txChannel)
    BY DEF TypeOK, Put, Take
  <2>2. tx \in Tx /\ Tail(txChannel) \in Seq(Tx)
    BY <2>1
  <2> QED
    BY <2>1, <2>2 DEF Tx
<1>3. /\ queue' = [queue EXCEPT ![wind] = tx]
      /\ accepted' = Append(accepted, tx)
      /\ wind' = (wind + 1) % M
  BY DEF Put
<1>4. wind = (rind + 1 + nums) % M /\ rind + 1 + nums \in 0..(2 * M - 1)
  <2>1. wind = (rind + 1 + nums) % M
    BY DEF RingOK
  <2>2. rind + 1 + nums \in 0..(2 * M - 1)
    BY <1>1, SMT
  <2> QED
    BY <2>1, <2>2
<1>5. wind' = (rind + 1 + nums + 1) % M
  BY <1>1, <1>3, <1>4, NextInRing
<1>6. wind' \in 0..(M - 1)
  <2>1. rind + 1 + nums + 1 \in Nat
    BY <1>1, SMT
  <2> QED
    BY <1>1, <2>1, <1>5, InRing
<1>7. Len(accepted) = bcnt * BatchSize + nums
  BY <1>1 DEF RingOK
<1>8. Len(accepted') = bcnt * BatchSize + nums + 1 /\ accepted' \in Seq(Tx)
  <2>1. Len(accepted') = Len(accepted) + 1 /\ accepted' \in Seq(Tx)
    BY <1>2, <1>3, <1>1
  <2>2. bcnt * BatchSize \in Nat
    BY <1>1, SMT
  <2> QED
    BY <2>1, <2>2, <1>7, <1>1
<1>9. queue' \in [0..(M - 1) -> Nat]
  BY <1>1, <1>2, <1>3
<1>10. ASSUME NEW i \in 1..(nums + 1)
       PROVE  queue'[(rind + i) % M] = accepted'[bcnt * BatchSize + i]
  <2>1. i \in 1..M /\ nums + 1 \in 1..M /\ rind + i \in Nat
    BY <1>1, SMT
  <2>2. (rind + i) % M \in 0..(M - 1) /\ wind \in 0..(M - 1)
    BY <1>1, <2>1, InRing DEF TypeOK
  <2>3. CASE i = nums + 1
    <3>1. (rind + i) % M = wind
      BY <2>3, <1>4, <1>1, SMT
    <3>2. bcnt * BatchSize + i = Len(accepted) + 1
      BY <2>3, <1>7, <1>1, SMT
    <3> QED
      BY <3>1, <3>2, <1>3, <1>1, <1>2, <2>2
  <2>4. CASE i # nums + 1
    <3>1. (rind + i) % M # (rind + (nums + 1)) % M
      BY <2>4, <2>1, <1>1, DifferentPlaces
    <3>2. (rind + (nums + 1)) % M = wind
      BY <1>4, <1>1, SMT
    <3>3. i \in 1..nums
      BY <2>4, <1>1, SMT
    <3>4. queue[(rind + i) % M] = accepted[bcnt * BatchSize + i]
      BY <3>3, <1>1 DEF RingOK
    <3>5. bcnt * BatchSize \in Nat
      BY <1>1, SMT
    <3>6. bcnt * BatchSize + i \in 1..Len(accepted)
      <4> DEFINE base == bcnt * BatchSize
      <4> HIDE DEF base
      <4>1. base \in Nat /\ Len(accepted) = base + nums
        BY <3>5, <1>7 DEF base
      <4>2. base + i \in 1..Len(accepted)
        BY <4>1, <3>3, <1>1
      <4> QED
        BY <4>2 DEF base
    <3>7. accepted'[bcnt * BatchSize + i] = accepted[bcnt * BatchSize + i]
      BY <3>6, <1>3, <1>1, <1>2
    <3>8. queue'[(rind + i) % M] = queue[(rind + i) % M]
      BY <3>1, <3>2, <2>2, <1>3, <1>1
    <3> QED
      BY <3>4, <3>7, <3>8
  <2> QED
    BY <2>3, <2>4
<1>11. Len(handed) \in Nat /\ Len(batchChannel) \in Nat
       /\ Len(handed) + Len(batchChannel) = bcnt
  BY DEF TypeOK, PipeOK
<1>12. ASSUME NEW j \in 1..Len(batchChannel)
       PROVE  batchChannel[j] = Stream!BatchOf(accepted', Len(handed) + j - 1)
  <2>1. /\ Len(handed) + j - 1 \in Nat
        /\ Len(handed) + j \in Nat
        /\ Len(handed) + j <= bcnt
    BY <1>11, SMT
  <2>2. (Len(handed) + j) * BatchSize <= bcnt * BatchSize
    BY <2>1, <1>1, ProductMonotone
  <2>3. bcnt * BatchSize \in Nat
    BY <1>1, SMT
  <2>4. (Len(handed) + j - 1 + 1) * BatchSize <= Len(accepted)
    BY <2>1, <2>2, <2>3, <1>1, <1>7, <1>11, SMT
  <2>5. Stream!BatchOf(accepted', Len(handed) + j - 1)
           = Stream!BatchOf(accepted, Len(handed) + j - 1)
    BY <2>1, <2>4, <1>1, <1>2, <1>3, BatchStable
  <2> QED
    BY <2>5 DEF PipeOK
<1> QED
  BY <1>2, <1>5, <1>6, <1>8, <1>9, <1>10, <1>11, <1>12

\* What Make reads is the next batch of the stream.
LEMMA MakeReads ==
    ASSUME TypeOK, RingOK, PipeOK, Make, RingsHoldABatch
    PROVE  Batch(queue') = Stream!BatchOf(accepted', bcnt) /\ Batch(queue') \in Batches
<1> USE PoolAssumption
<1>1. Put /\ nums + 1 = BatchSize
  BY DEF Make, BatchReady, TypeOK
<1>2. \A i \in 1..BatchSize :
         queue'[(rind + i) % maxQueueSize] = accepted'[bcnt * BatchSize + i]
  BY <1>1, PutWrites
<1>3. Batch(queue') = Stream!BatchOf(accepted', bcnt)
  BY <1>2 DEF Batch, Stream!BatchOf
<1>4. accepted' \in Seq(Tx) /\ Len(accepted') = bcnt * BatchSize + BatchSize
  <2>1. accepted' \in Seq(Tx) /\ Len(accepted') = bcnt * BatchSize + nums + 1
    BY <1>1, PutWrites
  <2>2. bcnt * BatchSize \in Nat
    BY SMT DEF TypeOK
  <2> QED
    BY <2>1, <2>2, <1>1 DEF TypeOK
<1>5. ASSUME NEW i \in 1..BatchSize
      PROVE  accepted'[bcnt * BatchSize + i] \in Tx
  <2>1. bcnt * BatchSize \in Nat
    BY SMT DEF TypeOK
  <2>2. bcnt * BatchSize + i \in 1..Len(accepted')
    BY <1>4, <2>1
  <2> QED
    BY <1>4, <2>2
<1>6. Id + N * bcnt \in Nat
  <2>1. N \in Nat /\ Id \in Nat /\ bcnt \in Nat
    BY DEF TypeOK
  <2>2. N * bcnt \in Nat
    BY <2>1, SMT
  <2> QED
    BY <2>1, <2>2, SMT
<1> QED
  BY <1>3, <1>5, <1>6 DEF Stream!BatchOf, Batches

LEMMA SubmitKeeps == IInv /\ Submit => IInv'
<1> SUFFICES ASSUME IInv, Submit PROVE IInv'
  OBVIOUS
<1>1. UNCHANGED <<maxQueueSize, queue, wind, rind, nums, bcnt, pushing, accepted,
                  batchChannel, handed>>
  BY DEF Submit, ring
<1>2. submitted' \in 0..MaxTxs /\ txChannel' \in Seq(Tx)
  BY PoolAssumption DEF IInv, TypeOK, Submit, Tx
<1> QED
  BY <1>1, <1>2 DEF IInv, TypeOK, RingOK, PipeOK, Made

LEMMA DropKeeps == IInv /\ Drop => IInv'
<1> SUFFICES ASSUME IInv, Drop PROVE IInv'
  OBVIOUS
<1>1. UNCHANGED <<maxQueueSize, queue, wind, rind, nums, bcnt, pushing, accepted,
                  batchChannel, handed, submitted>>
  BY DEF Drop, Take, ring
<1>2. txChannel' \in Seq(Tx)
  BY DEF IInv, TypeOK, Drop, Take
<1> QED
  BY <1>1, <1>2 DEF IInv, TypeOK, RingOK, PipeOK, Made

LEMMA StoreKeeps == RingsHoldABatch /\ IInv /\ Store => IInv'
<1> SUFFICES ASSUME RingsHoldABatch, IInv, Store PROVE IInv'
  OBVIOUS
<1>1. TypeOK /\ RingOK /\ PipeOK /\ Put /\ pushing = NoBatch
  BY DEF IInv, Store, Put, Take
<1>2. /\ UNCHANGED <<maxQueueSize, submitted, rind, bcnt, pushing, batchChannel, handed>>
      /\ nums' = nums + 1
  BY DEF Store, Put, Take
<1>3. nums' \in 0..(BatchSize - 1)
  BY <1>1, <1>2, PoolAssumption DEF TypeOK, Store, BatchReady
<1>4. /\ queue' \in [0..(maxQueueSize - 1) -> Nat]
      /\ accepted' \in Seq(Tx) /\ txChannel' \in Seq(Tx)
      /\ wind' = (rind + 1 + nums + 1) % maxQueueSize
      /\ wind' \in 0..(maxQueueSize - 1)
      /\ Len(accepted') = bcnt * BatchSize + nums + 1
      /\ \A i \in 1..(nums + 1) :
            queue'[(rind + i) % maxQueueSize] = accepted'[bcnt * BatchSize + i]
      /\ Len(handed) + Len(batchChannel) = bcnt
      /\ \A j \in 1..Len(batchChannel) :
            batchChannel[j] = Stream!BatchOf(accepted', Len(handed) + j - 1)
  BY <1>1, PutWrites
<1>5. TypeOK'
  BY <1>1, <1>2, <1>3, <1>4 DEF TypeOK
<1>6. RingOK'
  <2>1. Made' = bcnt
    BY <1>1, <1>2 DEF Made
  <2>2. rind + 1 + nums + 1 = rind' + 1 + nums'
    BY <1>1, <1>2, SMT DEF TypeOK
  <2>3. wind' = (rind' + 1 + nums') % maxQueueSize'
    BY <2>2, <1>2, <1>4
  <2>4. Len(accepted') = Made' * BatchSize + nums'
    <3>1. bcnt * BatchSize \in Nat
      BY <1>1, PoolAssumption, SMT DEF TypeOK
    <3> QED
      BY <3>1, <2>1, <1>1, <1>2, <1>4 DEF TypeOK
  <2> QED
    BY <2>1, <2>3, <2>4, <1>2, <1>4 DEF RingOK
<1>7. PipeOK'
  BY <1>1, <1>2, <1>4 DEF PipeOK
<1> QED
  BY <1>5, <1>6, <1>7 DEF IInv

LEMMA MakeKeeps == RingsHoldABatch /\ IInv /\ Make => IInv'
<1> SUFFICES ASSUME RingsHoldABatch, IInv, Make PROVE IInv'
  OBVIOUS
<1>1. TypeOK /\ RingOK /\ PipeOK /\ Put /\ pushing = NoBatch
  BY DEF IInv, Make, Put, Take
<1>2. /\ UNCHANGED <<maxQueueSize, submitted, bcnt, batchChannel, handed>>
      /\ nums + 1 = BatchSize /\ nums' = 0
      /\ rind' = (rind + BatchSize) % maxQueueSize
      /\ pushing' = Batch(queue')
  BY <1>1, PoolAssumption DEF Make, Put, Take, BatchReady, TypeOK, ReadTo
<1>3. /\ pushing' = Stream!BatchOf(accepted', bcnt)
      /\ pushing' \in Batches /\ pushing' # NoBatch
  BY <1>1, <1>2, MakeReads, PoolAssumption DEF Batches
<1>4. /\ queue' \in [0..(maxQueueSize - 1) -> Nat]
      /\ accepted' \in Seq(Tx) /\ txChannel' \in Seq(Tx)
      /\ wind' = (rind + 1 + nums + 1) % maxQueueSize
      /\ wind' \in 0..(maxQueueSize - 1)
      /\ Len(accepted') = bcnt * BatchSize + nums + 1
      /\ Len(handed) + Len(batchChannel) = bcnt
      /\ \A j \in 1..Len(batchChannel) :
            batchChannel[j] = Stream!BatchOf(accepted', Len(handed) + j - 1)
  BY <1>1, PutWrites
<1>5. maxQueueSize \in Nat \ {0} /\ BatchSize <= maxQueueSize /\ BatchSize \in Nat \ {0}
  BY <1>1, PoolAssumption DEF TypeOK, RingsHoldABatch
<1>6. rind + BatchSize \in 0..(2 * maxQueueSize - 1) /\ rind + BatchSize \in Nat
  BY <1>1, <1>5, SMT DEF TypeOK
<1>7. rind' \in 0..(maxQueueSize - 1)
  BY <1>2, <1>5, <1>6, InRing
<1>8. TypeOK'
  <2>1. nums' \in 0..(BatchSize - 1)
    BY <1>2, <1>5
  <2>2. rind' \in -1..(maxQueueSize - 1)
    BY <1>5, <1>7, SMT
  <2>3. maxQueueSize \in MaxQueueSizes /\ submitted \in 0..MaxTxs /\ bcnt \in Nat
        /\ batchChannel \in Seq(Batches) /\ handed \in Seq(Batches)
    BY <1>1 DEF TypeOK
  <2> QED
    BY <2>1, <2>2, <2>3, <1>2, <1>3, <1>4 DEF TypeOK
<1>9. RingOK'
  <2>1. Made' = bcnt + 1
    BY <1>2, <1>3 DEF Made
  <2>2. wind' = (rind' + 1 + nums') % maxQueueSize'
    <3>1. rind + 1 + nums + 1 = rind + BatchSize + 1
      BY <1>1, <1>2, SMT DEF TypeOK
    <3>2. (rind' + 1) % maxQueueSize = (rind + BatchSize + 1) % maxQueueSize
      BY <1>2, <1>5, <1>6, NextInRing
    <3>3. rind' + 1 + nums' = rind' + 1
      BY <1>2, <1>7, SMT
    <3> QED
      BY <3>1, <3>2, <3>3, <1>2, <1>4
  <2>3. Len(accepted') = Made' * BatchSize + nums'
    <3>1. bcnt \in Nat /\ nums \in Nat
      BY <1>1 DEF TypeOK
    <3>2. (bcnt + 1) * BatchSize + 0 = bcnt * BatchSize + nums + 1
      BY <3>1, <1>2, <1>5, SMT
    <3> QED
      BY <3>2, <2>1, <1>2, <1>4
  <2>4. 1..nums' = {}
    BY <1>2
  <2> QED
    BY <2>2, <2>3, <2>4 DEF RingOK
<1>10. PipeOK'
  BY <1>2, <1>3, <1>4 DEF PipeOK
<1> QED
  BY <1>8, <1>9, <1>10 DEF IInv

LEMMA PushKeeps == IInv /\ Push => IInv'
<1> SUFFICES ASSUME IInv, Push PROVE IInv'
  OBVIOUS
<1>1. /\ UNCHANGED <<maxQueueSize, submitted, txChannel, queue, wind, rind, nums,
                     accepted, handed>>
      /\ pushing # NoBatch /\ pushing' = NoBatch /\ bcnt' = bcnt + 1
      /\ batchChannel' = Append(batchChannel, pushing)
  BY DEF Push
<1>2. pushing \in Batches /\ batchChannel \in Seq(Batches) /\ bcnt \in Nat
      /\ Len(handed) \in Nat
  BY <1>1 DEF IInv, TypeOK
<1>3. /\ batchChannel' \in Seq(Batches)
      /\ Len(batchChannel') = Len(batchChannel) + 1
      /\ \A j \in 1..Len(batchChannel) : batchChannel'[j] = batchChannel[j]
      /\ batchChannel'[Len(batchChannel) + 1] = pushing
      /\ Len(batchChannel) \in Nat
  BY <1>1, <1>2
<1>4. TypeOK'
  BY <1>1, <1>2, <1>3 DEF IInv, TypeOK
<1>5. RingOK'
  <2>1. Made' = Made
    BY <1>1 DEF Made
  <2> QED
    BY <2>1, <1>1 DEF IInv, RingOK
<1>6. PipeOK'
  <2>1. bcnt = Len(handed) + Len(batchChannel)
    BY DEF IInv, PipeOK
  <2>2. bcnt' = Len(handed') + Len(batchChannel')
    BY <2>1, <1>1, <1>2, <1>3
  <2>3. ASSUME NEW j \in 1..Len(batchChannel')
        PROVE  batchChannel'[j] = Stream!BatchOf(accepted, Len(handed) + j - 1)
    <3>1. CASE j = Len(batchChannel) + 1
      <4>1. Len(handed) + j - 1 = bcnt
        BY <3>1, <2>1, <1>2, <1>3, SMT
      <4> QED
        BY <4>1, <3>1, <1>1, <1>3 DEF IInv, PipeOK
    <3>2. CASE j \in 1..Len(batchChannel)
      BY <3>2, <1>3 DEF IInv, PipeOK
    <3> QED
      BY <3>1, <3>2, <1>3, SMT
  <2> QED
    BY <2>2, <2>3, <1>1 DEF PipeOK
<1> QED
  BY <1>4, <1>5, <1>6 DEF IInv

LEMMA GetBatchKeeps == IInv /\ GetBatch => IInv'
<1> SUFFICES ASSUME IInv, GetBatch PROVE IInv'
  OBVIOUS
<1>1. /\ UNCHANGED <<maxQueueSize, submitted, txChannel, queue, wind, rind, nums, bcnt,
                     pushing, accepted>>
      /\ batchChannel # <<>>
      /\ handed' = Append(handed, Head(batchChannel))
      /\ batchChannel' = Tail(batchChannel)
  BY DEF GetBatch, ring
<1>2. batchChannel \in Seq(Batches) /\ handed \in Seq(Batches) /\ bcnt \in Nat
  BY DEF IInv, TypeOK
<1>3. /\ batchChannel' \in Seq(Batches) /\ handed' \in Seq(Batches)
      /\ Len(batchChannel') = Len(batchChannel) - 1 /\ Len(batchChannel) \in Nat \ {0}
      /\ Len(handed') = Len(handed) + 1 /\ Len(handed) \in Nat
      /\ \A j \in 1..(Len(batchChannel) - 1) : batchChannel'[j] = batchChannel[j + 1]
  BY <1>1, <1>2
<1>4. TypeOK'
  BY <1>1, <1>3 DEF IInv, TypeOK
<1>5. RingOK'
  BY <1>1 DEF IInv, RingOK, Made
<1>6. PipeOK'
  <2>1. bcnt = Len(handed) + Len(batchChannel)
    BY DEF IInv, PipeOK
  <2>2. bcnt' = Len(handed') + Len(batchChannel')
    BY <2>1, <1>1, <1>3
  <2>3. ASSUME NEW j \in 1..Len(batchChannel')
        PROVE  batchChannel'[j] = Stream!BatchOf(accepted, Len(handed') + j - 1)
    <3>1. j + 1 \in 1..Len(batchChannel) /\ j \in 1..(Len(batchChannel) - 1)
      BY <1>3, SMT
    <3>2. Len(handed) + (j + 1) - 1 = Len(handed') + j - 1
      BY <1>3, SMT
    <3>3. batchChannel[j + 1] = Stream!BatchOf(accepted, Len(handed) + (j + 1) - 1)
      BY <3>1 DEF IInv, PipeOK
    <3> QED
      BY <3>1, <3>2, <3>3, <1>3
  <2> QED
    BY <2>2, <2>3, <1>1 DEF IInv, PipeOK
<1> QED
  BY <1>4, <1>5, <1>6 DEF IInv

LEMMA NextKeeps == RingsHoldABatch /\ IInv /\ [Next]_poolVars => IInv'
<1> SUFFICES ASSUME RingsHoldABatch, IInv, [Next]_poolVars PROVE IInv'
  OBVIOUS
<1>1. CASE Submit
  BY <1>1, SubmitKeeps
<1>2. CASE Drop
  BY <1>2, DropKeeps
<1>3. CASE Store
  BY <1>3, StoreKeeps
<1>4. CASE Make
  BY <1>4, MakeKeeps
<1>5. CASE Push
  BY <1>5, PushKeeps
<1>6. CASE GetBatch
  BY <1>6, GetBatchKeeps
<1>7. CASE UNCHANGED poolVars
  BY <1>7 DEF poolVars, ring, IInv, TypeOK, RingOK, PipeOK, Made
<1> QED
  BY <1>1, <1>2, <1>3, <1>4, <1>5, <1>6, <1>7 DEF Next, Run

-----------------------------------------------------------------------------
(***************************************************************************)
(* Every step of the pool is a step of the stream of batches or leaves it  *)
(* alone.                                                                  *)
(***************************************************************************)
LEMMA StepsSimulate ==
    RingsHoldABatch /\ IInv /\ [Next]_poolVars
        => [Stream!Next]_<<accepted, handed>>
<1> SUFFICES ASSUME RingsHoldABatch, IInv, [Next]_poolVars
             PROVE  [Stream!Next]_<<accepted, handed>>
  OBVIOUS
<1>1. CASE Submit
  BY <1>1 DEF Submit, ring
<1>2. CASE Drop
  BY <1>2 DEF Drop, Take, ring
<1>3. ASSUME Put PROVE Stream!Next
  <2>1. Head(txChannel) \in Tx
    <3>1. txChannel \in Seq(Tx)
      BY DEF IInv, TypeOK
    <3>2. txChannel # <<>>
      BY <1>3 DEF Put, Take
    <3> QED
      BY <3>1, <3>2
  <2>2. accepted' = Append(accepted, Head(txChannel)) /\ handed' = handed
    BY <1>3 DEF Put, Take
  <2> QED
    BY <2>1, <2>2 DEF Stream!Next, Stream!Accept
<1>4. CASE Store \/ Make
  BY <1>3, <1>4 DEF Store, Make
<1>5. CASE Push
  <2>1. accepted' = accepted /\ handed' = handed
    BY <1>5, Zenon DEF Push
  <2> QED
    BY <2>1, Zenon
<1>6. CASE GetBatch
  <2> USE PoolAssumption
  <2>1. /\ batchChannel # <<>> /\ batchChannel \in Seq(Batches)
        /\ handed' = Append(handed, Head(batchChannel)) /\ accepted' = accepted
    BY <1>6 DEF GetBatch, ring, IInv, TypeOK
  <2>2. 1 \in 1..Len(batchChannel) /\ Head(batchChannel) = batchChannel[1]
    BY <2>1
  <2>3. batchChannel[1] = Stream!BatchOf(accepted, Len(handed) + 1 - 1)
    BY <2>2 DEF IInv, PipeOK
  <2>4. /\ Len(handed) \in Nat /\ Len(handed) + 1 - 1 = Len(handed)
        /\ Len(handed) + 1 <= bcnt /\ bcnt \in Nat /\ nums \in Nat /\ BatchSize \in Nat
    BY <2>2 DEF IInv, TypeOK, PipeOK
  <2>5. Len(accepted) >= bcnt * BatchSize
    <3>1. bcnt * BatchSize \in Nat /\ (bcnt + 1) * BatchSize = bcnt * BatchSize + BatchSize
      BY <2>4, SMT
    <3>2. Len(accepted) = Made * BatchSize + nums
      BY DEF IInv, RingOK
    <3>3. Made = bcnt \/ Made = bcnt + 1
      BY DEF Made
    <3>4. CASE Made = bcnt
      BY <3>1, <3>2, <3>4, <2>4, SMT
    <3>5. CASE Made = bcnt + 1
      BY <3>1, <3>2, <3>5, <2>4, SMT
    <3> QED
      BY <3>3, <3>4, <3>5
  <2>6. (Len(handed) + 1) * BatchSize <= bcnt * BatchSize
    BY <2>4, ProductMonotone
  <2>7. Len(accepted) >= (Len(handed) + 1) * BatchSize
    <3>1. /\ bcnt * BatchSize \in Nat /\ (Len(handed) + 1) * BatchSize \in Nat
          /\ Len(accepted) \in Nat
      BY <2>4, SMT DEF IInv, TypeOK
    <3> QED
      BY <3>1, <2>5, <2>6
  <2> QED
    BY <2>1, <2>2, <2>3, <2>4, <2>7 DEF Stream!Next, Stream!HandOut
<1>7. CASE UNCHANGED poolVars
  BY <1>7 DEF poolVars, ring
<1> QED
  BY <1>1, <1>2, <1>4, <1>5, <1>6, <1>7 DEF Next, Run

(***************************************************************************)
(* Refinement: whatever the sizes of channels and ring, as long as the     *)
(* ring holds a batch, the pool hands out its accepted transactions in     *)
(* order, exactly once, in whole batches.                                  *)
(***************************************************************************)
THEOREM PoolImplementsStream ==
    ASSUME RingsHoldABatch
    PROVE  Spec => StreamSpec
<1>1. Init => Stream!Init
  BY DEF Init, Stream!Init
<1>2. Spec => []IInv
  <2>1. IInv /\ [Next]_poolVars => IInv'
    BY NextKeeps
  <2> QED
    BY <2>1, Initially, PTL DEF Spec
<1>3. IInv /\ [Next]_poolVars => [Stream!Next]_<<accepted, handed>>
  BY StepsSimulate
<1> QED
  BY <1>1, <1>2, <1>3, PTL DEF Spec, StreamSpec, Stream!Spec

-----------------------------------------------------------------------------
\* The number of every batch handed out.
IdsOK == \A j \in 1..Len(handed) : handed[j].ID = Id + N * (j - 1)

\* No other node of the committee gives a batch the number of one of these,
\* and no two of these have the same.
UniqueIds ==
    \A j \in 1..Len(handed) :
        /\ \A i \in (0..(N - 1)) \ {Id}, k \in Nat : handed[j].ID # i + N * k
        /\ \A k \in 1..Len(handed) : handed[j].ID = handed[k].ID => j = k

LEMMA NextKeepsIds ==
    ASSUME IInv, IdsOK, [Next]_poolVars
    PROVE  IdsOK'
<1>1. CASE GetBatch
  <2>1. /\ handed \in Seq(Batches) /\ batchChannel \in Seq(Batches) /\ batchChannel # <<>>
        /\ handed' = Append(handed, Head(batchChannel))
    BY <1>1 DEF GetBatch, IInv, TypeOK
  <2>2. /\ 1 \in 1..Len(batchChannel) /\ Head(batchChannel) = batchChannel[1]
        /\ Head(batchChannel) \in Batches
    BY <2>1
  <2>3. /\ Len(handed') = Len(handed) + 1 /\ Len(handed) \in Nat
        /\ handed'[Len(handed) + 1] = Head(batchChannel)
        /\ \A j \in 1..Len(handed) : handed'[j] = handed[j]
    BY <2>1, <2>2
  <2>4. batchChannel[1] = Stream!BatchOf(accepted, Len(handed) + 1 - 1)
    BY <2>2 DEF IInv, PipeOK
  <2>5. Head(batchChannel).ID = Id + N * (Len(handed) + 1 - 1)
    BY <2>2, <2>4 DEF Stream!BatchOf
  <2> SUFFICES ASSUME NEW j \in 1..Len(handed')
               PROVE  handed'[j].ID = Id + N * (j - 1)
    BY DEF IdsOK
  <2>6. CASE j = Len(handed) + 1
    BY <2>3, <2>5, <2>6
  <2>7. CASE j # Len(handed) + 1
    <3>1. j \in 1..Len(handed)
      BY <2>3, <2>7
    <3> QED
      BY <3>1, <2>3 DEF IdsOK
  <2> QED
    BY <2>6, <2>7
<1>2. CASE UNCHANGED handed
  BY <1>2 DEF IdsOK
<1> QED
  BY <1>1, <1>2 DEF Next, Run, Submit, Drop, Store, Make, Put, Take, Push, poolVars

(***************************************************************************)
(* pool.go:57-73 numbers the batches of a node Id + N * bcnt and counts    *)
(* only when the push is done.  In whatever order clients, queue and       *)
(* consensus run, no batch handed out has the number of another batch of   *)
(* the node, or a number that a batch of another node can have.            *)
(***************************************************************************)
THEOREM BatchIdsUnique ==
    ASSUME RingsHoldABatch
    PROVE  Spec => []UniqueIds
<1>1. Init => IInv /\ IdsOK
  BY Initially DEF Init, IdsOK
<1>2. IInv /\ IdsOK /\ [Next]_poolVars => (IInv /\ IdsOK)'
  BY NextKeeps, NextKeepsIds
<1>3. IInv /\ IdsOK => UniqueIds
  <2> SUFFICES ASSUME IdsOK, NEW j \in 1..Len(handed)
               PROVE  /\ \A i \in (0..(N - 1)) \ {Id}, k \in Nat : handed[j].ID # i + N * k
                      /\ \A k \in 1..Len(handed) : handed[j].ID = handed[k].ID => j = k
    BY DEF UniqueIds
  <2>1. Id \in 0..(N - 1) /\ j - 1 \in Nat /\ handed[j].ID = Id + N * (j - 1)
    BY PoolAssumption DEF IdsOK
  <2>2. ASSUME NEW i \in (0..(N - 1)) \ {Id}, NEW k \in Nat
        PROVE  handed[j].ID # i + N * k
    BY <2>1, IdsDiffer
  <2>3. ASSUME NEW k \in 1..Len(handed), handed[j].ID = handed[k].ID
        PROVE  j = k
    <3>1. k - 1 \in Nat /\ handed[k].ID = Id + N * (k - 1)
      BY DEF IdsOK
    <3>2. j - 1 = k - 1
      BY <2>1, <2>3, <3>1, IdsDiffer
    <3> QED
      BY <3>2
  <2> QED
    BY <2>2, <2>3
<1> QED
  BY <1>1, <1>2, <1>3, PTL DEF Spec

-----------------------------------------------------------------------------
(***************************************************************************)
(* A ring larger than a batch is never full.                               *)
(***************************************************************************)
LEMMA NeverFull ==
    ASSUME TypeOK, RingOK, maxQueueSize > BatchSize
    PROVE  ~Full
<1> DEFINE M == maxQueueSize
<1>1. /\ M \in Nat \ {0} /\ nums + 1 \in 1..(M - 1) /\ nums \in Nat
      /\ rind \in -1..(M - 1)
  BY PoolAssumption DEF TypeOK
<1>2. wind = (rind + (nums + 1)) % M
  <2>1. rind + 1 + nums = rind + (nums + 1)
    BY <1>1, SMT
  <2> QED
    BY <2>1 DEF RingOK
<1>3. CASE rind = -1
  BY <1>3 DEF Full, TypeOK
<1>4. CASE rind \in 0..(M - 1)
  <2>1. M \in 1..M /\ nums + 1 \in 1..M /\ nums + 1 # M
    BY <1>1, SMT
  <2>2. (rind + (nums + 1)) % M # (rind + M) % M
    BY <1>1, <2>1, DifferentPlaces
  <2>3. (rind + M) % M = rind
    BY <1>1, <1>4, SMT
  <2> QED
    BY <1>2, <2>2, <2>3 DEF Full
<1> QED
  BY <1>1, <1>3, <1>4, SMT

\* NothingDropped, place by place.
InOrder ==
    maxQueueSize > BatchSize =>
        /\ Len(accepted) + Len(txChannel) = submitted
        /\ \A i \in 1..Len(accepted) : accepted[i] = i
        /\ \A i \in 1..Len(txChannel) : txChannel[i] = Len(accepted) + i

LEMMA PutKeepsOrder ==
    ASSUME TypeOK, InOrder, Put
    PROVE  InOrder'
<1> SUFFICES ASSUME maxQueueSize > BatchSize
             PROVE  /\ Len(accepted') + Len(txChannel') = submitted
                    /\ \A i \in 1..Len(accepted') : accepted'[i] = i
                    /\ \A i \in 1..Len(txChannel') : txChannel'[i] = Len(accepted') + i
  BY DEF InOrder, Put, Take
<1> DEFINE tx == Head(txChannel)
<1>1. /\ accepted \in Seq(Tx) /\ txChannel \in Seq(Tx) /\ txChannel # <<>>
      /\ accepted' = Append(accepted, tx) /\ txChannel' = Tail(txChannel)
  BY DEF TypeOK, Put, Take
<1>2. /\ Len(accepted) + Len(txChannel) = submitted
      /\ \A i \in 1..Len(accepted) : accepted[i] = i
      /\ \A i \in 1..Len(txChannel) : txChannel[i] = Len(accepted) + i
  BY DEF InOrder
<1>3. tx = txChannel[1] /\ 1 \in 1..Len(txChannel) /\ tx \in Tx
  BY <1>1
<1>4. tx = Len(accepted) + 1
  BY <1>2, <1>3
<1>5. /\ Len(accepted') = Len(accepted) + 1 /\ Len(accepted) \in Nat
      /\ Len(txChannel') = Len(txChannel) - 1 /\ Len(txChannel) \in Nat
  BY <1>1, <1>3
<1>6. ASSUME NEW i \in 1..Len(accepted') PROVE accepted'[i] = i
  BY <1>1, <1>2, <1>3, <1>4, <1>5
<1>7. ASSUME NEW i \in 1..Len(txChannel') PROVE txChannel'[i] = Len(accepted') + i
  <2>1. txChannel'[i] = txChannel[i + 1] /\ i + 1 \in 1..Len(txChannel)
    BY <1>1, <1>5
  <2> QED
    BY <2>1, <1>2, <1>5
<1> QED
  BY <1>2, <1>5, <1>6, <1>7

LEMMA SubmitKeepsOrder ==
    ASSUME TypeOK, InOrder, Submit
    PROVE  InOrder'
<1> SUFFICES ASSUME maxQueueSize > BatchSize
             PROVE  /\ Len(accepted) + Len(txChannel') = submitted'
                    /\ \A i \in 1..Len(txChannel') : txChannel'[i] = Len(accepted) + i
  BY DEF InOrder, Submit, ring
<1>1. /\ txChannel \in Seq(Tx) /\ accepted \in Seq(Tx) /\ submitted' = submitted + 1
      /\ submitted + 1 \in Tx /\ txChannel' = Append(txChannel, submitted + 1)
  BY PoolAssumption DEF TypeOK, Submit, Tx
<1>2. /\ Len(accepted) + Len(txChannel) = submitted
      /\ \A i \in 1..Len(txChannel) : txChannel[i] = Len(accepted) + i
  BY DEF InOrder
<1>3. /\ Len(txChannel') = Len(txChannel) + 1 /\ Len(txChannel) \in Nat
      /\ Len(accepted) \in Nat
      /\ txChannel'[Len(txChannel) + 1] = submitted + 1
      /\ \A i \in 1..Len(txChannel) : txChannel'[i] = txChannel[i]
  BY <1>1
<1>4. Len(accepted) + Len(txChannel') = submitted'
  BY <1>1, <1>2, <1>3
<1>5. ASSUME NEW i \in 1..Len(txChannel') PROVE txChannel'[i] = Len(accepted) + i
  <2>1. CASE i = Len(txChannel) + 1
    BY <2>1, <1>2, <1>3
  <2>2. CASE i # Len(txChannel) + 1
    <3>1. i \in 1..Len(txChannel)
      BY <2>2, <1>3
    <3> QED
      BY <3>1, <1>2, <1>3
  <2> QED
    BY <2>1, <2>2
<1> QED
  BY <1>4, <1>5

(***************************************************************************)
(* For every ring larger than a batch: no submitted transaction is lost or *)
(* overtaken on its way into the ring.                                     *)
(***************************************************************************)
THEOREM NeverDrops ==
    ASSUME RingsHoldABatch
    PROVE  Spec => []NothingDropped
<1>1. Init => IInv /\ InOrder
  <2>1. Init => InOrder
    BY DEF Init, InOrder
  <2> QED
    BY <2>1, Initially
<1>2. IInv /\ InOrder /\ [Next]_poolVars => (IInv /\ InOrder)'
  <2> SUFFICES ASSUME IInv, InOrder, [Next]_poolVars PROVE (IInv /\ InOrder)'
    OBVIOUS
  <2>1. IInv'
    BY NextKeeps
  <2>2. InOrder'
    <3>1. CASE Submit
      BY <3>1, SubmitKeepsOrder DEF IInv
    <3>2. CASE Store \/ Make
      BY <3>2, PutKeepsOrder DEF IInv, Store, Make
    <3>3. CASE Drop
      <4>1. maxQueueSize' = maxQueueSize /\ ~(maxQueueSize > BatchSize)
        BY <3>3, NeverFull DEF Drop, Take, IInv
      <4> QED
        BY <4>1 DEF InOrder
    <3>4. CASE Push \/ GetBatch \/ UNCHANGED poolVars
      BY <3>4 DEF Push, GetBatch, poolVars, ring, InOrder
    <3> QED
      BY <3>1, <3>2, <3>3, <3>4 DEF Next, Run
  <2> QED
    BY <2>1, <2>2
<1>3. IInv /\ InOrder => NothingDropped
  <2> SUFFICES ASSUME IInv, InOrder, maxQueueSize > BatchSize
               PROVE  accepted \o txChannel = [i \in 1..submitted |-> i]
    BY DEF NothingDropped
  <2>1. /\ accepted \in Seq(Tx) /\ txChannel \in Seq(Tx)
        /\ Len(accepted) + Len(txChannel) = submitted
        /\ \A i \in 1..Len(accepted) : accepted[i] = i
        /\ \A i \in 1..Len(txChannel) : txChannel[i] = Len(accepted) + i
    BY DEF IInv, TypeOK, InOrder
  <2> DEFINE stream == accepted \o txChannel
  <2>2. /\ stream \in Seq(Tx) /\ Len(stream) = submitted
        /\ \A i \in 1..Len(stream) :
              stream[i] = IF i <= Len(accepted) THEN accepted[i]
                          ELSE txChannel[i - Len(accepted)]
    BY <2>1
  <2> HIDE DEF stream
  <2>3. ASSUME NEW i \in 1..submitted PROVE stream[i] = i
    <3>1. Len(accepted) \in Nat /\ Len(txChannel) \in Nat
      BY <2>1
    <3>2. i \in 1..Len(stream)
      BY <2>2
    <3>3. CASE i <= Len(accepted)
      <4>1. i \in 1..Len(accepted)
        BY <3>1, <3>3
      <4>2. stream[i] = accepted[i]
        BY <3>2, <3>3, <2>2
      <4> QED
        BY <4>1, <4>2, <2>1
    <3>4. CASE i > Len(accepted)
      <4>1. i - Len(accepted) \in 1..Len(txChannel)
        BY <3>1, <3>4, <2>1
      <4>2. stream[i] = txChannel[i - Len(accepted)]
        BY <3>2, <3>1, <3>4, <2>2
      <4>3. txChannel[i - Len(accepted)] = Len(accepted) + (i - Len(accepted))
        BY <4>1, <2>1
      <4> QED
        BY <4>2, <4>3, <3>1
    <3> QED
      BY <3>1, <3>3, <3>4
  <2>4. stream = [i \in 1..submitted |-> stream[i]]
    BY <2>2
  <2>5. stream = [i \in 1..submitted |-> i]
    BY <2>3, <2>4
  <2> QED
    BY <2>5 DEF stream
<1> QED
  BY <1>1, <1>2, <1>3, PTL DEF Spec

-----------------------------------------------------------------------------
\* With a ring of one batch the reader stops at its last place.
Tight ==
    maxQueueSize = BatchSize =>
        \/ Made = 0 /\ rind = -1
        \/ Made = 1 /\ rind = BatchSize - 1

LEMMA TightKeeps ==
    ASSUME RingsHoldABatch, IInv, Tight, [Next]_poolVars
    PROVE  Tight'
<1> SUFFICES ASSUME maxQueueSize = BatchSize, maxQueueSize' = maxQueueSize
             PROVE  \/ Made' = 0 /\ rind' = -1
                    \/ Made' = 1 /\ rind' = BatchSize - 1
  BY DEF Tight, Next, Run, Submit, Drop, Store, Make, Put, Take, Push, GetBatch, ring, poolVars
<1> DEFINE B == BatchSize
<1>1. B \in Nat \ {0} /\ nums \in 0..(B - 1) /\ rind \in -1..(B - 1) /\ bcnt \in Nat
  BY PoolAssumption DEF IInv, TypeOK
<1>2. CASE Make
  <2>1. /\ pushing = NoBatch /\ pushing' # NoBatch /\ bcnt' = bcnt
        /\ nums + 1 >= B /\ wind # rind
    <3>1. Batch(queue') # NoBatch
      BY <1>2, MakeReads, PoolAssumption DEF IInv, Batches
    <3> QED
      BY <1>2, <3>1 DEF Make, Put, Take, BatchReady, Full
  <2>2. Made' = Made + 1 /\ Made = bcnt
    BY <2>1 DEF Made
  <2>3. rind' = (rind + B) % B /\ nums = B - 1
    BY <1>1, <1>2, <2>1 DEF Make, ReadTo
  <2>4. CASE Made = 0 /\ rind = -1
    BY <1>1, <2>2, <2>3, <2>4
  <2>5. CASE Made = 1 /\ rind = B - 1
    <3>1. wind = (rind + 1 + nums) % B
      BY DEF IInv, RingOK
    <3>2. rind + 1 + nums = B + (B - 1)
      BY <1>1, <2>3, <2>5
    <3>3. (B + (B - 1)) % B = B - 1
      BY <1>1, SMT
    <3> QED
      BY <2>1, <2>5, <3>1, <3>2, <3>3
  <2> QED
    BY <2>4, <2>5 DEF Tight
<1>3. CASE Push
  BY <1>3, <1>1 DEF Push, Tight, Made
<1>4. CASE Submit \/ Drop \/ Store \/ GetBatch \/ UNCHANGED poolVars
  BY <1>4 DEF Submit, Drop, Store, Put, Take, GetBatch, ring, poolVars, Tight, Made
<1> QED
  BY <1>2, <1>3, <1>4 DEF Next, Run

(***************************************************************************)
(* A ring as large as a batch gives one batch, and then nothing for ever,  *)
(* whatever the batch size.                                                *)
(***************************************************************************)
THEOREM TightRingGivesOneBatch ==
    ASSUME RingsHoldABatch
    PROVE  Spec => []OneBatchWhenTight
<1>1. Init => IInv /\ Tight
  BY Initially DEF Init, Tight, Made
<1>2. IInv /\ Tight /\ [Next]_poolVars => (IInv /\ Tight)'
  BY NextKeeps, TightKeeps
<1>3. IInv /\ Tight => OneBatchWhenTight
  <2> SUFFICES ASSUME IInv, Tight, maxQueueSize = BatchSize PROVE Len(handed) <= 1
    BY DEF OneBatchWhenTight
  <2>1. bcnt <= 1 /\ bcnt \in Nat
    BY DEF Tight, Made, IInv, TypeOK
  <2>2. bcnt = Len(handed) + Len(batchChannel)
    BY DEF IInv, PipeOK
  <2>3. Len(handed) \in Nat /\ Len(batchChannel) \in Nat
    BY DEF IInv, TypeOK
  <2> QED
    BY <2>1, <2>2, <2>3
<1> QED
  BY <1>1, <1>2, <1>3, PTL DEF Spec
=============================================================================
