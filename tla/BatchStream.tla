----------------------------- MODULE BatchStream -----------------------------
(***************************************************************************)
(* What a node's transaction pool promises: the transactions it accepts    *)
(* leave in that order, each exactly once, cut into batches of BatchSize;  *)
(* batch k of node Id has the number Id + N*k.                             *)
(***************************************************************************)
EXTENDS Integers, Sequences

CONSTANTS BatchSize,   \* transactions per batch
          N,           \* committee size
          Id,          \* this node
          Tx           \* transactions

VARIABLES accepted,    \* the transactions taken in, in order
          handed       \* the batches handed out, in order

BatchOf(log, k) ==
    [ID |-> Id + N * k, Txs |-> [i \in 1..BatchSize |-> log[k * BatchSize + i]]]

Init == accepted = <<>> /\ handed = <<>>

Accept == (\E tx \in Tx : accepted' = Append(accepted, tx)) /\ UNCHANGED handed

HandOut ==
    /\ Len(accepted) >= (Len(handed) + 1) * BatchSize
    /\ handed' = Append(handed, BatchOf(accepted, Len(handed)))
    /\ UNCHANGED accepted

Next == Accept \/ HandOut

Spec == Init /\ [][Next]_<<accepted, handed>>
=============================================================================
