------------------------------ MODULE MCChain ------------------------------
(***************************************************************************)
(* An instance of ChainSync for TLC: a main node and a wallet node, each   *)
(* with one address.  The transfers spend one coin, more than one, and, in *)
(* one block, the change of each other or more than there is.              *)
(***************************************************************************)
EXTENDS ChainSync, TLC

CONSTANTS main, wallet, A, B

MCWallets == (main :> {A}) @@ (wallet :> {B})

Transfer(from, to, amount) == [from |-> from, to |-> to, amount |-> amount]

MCTransfers == {<<Transfer(A, B, 4)>>, <<Transfer(B, A, 4)>>,
                <<Transfer(A, B, 4), Transfer(A, B, 4)>>,
                <<Transfer(A, B, 4), Transfer(A, B, 12)>>,
                <<Transfer(A, B, 12), Transfer(A, B, 4)>>}

\* Bound: messages and goroutines under way at once, more of them while no
\* block has two transfers and a stop is left.
Single == \A h \in DOMAIN mined : Len(mined[h].txs) <= 2
MCUnderWay == BagCardinality(net) <= IF ~Single THEN 2 ELSE IF stops = MaxStops THEN 3 ELSE 4
=============================================================================
