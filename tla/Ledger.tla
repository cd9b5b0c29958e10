------------------------------- MODULE Ledger -------------------------------
(***************************************************************************)
(* The ledger of stage 010: transactions with inputs and outputs, the      *)
(* unspent outputs of a chain, the table the store keeps of them, and how  *)
(* a transfer picks what it spends.  Hashes are numbers, an address is its *)
(* owner, signatures and proof of work are left out.                       *)
(***************************************************************************)
EXTENDS Integers, FiniteSets, Sequences, SequencesExt, FiniteSetsExt

CONSTANT Reward   \* the value of a coinbase output

\* An input names an output and its spender; "times" is how often the same
\* transaction lists it.
Input(tx, index, by, times) == [tx |-> tx, index |-> index, by |-> by, times |-> times]

NewCoinbaseTransaction(id, to) ==
    [id |-> id, ins |-> {}, outs |-> <<[to |-> to, value |-> Reward]>>]

\* The outputs of tx as UTXO records.
Utxos(tx) == {[tx |-> tx.id, index |-> k, to |-> tx.outs[k].to, value |-> tx.outs[k].value] :
                 k \in DOMAIN tx.outs}

Ins(txs) == UNION {tx.ins : tx \in txs}
Spends(in, utxo) == in.tx = utxo.tx /\ in.index = utxo.index /\ in.by = utxo.to

\* The outputs of some transactions that others do not spend.
Unspent(txs, others) ==
    UNION {{u \in Utxos(tx) : \A in \in Ins(others) : ~Spends(in, u)} : tx \in txs}

Total(utxos) == MapThenSumSet(LAMBDA u : u.value, utxos)

Txs(blocks) == UNION {ToSet(b) : b \in ToSet(blocks)}

\* Mutant: what is spent in the block that creates it stays unspent.
FindUTXOMap_mutantOlderOnly(blocks) ==
    UNION {{u \in Utxos(tx) : \A b \in ToSet(blocks) :
               tx \in ToSet(b) \/ \A in \in Ins(ToSet(b)) : ~Spends(in, u)} :
           tx \in Txs(blocks)}

\* The unspent outputs of a chain, given the transactions of its blocks.
FindUTXOMap(blocks) == Unspent(Txs(blocks), Txs(blocks))

(***************************************************************************)
(* Update applies a block to the table: input by input, the entry of the   *)
(* spent transaction is deleted and its other outputs are put aside; then  *)
(* what was put aside and the new outputs replace the entries.             *)
(***************************************************************************)
Entry(table, id) == {u \in table : u.tx = id}

Spend(in, s) ==
    LET entry == Entry(s.table, in.tx)
    IN  IF \E u \in entry : Spends(in, u)
        THEN [table |-> s.table \ entry, aside |-> s.aside \cup {u \in entry : ~Spends(in, u)}]
        ELSE s

SpendAll(ins, table, fresh) == FoldSet(Spend, [table |-> table, aside |-> fresh], ins)

Update(table, txs) ==
    LET spent == SpendAll({in \in Ins(txs) : \E u \in table : Spends(in, u)},
                          table, Unspent(txs, txs))
    IN  {u \in spent.table : Entry(spent.aside, u.tx) = {}} \cup spent.aside

(***************************************************************************)
(* What "from" may spend, in the order it is looked at: first the outputs  *)
(* of the transactions of the block being built, each once per transaction *)
(* that those spend from (FindUnPackageSpendableUTXOs appends in the loop  *)
(* over the spent transactions), then the table.  A table is read in the   *)
(* order of its hashes, which may be any.  At most one transaction is      *)
(* being packed, so none of its own outputs is spent yet.                  *)
(***************************************************************************)
Orders(from, table) ==
    {o \in SetToSeqs({u \in table : u.to = from}) :
        \A i, j \in DOMAIN o : i < j /\ o[i].tx = o[j].tx =>
            o[i].index < o[j].index /\ \A k \in i..j : o[k].tx = o[i].tx}

FindUnPackageSpendableUTXOs(from, pending) ==
    LET keys == Cardinality({in.tx : in \in {i \in Ins(pending) : i.by = from}})
        times == IF keys = 0 THEN 1 ELSE keys
    IN  {[k \in 1..times * Len(own) |-> own[(k - 1) \div times + 1]] :
            own \in Orders(from, UNION {Utxos(tx) : tx \in pending})}

Money(utxos) == MapThenSumSet(LAMBDA k : utxos[k].value, DOMAIN utxos)

\* The shortest prefixes worth the amount; none where the money is short.
FindSpendableUTXOs(from, amount, table, pending) ==
    {p \in UNION {Prefixes(first \o second) :
                     first \in FindUnPackageSpendableUTXOs(from, pending),
                     second \in Orders(from, table)} :
        p # <<>> /\ Money(p) >= amount /\ (Len(p) = 1 \/ Money(Front(p)) < amount)}

\* Mutant: the change is forgotten.
TransferOutputs_mutantNoChange(t, money) == <<[to |-> t.to, value |-> t.amount]>>

\* The change is an output even when it is 0.
TransferOutputs(t, money) ==
    <<[to |-> t.to, value |-> t.amount], [to |-> t.from, value |-> money - t.amount]>>

\* The transactions a transfer may become.
NewSimpleTransaction(id, t, table, pending) ==
    {[id |-> id,
      ins |-> {Input(u.tx, u.index, t.from, Cardinality({k \in DOMAIN p : p[k] = u})) :
                  u \in ToSet(p)},
      outs |-> TransferOutputs(t, Money(p))] :
        p \in FindSpendableUTXOs(t.from, t.amount, table, pending)}

\* The blocks MineNewBlock may make of one or two transfers.
PackedBlocks(next, transfers, table) ==
    {<<tx, NewCoinbaseTransaction(next + 1, transfers[1].from)>> :
        tx \in IF Len(transfers) = 1 THEN NewSimpleTransaction(next, transfers[1], table, {})
               ELSE {}}
    \cup UNION {{<<tx, ty, NewCoinbaseTransaction(next + 2, transfers[1].from)>> :
                    ty \in NewSimpleTransaction(next + 1, transfers[2], table, {tx})} :
                tx \in IF Len(transfers) = 2
                       THEN NewSimpleTransaction(next, transfers[1], table, {}) ELSE {}}
=============================================================================
