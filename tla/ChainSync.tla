----------------------------- MODULE ChainSync -----------------------------
(***************************************************************************)
(* Stage 010: nodes that keep a chain and its table of unspent outputs,    *)
(* mine with the command line while their server is down, and catch up     *)
(* with the main node when it is up.  A server handles every message in a  *)
(* goroutine of its own, and these share the list of hashes to be fetched  *)
(* without a lock: whatever a handler does to it is a step of its own.  A  *)
(* transaction of the database is one step.  A message to a node that is   *)
(* down makes its sender panic; so do a walk over a chain that misses a    *)
(* block and an empty list that is indexed or sliced.  A process may also  *)
(* be killed.  Whatever ends it, the database stays, the memory is lost.   *)
(***************************************************************************)
EXTENDS Ledger, Bags

CONSTANTS Node, Main,
          Wallets,     \* per node, the addresses whose keys it keeps
          Transfers,   \* the argument lists of send
          MaxBlocks,   \* bound: blocks mined, the genesis block included
          MaxStops     \* bound: how often a process is stopped or killed

ASSUME ChainAssumption ==
    /\ Main \in Node
    /\ Reward \in Int
    /\ \A transfers \in Transfers :
          /\ transfers \in Seq(ToSet(transfers))
          /\ \A k \in DOMAIN transfers : transfers[k].amount \in Int

VARIABLES mined,       \* every block there is; a hash is its position here
          stored,      \* per node: the hashes in its blocks bucket
          tip,         \* the hash under "l", 0 when there is none
          table,       \* the utxo bucket
          up,          \* is the server running?
          transactionArray,  \* the hashes still to be fetched, in memory
          net,         \* a bag: the messages that were sent, and the
                       \* goroutines amid a handler
          stops,
          interrupted, \* the nodes a server went down on amid a fetch and
          unreset,     \* those killed between a block they mined and the reset
                       \* of the table, both until the table is reset
          misled       \* history: the blocks mined on such a node

kills == <<unreset, misled>>
vars == <<mined, stored, tip, table, up, transactionArray, net, stops, interrupted, kills>>

\* createblockchain has run on the main node; the others have no database.
Init ==
    LET genesis == <<NewCoinbaseTransaction(1, CHOOSE a \in Wallets[Main] : TRUE)>>
    IN  /\ mined = <<[height |-> 1, prev |-> 0, txs |-> genesis]>>
        /\ stored = [n \in Node |-> IF n = Main THEN {1} ELSE {}]
        /\ tip = [n \in Node |-> IF n = Main THEN 1 ELSE 0]
        /\ table = [n \in Node |-> IF n = Main THEN FindUTXOMap(<<genesis>>) ELSE {}]
        /\ up = [n \in Node |-> FALSE]
        /\ transactionArray = [n \in Node |-> <<>>]
        /\ net = EmptyBag
        /\ stops = 0
        /\ interrupted = {}
        /\ unreset = {} /\ misled = {}

\* The hashes from a tip back to the genesis block, as the iterator walks them.
Walk(t) ==
    LET back[h \in 0..Len(mined)] == IF h = 0 THEN <<>> ELSE <<h>> \o back[mined[h].prev]
    IN  back[t]
TxsOf(hashes) == [k \in DOMAIN hashes |-> mined[hashes[k]].txs]

ChainTxs(t) == Txs(TxsOf(Walk(t)))

Complete(t, hashes) == ToSet(Walk(t)) \subseteq hashes

\* FindTransaction walks until it finds the transaction, or panics at a gap.
FindTransaction(id, t, hashes) ==
    \E k \in DOMAIN Walk(t) :
        /\ ToSet(SubSeq(Walk(t), 1, k)) \subseteq hashes
        /\ \E tx \in ToSet(mined[Walk(t)[k]].txs) : tx.id = id
GetBestHeight(t) == IF t = 0 THEN 0 ELSE mined[t].height

-----------------------------------------------------------------------------
\* The command line, which needs the database for itself.

\* A block holds three transactions at most; no two have the same hash.
NextTx == 3 * Len(mined) + 1

\* The process is killed, n being amid a change of its database.
Killed(n) ==
    /\ stops < MaxStops
    /\ stops' = stops + 1
    /\ unreset' = unreset \cup {n}
    /\ UNCHANGED table

Reset(n, blocks) ==
    /\ table' = [table EXCEPT ![n] = blocks]
    /\ unreset' = unreset \ {n}
    /\ interrupted' = interrupted \ {n}
    /\ UNCHANGED stops

\* On a chain with a gap the block is stored before the reset of the table
\* panics.
MineNewBlock(n, transfers) ==
    /\ ~up[n]
    /\ tip[n] # 0
    /\ Len(mined) < MaxBlocks
    /\ \A k \in DOMAIN transfers : transfers[k].from \in Wallets[n]
    /\ \E txs \in PackedBlocks(NextTx, transfers, table[n]) :
          /\ \A in \in Ins(ToSet(txs)) : \/ \E tx \in ToSet(txs) : tx.id = in.tx
                                 \/ FindTransaction(in.tx, tip[n], stored[n])
          /\ mined' = Append(mined, [height |-> GetBestHeight(tip[n]) + 1, prev |-> tip[n],
                                     txs |-> txs])
          /\ \/ Killed(n) /\ UNCHANGED interrupted
             \/ /\ Complete(tip[n], stored[n])
                /\ Reset(n, Update(FindUTXOMap(TxsOf(Walk(tip[n])) \o <<txs>>), ToSet(txs)))
             \/ /\ ~Complete(tip[n], stored[n])
                /\ UNCHANGED <<table, stops, unreset, interrupted>>
    /\ tip' = [tip EXCEPT ![n] = Len(mined')]
    /\ stored' = [stored EXCEPT ![n] = @ \cup {Len(mined')}]
    /\ misled' = IF n \in unreset \cup interrupted THEN misled \cup {Len(mined')} ELSE misled
    /\ UNCHANGED <<up, transactionArray, net>>

ResetUTXO(n) ==
    /\ ~up[n]
    /\ tip[n] # 0
    /\ Complete(tip[n], stored[n])
    /\ Reset(n, FindUTXOMap(TxsOf(Walk(tip[n]))))
    /\ UNCHANGED <<mined, stored, tip, up, transactionArray, net, misled>>

-----------------------------------------------------------------------------
Message(kind, from, to, payload) == [kind |-> kind, from |-> from, to |-> to, payload |-> payload]
Versions(from, to) == Message("version", from, to, GetBestHeight(tip[from]))

\* The goroutine that handles m, at a later step of its handler.
Amid(step, m, rest) == Message(step, m.from, m.to, rest)

\* A list that was left behind is no fetch: nothing comes back to it.
Fetching(n) ==
    \E m \in BagToSet(net) :
        \/ m.kind \in {"inv", "block", "added", "tested", "request"} /\ m.to = n
        \/ m.kind = "getdata" /\ m.from = n

\* A server that does not run any more: what was on its way to it is lost.
Down(n) ==
    /\ up' = [up EXCEPT ![n] = FALSE]
    /\ net' = [m \in {k \in BagToSet(net) : k.to # n} |-> net[m]]
    /\ transactionArray' = [transactionArray EXCEPT ![n] = <<>>]
    /\ interrupted' = interrupted \cup {k \in Node : Fetching(k)}

\* n did a step of m's handler: what it sends and where it goes on is next,
\* its list is rest.
Reply(n, m, next, rest) ==
    \/ /\ \A r \in next : up[r.to]
       /\ net' = (net (-) SetToBag({m})) (+) SetToBag(next)
       /\ transactionArray' = [transactionArray EXCEPT ![n] = rest]
       /\ UNCHANGED <<up, interrupted>>
    \/ /\ \E r \in next : ~up[r.to]
       /\ Down(n)

Start(n) ==
    /\ ~up[n]
    /\ n # Main => up[Main]
    /\ up' = [up EXCEPT ![n] = TRUE]
    /\ net' = IF n = Main THEN net ELSE net (+) SetToBag({Versions(n, Main)})
    /\ UNCHANGED <<mined, stored, tip, table, transactionArray, stops, interrupted, kills>>

Stop(n) ==
    /\ up[n]
    /\ stops < MaxStops
    /\ stops' = stops + 1
    /\ Down(n)
    /\ UNCHANGED <<mined, stored, tip, table, kills>>

Received(kind, m) == m \in BagToSet(net) /\ m.kind = kind

HandleVersion(m) ==
    LET n == m.to
        best == GetBestHeight(tip[n])
    IN  /\ Received("version", m)
        /\ Reply(n, m, IF best > m.payload THEN {Versions(n, m.from)}
                       ELSE IF best < m.payload THEN {Message("getblocks", n, m.from, 0)}
                       ELSE {}, transactionArray[n])
        /\ UNCHANGED <<mined, stored, tip, table, stops, kills>>

HandleGetBlocks(m) ==
    LET n == m.to
    IN  /\ Received("getblocks", m)
        /\ IF Complete(tip[n], stored[n])
           THEN Reply(n, m, {Message("inv", n, m.from, Walk(tip[n]))}, transactionArray[n])
           ELSE Down(n)
        /\ UNCHANGED <<mined, stored, tip, table, stops, kills>>

HandleGetData(m) ==
    LET n == m.to
    IN  /\ Received("getdata", m)
        /\ Reply(n, m, IF m.payload \in stored[n] THEN {Message("block", n, m.from, m.payload)}
                       ELSE {}, transactionArray[n])
        /\ UNCHANGED <<mined, stored, tip, table, stops, kills>>

\* The first hash is requested; the others become the list, after that and
\* only if there are any.
HandleInv(m) ==
    LET n == m.to
        request == Message("getdata", n, m.from, Head(m.payload))
    IN  /\ Received("inv", m)
        /\ Reply(n, m, IF m.payload = <<>> THEN {}
                       ELSE IF Len(m.payload) = 1 THEN {request}
                       ELSE {request, Amid("assign", m, Tail(m.payload))}, transactionArray[n])
        /\ UNCHANGED <<mined, stored, tip, table, stops, kills>>

\* The list is written, with what was computed before.
Assign(m) ==
    /\ Received("assign", m)
    /\ Reply(m.to, m, {}, m.payload)
    /\ UNCHANGED <<mined, stored, tip, table, stops, kills>>

\* Mutant: any new block becomes the tip.
AddBlock_mutantNewest(t, hash) == hash

\* The tip moves to a higher block only, or to the first one.
AddBlock(t, hash) == IF GetBestHeight(t) < mined[hash].height THEN hash ELSE t

HandleBlock(m) ==
    LET n == m.to
    IN  /\ Received("block", m)
        /\ stored' = [stored EXCEPT ![n] = @ \cup {m.payload}]
        /\ tip' = IF m.payload \in stored[n] THEN tip
                  ELSE [tip EXCEPT ![n] = AddBlock(@, m.payload)]
        /\ Reply(n, m, {Amid("added", m, 0)}, transactionArray[n])
        /\ UNCHANGED <<mined, table, stops, kills>>

\* The table is reset, which panics on a chain with a gap, and the goroutine
\* that handles m goes on with next.
ResetUTXOSet(m, next) ==
    LET n == m.to
    IN  \/ /\ Complete(tip[n], stored[n])
           /\ Reset(n, FindUTXOMap(TxsOf(Walk(tip[n]))))
           /\ net' = (net (-) SetToBag({m})) (+) SetToBag(next)
           /\ UNCHANGED <<up, transactionArray>>
        \/ /\ ~Complete(tip[n], stored[n])
           /\ Down(n)
           /\ UNCHANGED <<table, stops, unreset>>

\* The length of the list is read, and read again.
FirstTest(m) ==
    /\ Received("added", m)
    /\ \/ /\ transactionArray[m.to] # <<>>
          /\ Reply(m.to, m, {Amid("tested", m, 0)}, transactionArray[m.to])
          /\ UNCHANGED <<table, stops, unreset>>
       \/ /\ transactionArray[m.to] = <<>>
          /\ ResetUTXOSet(m, {Amid("tested", m, 0)})
    /\ UNCHANGED <<mined, stored, tip, misled>>

\* Mutant: the table is reset by the first test only.
SecondTest_mutantNoReset(m) ==
    /\ Received("tested", m)
    /\ Reply(m.to, m, IF transactionArray[m.to] = <<>> THEN {} ELSE {Amid("request", m, 0)},
             transactionArray[m.to])
    /\ UNCHANGED <<mined, stored, tip, table, stops, kills>>

SecondTest(m) ==
    /\ Received("tested", m)
    /\ \/ /\ transactionArray[m.to] # <<>>
          /\ Reply(m.to, m, {Amid("request", m, 0)}, transactionArray[m.to])
          /\ UNCHANGED <<table, stops, unreset>>
       \/ /\ transactionArray[m.to] = <<>>
          /\ ResetUTXOSet(m, {})
    /\ UNCHANGED <<mined, stored, tip, misled>>

\* What another goroutine emptied since panics.
RequestNext(m) ==
    LET n == m.to
        list == transactionArray[n]
    IN  /\ Received("request", m)
        /\ IF list = <<>> THEN Down(n)
           ELSE Reply(n, m, {Message("getdata", n, m.from, Head(list)), Amid("pop", m, 0)}, list)
        /\ UNCHANGED <<mined, stored, tip, table, stops, kills>>

Pop(m) ==
    LET n == m.to
        list == transactionArray[n]
    IN  /\ Received("pop", m)
        /\ IF list = <<>> THEN Down(n) ELSE Reply(n, m, {Amid("assign", m, Tail(list))}, list)
        /\ UNCHANGED <<mined, stored, tip, table, stops, kills>>

Handle == \E m \in BagToSet(net) :
             \/ HandleVersion(m) \/ HandleGetBlocks(m) \/ HandleGetData(m)
             \/ HandleInv(m) \/ Assign(m)
             \/ HandleBlock(m) \/ FirstTest(m) \/ SecondTest(m) \/ RequestNext(m) \/ Pop(m)

Next == \/ \E n \in Node : \/ \E transfers \in Transfers : MineNewBlock(n, transfers)
                           \/ ResetUTXO(n) \/ Start(n) \/ Stop(n)
        \/ Handle

Spec == Init /\ [][Next]_vars /\ WF_vars(Handle)

-----------------------------------------------------------------------------
Synced(n) ==
    /\ Complete(tip[n], stored[n])
    /\ n \in unreset \/ table[n] = FindUTXOMap(TxsOf(Walk(tip[n])))

(* Nothing is left half done: a node with no fetch under way, on which none
   was cut short by a server that went down since its table was last reset,
   has every block back to the genesis block and, unless a kill came between
   the block it mined and the reset (Blockchain.go:458-472), a table that is
   what the chain leaves unspent.  Blocks arrive tip first, so the chain has a
   gap until the last one is there, and the goroutines of a fetch may request a
   hash twice, drop another, restore a list that was worked off or leave one
   behind (Server_handle.go:54-68, 92-96): with one node to fetch from they
   end in a whole chain or in a panic, never in silence.                    *)
SettledMeansSynced == \A n \in Node : ~Fetching(n) /\ n \notin interrupted => Synced(n)

SpentTwice(txs) ==
    \E tx, ty \in txs : \E a \in tx.ins, b \in ty.ins :
        a.tx = b.tx /\ a.index = b.index /\ (tx # ty \/ a.times > 1)

(* Coinbase outputs are the only source of money: what a chain leaves unspent
   is one reward per block, unless some output was spent twice.            *)
ConservedUnlessSpentTwice ==
    \A n \in Node : Complete(tip[n], stored[n]) =>
        LET blocks == TxsOf(Walk(tip[n]))
        IN  SpentTwice(Txs(blocks)) \/ Total(FindUTXOMap(blocks)) = Reward * Len(blocks)

(* There are two ways for an output to be spent twice: by transfers packed
   into one block, which FindSpendableUTXOs serves from a table that does not
   know about the block (UTXO_Set.go:148-202), or by a block mined on a table
   that a kill or a fetch cut short left stale.  Otherwise the table, reset by
   every MineNewBlock and every fetch, keeps out what was spent.            *)
DoubleSpendsExplained ==
    \A h \in DOMAIN mined :
        SpentTwice(ChainTxs(h))
            => \E k \in ToSet(Walk(h)) : k \in misled \/ SpentTwice(ToSet(mined[k].txs))

(* A node whose version is on its way to the main node gets the whole chain
   of the main node, or a higher one, unless one of the two servers goes down
   or a fetch was cut short on it before: its tip may then be as high as the
   main node's already, and it does not ask for the blocks below.  (Later
   growth of the main node is not announced: versions are sent at start only,
   Server.go:32-35.)                                                        *)
CatchesUp ==
    \A n \in Node \ {Main} :
        (\E m \in BagToSet(net) : m.kind = "version" /\ m.from = n) ~>
            \/ /\ GetBestHeight(tip[n]) >= GetBestHeight(tip[Main])
               /\ Complete(tip[n], stored[n])
            \/ n \in interrupted \/ ~up[n] \/ ~up[Main]
=============================================================================
