# Learn_DumboNG in TLA+

Formal model of `Learn_DumboNG`: a step-by-step Go course that ends in
`014-DumboNG`, a Dumbo-NG node (parallel block chains certified by quorums,
ordered by repeated speculative multi-valued Byzantine agreement, sMVBA). Most
modules model that last stage; two more model the binary agreement of stage
`011-ACS` and the chain, ledger and synchronisation of stage `010-network`. File
names without a stage are those of `014-DumboNG`: `config.go` and
`transmitor.go` are in its `core/`, `network.go` in `network/`, `pool.go` in
`pool/`, `node.go` in `node/`, all others in `core/smvba/consensus/`.

    Committee    thresholds, live and silent nodes             CommitteeProofs
    CertifiedLog what the data plane and its epochs promise
    DataPlane    chains, certificates, epochs and commits      MCDataPlane  DataPlaneProofs
    SPB          one broadcast instance, all its goroutines    MCSPB        SPBProofs
    Rounds       one SMVBA epoch, from proposal to Halt        MCRounds     RoundsProofs
    BatchStream  what a transaction pool promises
    TxQueue      the pool: ring, channels, queue goroutine                  TxQueueProofs
    Transport    from Transmitor.Send to a peer's message loop
    NodeIO       pool, proposer and transport of one node                   NodeIOProofs
    BBA          011: binary agreement                         MCBBA        BBAProofs
    Ledger       010: transactions and unspent outputs
    ChainSync    010: mining, servers, block fetching          MCChain      ChainSyncProofs

`NodeIO` composes `TxQueue` and `Transport`; `TxQueue` implements `BatchStream` and
`DataPlane` implements `CertifiedLog`; `ChainSync` is built on `Ledger`; `DataPlane`, `SPB` and `Rounds` share
`Committee`.

## 1. Inventory

| Part | State it keeps | Operations | What is hard | What makes it correct |
|---|---|---|---|---|
| Committee (`config.go`) | `Authorities` | `HightThreshold`, `LowThreshold` | small committees, n not 3f+1 | two high quorums share an honest node |
| Data plane (`core.go:222-282`) | `Height`, `CurrentCert`, `BlockHashMap`, votes per block | broadcast a block, vote for it, certify it by sending the next one | the own first block races the consumer loop; lost messages; slow nodes | a certificate names blocks a quorum stores, and never regresses |
| Control-plane glue (`core.go:286-363, 602-673`) | `smvbaflag`, `Epoch`, `HaltFlags`, `OrderedCert` | start SMVBA, halt, commit a frontier, commit a late one | epochs end before data or SMVBA blocks arrive | every chain is committed in order, nothing uncertified, nothing skipped |
| SPB (`spb.go`) | `BlockHash`, `LockFlag`, voters per phase, stashes | two-phase proposal and votes | one goroutine per message: check-then-store, lost wake-ups | a Finish implies a quorum locked the value |
| SMVBA rounds (`core.go:393-600`, `aggreator.go`, `elector.go`) | finish, done, prevote, finvote, halt counters; leaders | elect a leader after 2f+1 finishes, agree on its value or go on | late votes, counters that fire twice, adopted values | all nodes halt an epoch with one value |
| Commit pipeline (`commitor.go`, `core.go:322`) | `commitCh` | hand blocks to the node | Go map order; nil blocks | the same order on every node |
| Transmitor / network (`transmitor.go`, `network.go`) | channels of capacity 1000, one TCP connection per peer | `Send`, `RecvChannel` | head-of-line blocking, a consumer that pushes into its own channel, losses | a peer gets a contiguous run of the messages |
| Transaction pool (`pool.go`) | ring buffer `wind/rind/nums`, batch channel | `run`, `make`, `get` | full / empty test, batch size near capacity | batches hold each transaction once, in order |
| Store, crypto, config, logger, control API | | | I/O | external |
| 013-sMVBA simulator | proposals, locked values | `Run`, `Leader` | faulty leaders in a row | decides one proposal |
| 012-Certificate simulator | blocks, collectors, `CurrentCert` | `Propose`, `HandleBlock`, `HandleVote`, `HandleCertificate` | duplicated votes, equivocation | one certificate per height |
| 011-ACS | RBC, BBA, ACS instances, runtime | broadcast, binary agreement, common subset | overwritten votes, delayed messages, re-entrant handlers | agreement, termination of each instance |
| 010/009 chain | block database, tip, UTXO table | sync, mine, update the UTXO set | tip-first download, incremental update | the table equals the recomputed one |
| 001-008 | earlier copies of 009/010 | | | |

Interaction in 014: a node is one consumer loop (`Core.Run`) that takes messages
from `recvCh`, plus short-lived goroutines (the first block, one per SPB
message), the committor, and the network goroutines. Handlers send by
`Transimtor.Send` to the other nodes and push the same message into their own
`recvCh`. A chain grows on its own (data plane); when 2f+1 chains have certified
blocks that are not ordered yet the node proposes its frontier to SMVBA (control
plane), whose decision is turned into commits.

## 2. Modules and how they correspond to the code

**Committee.** `Node` stands for `Committee.Authorities`; `HightThreshold` and
`LowThreshold` are `config.go:79-89`, for every size (the code rounds `(n-1)/3`
down). `Silent` are the nodes whose `Core.Run` returns at once because
`Name < Parameters.Faults` (`core.go:675-679`): they never read their channel and
send nothing. `HighFlag` is what the aggregators do with a counter: the low
threshold is tested first, so with one to three nodes the high flag never shows.

**DataPlane.** State of `Core` per node (`Height`, `CurrentCert`, `BlockHashMap`,
`OrderedCert`, `Epoch`, `smvbaflag`, `HaltFlags`), the votes its aggregator
counted, one queue per ordered pair of nodes (one TCP connection), the set of
votes in flight, and SMVBA as a service (`smvbaBlocks`, `decision`). One action
per handler:

| Action | Code |
|---|---|
| `BroadcastFirst`, `LoopbackFirst` | the goroutine of `Core.Run` that calls `PbBroadcastBlock` for block 1; its push into the own channel comes later, and races the consumer loop |
| `HandleBlockMessage` | store, set `CurrentCert` to height - 1, vote, `TrytoStartMVBA` |
| `HandleVoteForBlock` = `DropVote`, `CountVote`, `CertifyBlock` | `handleVoteForBlock` with `AddBlockVote`; the 2f+1st vote broadcasts the next block |
| `LoseBlock`, `LoseVote` | a failed dial or write, never repeated (`network.go:29-74`) |
| `Decide`, `ProposeAgain` | what `Rounds` does to an epoch: one of the proposed frontiers is output, a second one only if some node proposed twice |
| `HandleHalt`, `HandleHaltMissing` | `handleHalt` with and without the decided block in the store; commit, next epoch, `TrytoStartMVBA` |
| `HandleLateProposal` | the commit in `handleSpbProposal` of an epoch that is over |

Every action contains the whole handler: `HandleHalt` commits, advances
`OrderedCert`, resets the flag and starts SMVBA in one step, because the code
does it in one turn of the consumer loop. The exception is a broadcast the code
makes outside of that loop (`LoopbackFirst`).

**CertifiedLog.** What a reader of the commits may rely on, without votes,
certificates, frontiers or epochs: nodes store blocks, and a node moves along all
chains at once, only over heights that a quorum stores, committing of them what it
stores itself. `DataPlane.Log` is the mapping (`BlockHashMap`, `OrderedCert` and
`committed`), `LogSteps` the claim that every step is one of it or changes none of
the three. That a block the node does not store is skipped for good is part of the
abstract commit: the code promises no more (finding 1).

**SPB.** The instances all nodes keep for one (epoch, round, proposer). Every
message is handled by a goroutine of its own, so the state of a message is how
far its goroutine got (`at[m]`): load `BlockHash`, store it, empty the stash, or
find nil and append to the stash, each a step others may come between. Loads and
stores of the atomics, and the critical sections of the mutexes, are the atomic
steps.

**Rounds.** One epoch: who proposed what in which round (`props`), the leader's
SPB instance by what `SPB` shows of it (`arrived`, `blockHash`, `locked`,
`finish`), the coin (`elected`, `leader`), and the prevotes, FinVotes and Halts.
A vote that was sent may be read by any node at any later time, which covers all
orders of delivery; only FinVotes keep what each node has heard, because
`FinVoteAggreator` acts on the order. The four outcomes of `FinVoteAggreator.Append`
are the four actions `FinVoteCommit`, `FinVoteNo`, `FinVoteYes`, `FinVoteNone`,
with the quirk that `noNums == th` holds again for a later vote. The store may
have or miss a block (`MayFind`, `MayMiss`) according to which messages carried it.
A late proposal is committed when the elector knows the leader of its round: 2f+1
shares set it whether the node was ready for the round or not, so `output` keeps the
rounds whose coin was out when the node ended the epoch.

How they fit together: `SPB.FinishLocked` is what `Rounds.SendFinish` assumes
(the leader finishes only when a quorum is locked), and `Rounds.Agreement`, with
its exceptions, is the `Decide` of `DataPlane` (`ProposedAgain` is the negation of
the hypothesis under which Agreement is proved). `DataPlane` abstracts
`Transport` to queues that may lose messages, and blocks to author and height;
`NodeIO` looks at what is inside the blocks and at the channels.

**BatchStream, TxQueue.** The promise of a pool: transactions leave in the order
they were accepted, cut into batches numbered `Id + N*k`. The pool has a channel
of transactions, a ring with its `wind`, `rind`, `nums`, and a channel of
batches. `Submit` is a client of `node.go` (or the built-in maker); `Drop`,
`Store`, `Make` are the turn of `txQueue.run` for one transaction, `Push` its
blocking send of the batch, `GetBatch` the non-blocking receive.
The test for a full ring is the code's, `wind == rind` with `rind` the element
read last: it never holds at the start and holds one short of a batch in a ring
as large as a batch.

**Transport.** `Send` puts a message into the chain of channels (`msgCh` of
`Transmitor` and `Sender`, modelled as one queue); `NextMessage`, `Enqueue`,
`Connect`, `DialFails` are the loop of the one `Sender.Run` over the addressees;
`Write` and `WriteFails` the goroutine of a connection; `Consume` the peer. The
receiving side (TCP buffers, `Receiver.msg`, `recvCh`) is one bounded queue per
peer. A connection that failed stays in the map of connections, so later
messages are still enqueued and lost; nobody dials again. Peers that read are
chosen once: the others return from `Core.Run` at once and leave their sockets
open.

**NodeIO.** `Publish` is what `PbBroadcastBlock` does: `GetBatch`, then `Send` to
all peers, in one go; with no batch ready the block is empty. The first block has
a goroutine of its own (`ProposeFirst`). The others are proposed by `Core.Run` when
it handles the vote that completes a quorum (`ProposeNext`), and then pushed into
the `recvCh` that `Core.Run` drains (`Loopback`). What else is pushed there
(`Receive`) or handled (`Handle`) is counted, not told apart: which message is that
vote is the matter of `DataPlane`. `carried` records how many batches the blocks
carry.

**BBA** (`011-ACS/core/acs/ACS_BBA.go`). One record per validator with the
fields of the Go object. Handlers call themselves in the code (own messages are
handled at once, a new epoch replays the messages delayed for it); here the calls
still to be made are a stack, `calls`, and a step makes the topmost one:
`InputValue` and `HandleMessage` begin with a call, `Continue` makes the next, and
what the handler sends goes out when the stack is empty, as `processAgreement`
collects the messages only then. The order of the code is kept: `recvBinaryValue`
is overwritten per sender, `binaryValues` is a list that may hold a value twice,
`EnterEpoch` sends the BVAL of the new estimate without counting it, a message
that is delayed while the list of delayed messages is replayed is cleared with it.
The network is a bag of messages delivered in any order; it keeps none that its
receiver would ignore. `foreign` and `doubled` are histories: the epochs a node
left with an AUX whose value it did not have, and with one value listed twice.

**Ledger** (`010-network/core`, `store/UTXO_Set.go`). Transactions with inputs,
outputs and change, `FindUTXOMap` over a chain, the incremental `Update` of the
table input by input, and the selection of outputs for a transfer, with the
transactions of the block being packed first and then the table, whose order is
that of hashes and therefore any (`Orders`). An output that the code lists several times in
one transaction keeps that count (`times`).

**ChainSync** (`010-network/network`, `store/Blockchain.go`). Nodes with a
database (`stored`, `tip`, `table`) and a server that is up or down. The command
line (`MineNewBlock`, `ResetUTXO`) needs the database for itself, so the server
is down meanwhile. A process may be killed between the transaction that stores
the block and moves the tip and the one that resets the table (`Killed`, in
`MineNewBlock` and `HandleBlock`): `unreset` are the nodes this left with a stale
table, `interrupted` those that went down amid a fetch, both until their next
reset, and `misled` the blocks mined on the table of such a node. `Start`, `Stop`,
and the handlers of `version`, `getblocks`, `inv`, `getdata` and `block`. A message
to a node that is down makes the sender panic (`Reply`), a walk over a missing
block too (`Down`); the database stays, `transactionArray` and what was on its way
are lost.

`StartServer` gives every message a goroutine (`Server.go:44`), and those of one node
share `transactionArray` without a lock. A goroutine amid a handler is an element
of `net` (`Amid`), and each of its accesses to the list is a step of its own:

| Steps | Code |
|---|---|
| `HandleInv`, `Assign` | `handleInv`: the first hash is requested, and only then the list assigned (`Server_handle.go:92-96`) |
| `HandleBlock`, `FirstTest`, `SecondTest` | `handleBlock`: the block is stored, the length is read, and read again; either may reset the table (`:54-68`) |
| `RequestNext`, `Pop`, `Assign` | its request of `transactionArray[0]`, which panics when another goroutine emptied the list, and the read and the write of `transactionArray[1:]` (`:62-63`) |

So a reply may be handled before its request is off the list, a hash may be
requested twice and another one dropped, a list that was worked off may be
restored, a list may be left behind with nothing under way, and a reset may meet a
gap; TLC reaches each of these. Atomic are: a transaction of the database
(`AddBlock`, `ResetUTXOSet`), as bolt runs one writer at a time; the handlers of
`version`, `getblocks` and `getdata`, which share nothing but the database (the
height that `handleVersion` compares and the one that `sendVersion` sends are read as
one); and one read or write of the list header (a torn header is not modelled).

## 3. Runs

Twelve runs. Those of the consensus have four nodes (f = 1), the smallest
committee in which a quorum is not everybody and the two thresholds differ.

| Run | Question | Result |
|---|---|---|
| `dataplane_epochs` | how a chain grows between late blocks, late votes and a loss; two epochs with a slow node and fresh frontiers | `TypeOK`; certificates name what a quorum stores (`CertSound`) and do not go back, but for the own chain once (`CertNeverRegresses`); no chain and no SMVBA waits for what nobody sends (`NoChainStuck`, `SMVBANeverIdle`); `CommittedCertified`, `CommitInChainOrder`; the data plane implements `CertifiedLog` (`LogSteps`) |
| `dataplane_slow_node` | are all blocks of an ordered prefix committed, on a node that only one link is late to? | **no**: `NoBlockSkipped` violated |
| `spb_one_value` | all goroutine interleavings, 4 live nodes, one proposal or a slow node that gets a second one first | locks follow a quorum (`LockAfterQuorum`) and have a block (`LockHasBlock`), the Finish of a single proposal has a locked quorum (`FinishLockedOnce`), only a stranded message prevents it (`FinishOrStranded`) |
| `rounds_two` | a whole epoch of two rounds, 3 of 4 live, any leader | `TypeOK` (no zero hash is ever proposed), every elected round ends (`RoundEnds`) |
| `rounds_votes` | after every way four nodes may have voted in round 0; from a block locked in round 0 to its decision in round 1; and a round 1 that decides while a proposal of round 0 is under way | `DecisionExcludesNo`, `DecisionAdopted`, `AgreementUnlessForgotten` |
| `rounds_split` | does a round end when all four nodes live? | **no**: `RoundEnds` violated |
| `rounds_agreement` | one output per epoch? | **no**: `Agreement` violated |
| `rounds_commits` | are only decided blocks committed? | **no**: `CommitsDecided` violated |
| `node_io` | from a client to two peers, with silent peers, full channels and failing connections | the pool implements `BatchStream` (`StreamSpec`); a ring larger than a batch drops nothing (`NothingDropped`), one as large as a batch works once (`OneBatchWhenTight`); peers get contiguous runs (`Contiguous`); one silent peer stops all (`SilentPeerStopsAll`); with reading peers every batch arrives unless the node jams on its full `recvCh` (`TransactionsReachPeers`), which is for ever (`JamIsFinal`) |
| `bba_epochs` | do validators agree, and on an input? | decisions are inputs unless a value was listed twice (`DecisionWasInput`); they differ only after a node left an epoch with such a list or an AUX whose value it did not have (`AgreementUnlessMiscounted`) |
| `bba_crash` | do three of four validators decide what becomes of the crashed one's proposal? | **no**: `CrashedAreLeftOut` violated |
| `chain_two_nodes` | mining, synchronising with interleaved goroutines, stopping servers and killing processes amid a change | once a fetch is over, the table is what the whole chain leaves unspent, kills before a reset excepted (`SettledMeansSynced`); money is conserved unless an output is spent twice (`ConservedUnlessSpentTwice`), which takes one block or a table that a kill or a fetch cut short left stale (`DoubleSpendsExplained`); who asks catches up (`CatchesUp`) |

`RoundEnds` holds with f silent nodes and fails with none: with three live nodes a
round is elected only if the leader finished (all send Halt) or is silent (all
prevote NO), while four live nodes can elect a leader who finishes afterwards.

Deadlock is not checked: with bounded heights, epochs, rounds, messages and
blocks a run ends in a state with nothing left to do; the liveness properties say
where it must get.

### Bounds and start states

- `MaxHeight` 2 or 3, `MaxEpoch` 1 or 2, `MaxRound` 0 or 1, `MaxLosses` 0 or 1,
  `MaxProposals` 4 (frontiers per epoch, one more than the nodes that took part in the first):
  enough for a certificate to be replaced, an epoch to follow another one, a
  decision to be carried over to a round and to be forgotten. The invariants
  themselves are proved without bounds (section 5).
- A whole epoch of four live nodes, two whole epochs, or four chains that grow at
  once, are out of TLC's reach. Such runs start further on, from reachable states
  an MC module describes. All messages of one node to another share a connection
  (`network.go:29-74`), so in none of these states has a node acted on a message
  while an earlier one of the same sender is still under way. `MCDataPlane`:
  `OneChain` (the first block of one chain is still to be broadcast and may lose
  the race with the votes of the others; two blocks of another chain follow each
  other on one link, and one may be lost), `FirstEpochDecided` (SMVBA decided what
  three nodes proposed; one of them has one block of each to receive, the fourth
  has not begun), `SlowNode` (both blocks and all messages of one node are late at
  another one, and a quorum without it decides). `MCSPB`: `SecondProposal` (a
  second proposal of the round, which one slow node may get first). `MCRounds`:
  `QuickSpec` (f+1 nodes prevoted NO and then the leader finished), `Voted` (every
  combination of prevotes and the FinVotes they allow), `Late` (round 0 ended with
  NO, round 1 was locked by all; everything the first leader sent to one node is
  late), `Adopted` (one node was locked in round 0, the others read a mixed quorum,
  and the leader of round 1 misses the block: still to advance, or with a fresh
  frontier proposed). `rounds_votes` starts from `Voted`, `Late` and `Adopted`.
- Action constraints cut what such a run is not about. `dataplane_epochs`:
  `NothingDecided` from `OneChain` (no epoch ends, and the votes the bound
  `MaxHeight` leaves over are not lost), `FirstEpochOver` from
  `FirstEpochDecided` (the fourth node goes on resting, no new frontier is proposed
  for the epoch that is over, a loss comes before its end, and a run with a loss
  has no fresh frontiers; one without proposes the first fresh frontier of the
  second epoch when every block has arrived). Rounds: `FewOutputs` (how many nodes
  may end the epoch), `FirstRoundOnly` (proposals of round 1 are made and left
  alone, from `Voted`), `HaltsOnly` (from `Adopted`: round 1 ends with Halts alone,
  its SPB going on stage by stage), `SpbOver` (no node locks any more);
  `EitherBound` says which apply, according to where the run started. `FirstOnly`
  (no second proposal but the one of `SecondProposal`). They only
  remove behaviours; the runs not named here have none.
- `node_io`: rings of 2 and 3 with batches of 2, so one ring is tight and one
  wraps at every position; 4 transactions make two batches, channels of one
  message fill at once, `recvCh` (`RecvCap` 1) too, 4 messages and two peers let
  one peer fall behind the other by more than the channels hold; 2 empty blocks;
  one peer may lose messages. With 5 messages and 3 empty blocks the 924,158
  states satisfy the same properties. All of it is also proved without these numbers, liveness excepted.
- `bba_epochs`: three validators (F = 0) for two epochs, two for four epochs, long
  enough for a node that decided TRUE to be done, and three of four (F = 1) with
  the fourth crashed for two: the committee sizes of the stage's known nodes.
  A validator that has begun to handle something finishes before another one
  begins (`OneAtATime`, an action constraint: nobody sees what it does meanwhile;
  the proofs do without it). Four live validators with F = 1 are out of TLC's
  reach, and are covered by the proofs.
- `bba_crash`: the third of these settings alone, with fairness. The bound of two
  epochs plays no part: nobody leaves epoch 1, which `CrashesStopTheAgreement`
  proves for every committee.
- `chain_two_nodes`: genesis and two more blocks, two stops or kills, transfers that need one
  coin, several coins, and two in one block that compete for a coin. With three
  blocks a fetch has a first, a middle and a last one, and a block can be mined on
  the table that a kill left stale. At most four messages and goroutines are under
  way at once (`MCUnderWay`; three once both stops are used, two when a block has
  two transfers): enough for two replies to one node amid a request, for a reply
  handled before the list is assigned or popped, and for two fetches of one node to
  share a list, be it emptied, restored or left behind. States beyond are not
  explored, so `CatchesUp` is checked of the behaviours within the bound. The
  invariants are proved without these numbers.
- Symmetry is used in runs of invariants and action properties only.

### Fairness

`DataPlane` needs none: that chains grow and SMVBA starts is stated as invariants
(`NoChainStuck`, `SMVBANeverIdle`: there is always a message to wait for, and no
wake-up is lost). `SPB.Fairness`: while some goroutine can
run, one does (`WF` of all steps together; each goroutine ends after a few); `Rounds.Fairness`: each handler runs when
its votes have arrived. All weak, because Go's scheduler is fair to runnable
goroutines and an enabled handler stays enabled until its message is taken. The coin
and the leader's SPB are not assumed to act. `BBA.Fairness`: a handler that has begun
goes on, and messages under way are handled. `NodeIO.FairIOSpec`: the queue goroutine, the sender, each
connection and each reading peer go on (`WF` of `Run`, `Distribute`, `WriteOut(p)`,
`Consume(p)`), messages keep arriving (`WF(Receive)`), the push waits only while
the channel is full (`WF(Loopback)`), and among what `Core.Run` takes there is
again and again a vote that lets it propose (`SF(ProposeNext)`, which is what
`NoChainStuck` shows; strong, because other messages are handled in between); dials and writes may fail for ever, and then only the
affected peers are excused. `ChainSync`: some message that arrived is handled, or
some goroutine amid a handler goes on (`WF(Handle)`: each goroutine ends after a few steps); nobody is forced to mine, start or stop.

## 4. What the code does otherwise than it says

1. `core.go:330`: a block that has not arrived when its height is ordered is
   skipped for good (`dataplane_slow_node`), though the code means to "ensure all
   block is received" (`core.go:350`).
2. `core.go:498`: a node sends Halt instead of its prevote; a round can split
   between Halts and NO prevotes with no quorum on either side (`rounds_split`;
   `src/013-sMVBA/README.md:30`).
3. `core.go:589`: a node without the adopted block proposes a fresh frontier,
   which may be decided next to the block others halted on (`rounds_agreement`;
   `src/013-sMVBA/README.md:5`).
4. `core.go:353`: a late proposal of the leader of an undecided round is
   committed (`rounds_commits`; `src/014-DumboNG/README.md:256`).
5. `ACS_BBA.go:324`: a validator does not count its own BVAL after epoch 0, so with
   one of four offline nobody leaves epoch 1 (`bba_crash`), though four are meant to
   bear one faulty (`src/011-ACS/network/Server_var.go:4`, `ACS.go:10`).

`AgreementUnlessForgotten` says that 3 is the only way in which agreement fails.

Other limits of the code are stated as properties that hold, each naming the one
way in which a stronger promise fails:

- `FinishOrStranded`: a vote or phase-two message stashed between the load of
  `BlockHash` and the drain is stranded, and nothing else keeps an SPB instance
  from finishing (`spb.go:102`).
- `FinishLockedOnce`: phase-two votes carry no hash, so a Finish is known to have
  a locked quorum only while its author made one proposal in the round
  (`spb.go:154`).
- `OneBatchWhenTight`: a ring exactly as large as a batch works once (`pool.go:44`).
- `SilentPeerStopsAll`: one `Sender` goroutine serves all peers and waits for a
  full one (`network.go:33`); a silent validator, which the code's own `Faults`
  parameter makes, in the end stops a node that goes on sending.
- `AgreementUnlessMiscounted`: an AUX counts whatever its value (`ACS_BBA.go:291`).
- `DecisionWasInput`: a value whose count reaches 2F+1 twice is listed twice, the
  list then has two elements and the coin is taken for the estimate
  (`ACS_BBA.go:254`, `ACS_BBA.go:312`). Four live validators with F = 1 that were
  all given FALSE can come to decide TRUE in this way; the property therefore
  excepts runs in which a node left an epoch with such a list.
- `SettledMeansSynced`: blocks are fetched tip first; after a stop or a panic amid a
  fetch the tip is high and the blocks below are never asked for. The races on the
  list of hashes (`Server_handle.go:54-68, 92-96`) are among what causes such a panic.
  This is for one node to fetch from. With three nodes, two peers may send an inv to
  the same node, the second list replaces the first, and by reading the code a fetch
  may end with the blocks of neither chain; the runs and the theorem have two nodes.
- `DoubleSpendsExplained`: transfers packed into one block do not see what the
  others take from the table (`UTXO_Set.go:148`), and after a kill between tip and
  reset (`Blockchain.go:458-472`), or a stop amid a fetch, the next block may spend what the last one spent:
  `VerifyTransaction` checks signatures, not whether an output is unspent.
- `JamIsFinal`: `Core.Run` pushes its own messages into the channel it alone drains
  (`core.go:232`, `core.go:300` and every other handler that sends to all); found
  full, `recvCh` stops the node, which its peers then see as a silent one.
- `CatchesUp` promises nothing of later blocks: versions are sent at start only
  (`Server.go:32-35`).

## 5. Proofs

All theorems hold for every committee and every bound; the assumptions are the
named `ASSUME`s (a finite non-empty committee; bounds are naturals; the proposer
is live; the markers `None`, `No`, `Skip` differ from one another and from
blocks; capacities, of `recvCh` too, and ring sizes are positive; the main node is
a node, transfers are finite lists of integer amounts, and the reward is an
integer; in `BBA` the validators are finitely many and `None` is no bool). What is narrower is
assumed by the theorem itself: `TwoNodes` (one peer to fetch from), `RingsHoldABatch`,
and thresholds that differ and a live quorum in `ChainsNeverStuck`. Where quorums must intersect the theorem says so: `FullCommittee`, the
size is 3f+1. For other sizes `2*((n-1)/3)+1` is too small for it.

| Theorem | Argument |
|---|---|
| `CommitteeProofs!QuorumsIntersect` | inclusion and exclusion on cardinalities |
| `DataPlaneProofs!TypeCorrect` | one step per action |
| `CertificatesAreSound`, `CommitsAreCertified` | `Inv`: a vote in flight or counted comes from a holder; a chain of height h has quorums below h; nothing at or above that height is certified anywhere; every proposed and decided frontier lies below it. `CertSound` alone is not inductive: receiving block h+1 certifies h only because the proposer moved past h |
| `CertificatesOnlyGrow` | for the chain of another node: the blocks in a link are of increasing height, and the first is above what the receiver certified of that chain: a loss removes one, and no block is queued twice. `CurrentCert` is then only set to the height below a block that is later than the one before. For the own chain the order may fail once, in the step that handles the own block 1, which is pushed by another goroutine; no block is stored twice |
| `CommitsExtendChains` | what a node committed of a chain lies at or below its `OrderedCert`, and `Advanced` takes the larger of that and the frontier, so a late frontier of an old epoch only adds blocks above it |
| `DataPlaneImplementsLog` | step by step: receiving a block is `Store`, the three handlers that commit are `Commit`, all others are stutters. The guard of `Commit`, that a quorum stores all heights passed, is `Inv` for decided frontiers |
| `NoLostWakeUp` | every action that raises a certificate, or clears `smvbaflag`, tries to start SMVBA in the same step; commits only lower the number of chains that are ahead |
| `ChainsNeverStuck` | each live node has handled the tip and its vote is counted or on its way, or the tip is on its way to it (`VotesAccounted`); were all votes counted, a live quorum would have certified the tip, and a counted set stays below the threshold (`BelowQuorum`). The low threshold must differ from the high one, or no flag is ever raised |
| `SmallCommitteesStall` | with equal thresholds `HighFlag` is false for every count, so `CertifyBlock` never fires, all certificates stay 0 and nothing is proposed |
| `SPBProofs!LocksHaveBlocks`, `LocksFollowQuorum`, `FinishImpliesLockedQuorum` | `Inv`: who voted in phase one stores a block, phase two starts after a quorum of phase one, who voted in phase two is locked, `Finish` needs a quorum of those. For one proposal per round all hashes are equal, so the locks are on the hash of the Finish |
| `RoundsProofs!TypeCorrect`, `InvariantHolds` | `IInv`: YES votes name blocks of the leader; a Halt comes with a skipped prevote or a quorum of YES FinVotes, a NO FinVote with a quorum of NO prevotes; what is proposed in a round was kept, adopted from a YES vote or fresh; an output has its Halt quorum |
| `DecisionsExcludeNo` | a Halt quorum meets the NO FinVotes or the NO prevotes in a node that voted once |
| `DecisionsAreAdopted` | after a decision every FinVote quorum contains a YES, and all YES votes are for the block of the leader, who proposed once |
| `NodesAgreeUnlessForgotten` | rounds after a decided one only see its block, by minimality of the first round in which they do not |
| `TxQueueProofs!BatchIdsUnique` | by the invariant of the pool, batch j handed out is number j - 1 of the stream (`IdsOK`); `Id + N*k` is division with remainder by N |
| `PoolImplementsStream`, `NeverDrops` | for every ring that holds a batch. `IInv`: `wind` is `nums + 1` places after `rind` modulo the ring, the accepted stream is `Made` batches and `nums` transactions, the `nums` elements after `rind` are its last ones, and the batches pushed or being pushed are consecutive pieces of it. The ring never overwrites what is unread, as `nums < BatchSize` at every turn; each step is then a step of `BatchStream` or a stutter. With a larger ring `Full` is false, so `Drop` never happens |
| `TightRingGivesOneBatch` | with `maxQueueSize = BatchSize` the first batch leaves `rind` at the last place, and `BatchSize - 1` more transactions bring `wind` onto it: `Make` needs `~Full` |
| `NodeIOProofs!PeersGetARun`, `SilentPeersStopTheNode` | `NetInv`: for each peer there is a first message f such that what it took, what is on the wire, in its channel and what the sender still has for it are consecutive from f, up to the number sent; after a failure the run is cut and never extended. For a silent connected peer nothing leaves the wire, so the sender is at most `ConnCap + WireCap + 1` messages past f, and no other peer is further |
| `JammedNodesStayJammed` | only `Core.Run` takes messages out, and it pushes a block back only after the first block was sent (`LoopsLater`), so no proposer is left |
| `NodeImplementsStream`, `NodeDropsNothing`, `TightNodeProposesOneBatch` | a step of the node is a step of the pool or leaves it alone (`NodeKeepsThePool`), so what holds of the pool holds in the node |
| `ChainSyncProofs!InvariantHolds`, `SettledNodesAreSynced` | `IInv`: the parent of a block has a smaller hash, and what its transactions spend was made by older ones or in the same block; what a message or a goroutine amid a handler names is stored by its sender. With two nodes (`FetchOK`) all that is ever on a list is stored by the other one, so every request is answered; and a node that is up and not cut short is in sync or has a message or a goroutine that keeps its fetch going: one that ends finds the list empty and resets the table, which walks the whole chain, so a gap ends in a panic, and the node is then among the cut short. `SettledMeansSynced` alone is not inductive: it does not say that a fetch under way cannot run dry. Nothing is claimed of how many messages a fetch has under way, or of a list that is left behind |
| `DoubleSpendsAreExplained` | for two nodes: a transfer takes outputs from the table or from its own block; the table of a node that is in neither `unreset` nor `interrupted` is what its chain leaves unspent, so an input of a new block that spends an old output twice would spend one that is not in the table |
| `MoneyIsConserved` | each transfer takes what it gives, change included, each coinbase adds one reward. Where nothing is spent twice, the unspent outputs of a longer chain are those before, less what the block takes, plus what it makes; sums over finite sets are reasoned about by induction on the set |
| `BBAProofs!RecordsExist` | `IInv`: there are two records, of what each validator estimated (`est`) and sent as AUX (`aux`) in each epoch. They are no variables; the invariant says they exist. A BVAL carries somebody's estimate of its epoch, an AUX its sender's entry, `recvAux` agrees with `aux`, and what a node leaves an epoch with is known, or the coin, or the common entry of N-F validators, unless the epoch is among its `foreign` or `doubled` ones. Entries are never changed, so all this stays true of messages and of nodes in other epochs |
| `AgreementHolds` | two decisions of one epoch are its coin. Otherwise let e be the smaller of the two epochs. N-F validators have one AUX entry there, the coin of e. A node that leaves e with the other value would need N-F with that one, and two sets of N-F meet; so from e+1 on every estimate is the coin of e, and so is every AUX: the other value is never decided |
| `DecisionsAreInputs` | a decided value is somebody's AUX, hence somebody's estimate; the first epoch in which it is one is 0, where estimates are inputs, as later ones are taken from the epoch before when nothing was listed twice |
| `CrashesStopTheAgreement` | no epoch after the first ends (`CrashStopsAll`), which is why `bba_crash` cannot be repaired by waiting. A second invariant, `SInv`. A node in epoch 1 has sent its own estimate, and the other value only if F+1 nodes estimate that one; it never handles a BVAL of its own estimate from itself. Its own estimate can thus never reach 2F+1 BVALs, so it accepts only the other value, which F+1 nodes estimate. To leave the epoch it needs N-F AUX, all of the live nodes, so every live node has accepted a value it does not estimate; then both values have F+1 nodes that estimate them, which is one node too many |

Model-checked only: the liveness properties (`FinishOrStranded`,
`RoundEnds`, `TransactionsReachPeers`, `CatchesUp`), which are out of the
prover's reach. Every safety invariant and action property of the passing runs is
stated by a theorem. The findings are counterexamples of TLC.

## 6. Not modelled

- Content of transactions, signatures, threshold signatures and proof of work
  (assumed to work), errors of the store, gob and length framing, the JSON control
  API, configuration files, command-line parsing and logging. The code's timeouts
  are read nowhere in 014. Faulty nodes of 014 are those the code has: silent ones.
- 014: `recvCh` is unbounded in the consensus modules; `NodeIO` bounds it, for the
  pushes of blocks. The other handlers push up to two messages in a row
  (`invokeDoneAndShare`) in the same way. The chains of one frontier are committed in the order of a Go map,
  which differs between nodes by construction. A node that restarts begins at
  height 0 and does not read its store; nothing in the code recovers.
- 012 and 013 are sequential loops that deliver everything at once in one order;
  each has one behaviour per argument list, which its test compares. `DataPlane`
  and `Rounds` model the protocols they narrate.
- 011: RBC, ACS and the runtime around them cannot be reached. `GetProof` of
  `merkle_tree.go:86` takes `current ^ 1` as the sibling in a tree whose children
  are `2i+1` and `2i+2`, and `ACS_RBC.go:267` hashes the first element of the proof
  as the leaf, so a node refuses its own proof and `InputValue` fails before a
  message is sent. `BBA` is therefore modelled as a component, with the coin that
  `ACS.go` gives it. Threshold cryptography and the delay monitor are left out.
- 010: `addr` and `tx` have empty handlers. A kill of `createblockchain` before its
  first reset leaves no table at all, and every later command panics; `Init` starts
  after it.
- 001 to 009, and the `core/`, `store/` and `crypto/` of 011, are earlier or repeated
  copies of the code of 010 and add no behaviour of their own. They are some 8,000
  of the repository's 18,000 lines, which bounds the share the modules can cover.

## 7. Plan

Done: all modules listed above, with the proofs of section 5. Left:

1. The coin (Finish, Done, ElectShare) with its counters per node instead of the
   one action `Elect`.
2. The order of commits across chains.
3. `ChainSync` with three nodes, so that a node fetches from two peers at once;
   the proofs of it use the assumption `TwoNodes`.
