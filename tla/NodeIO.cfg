SPECIFICATION FairIOSpec
CONSTANTS MaxQueueSizes = {2,3}
BatchSize = 2
N = 4
Id = 1
TxCap = 1
BatchCap = 1
MaxTxs = 4
NoBatch = NoBatch
Peer = {p1, p2}
MsgCap = 1 ConnCap = 1 WireCap = 1
MaxMsgs = 4 MaxFailures = 1
Idle = Idle
MaxEmpty = 2
RecvCap = 1
INVARIANTS NothingDropped OneBatchWhenTight Contiguous SilentPeerStopsAll
PROPERTIES StreamSpec TransactionsReachPeers JamIsFinal
CHECK_DEADLOCK FALSE
