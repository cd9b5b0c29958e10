------------------------------ MODULE Transport ------------------------------
(***************************************************************************)
(* How the messages of one DumboNG node reach its peers: a chain of        *)
(* bounded channels and goroutines, Transmitor.Send -> Sender -> one       *)
(* connection per peer -> TCP -> Receiver -> the peer's message loop.      *)
(* Messages are numbered in the order Send was called.                     *)
(***************************************************************************)
EXTENDS Integers, Sequences, FiniteSets

CONSTANTS Peer,
          MsgCap, ConnCap, WireCap,   \* capacities
          MaxMsgs,                    \* bound: messages sent
          MaxFailures,                \* bound: peers that a message is lost for
          Idle                        \* the Sender waits for a message

ASSUME TransportAssumption ==
    /\ {MsgCap, ConnCap, WireCap} \subseteq Nat \ {0}
    /\ MaxMsgs \in Nat /\ MaxFailures \in Nat
    /\ Idle \notin [msg : Nat, left : SUBSET Peer]

VARIABLES reading,   \* the peers whose Core.Run takes messages
          log,       \* history: the addressees of the messages sent so far
          msgCh,     \* Transmitor.msgCh and Sender.msgCh
          cur,       \* what Sender.Run is distributing: [msg, left]
          link,      \* per peer: "none", "up" or "broken"
          conn,      \* per peer: the channel of its connection
          wire,      \* per peer: TCP, Receiver.msg and Transmitor.recvCh
          got,       \* per peer: what its message loop took, in order
          missed     \* history: peers that a message was lost for

netVars == <<reading, log, msgCh, cur, link, conn, wire, got, missed>>

NetInit ==
    /\ reading \in SUBSET Peer
    /\ log = <<>> /\ msgCh = <<>> /\ cur = Idle
    /\ link = [p \in Peer |-> "none"]
    /\ conn = [p \in Peer |-> <<>>] /\ wire = conn /\ got = conn
    /\ missed = {}

(***************************************************************************)
(* Transmitor.Send to the peers of to; the caller waits while the channel  *)
(* is full.                                                                *)
(***************************************************************************)
Send(to) ==
    /\ Len(log) < MaxMsgs /\ Len(msgCh) < MsgCap
    /\ log' = Append(log, to)
    /\ msgCh' = Append(msgCh, Len(log) + 1)
    /\ UNCHANGED <<reading, cur, link, conn, wire, got, missed>>

NextMessage ==
    /\ cur = Idle /\ msgCh # <<>>
    /\ cur' = [msg |-> Head(msgCh), left |-> log[Head(msgCh)]]
    /\ msgCh' = Tail(msgCh)
    /\ UNCHANGED <<reading, log, link, conn, wire, got, missed>>

\* A message for p is lost.
Miss(p) == missed' = missed \cup {p} /\ Cardinality(missed') <= MaxFailures

\* Sender.Run is done with peer p and goes to the next address.
Served(p) ==
    /\ cur # Idle /\ p \in cur.left
    /\ cur' = IF cur.left = {p} THEN Idle ELSE [cur EXCEPT !.left = @ \ {p}]
    /\ UNCHANGED <<reading, log, msgCh, wire, got>>

Enqueue_mutantDropsWhenFull(p) ==
    /\ Served(p) /\ link[p] # "none"
    /\ conn' = IF Len(conn[p]) = ConnCap THEN conn ELSE [conn EXCEPT ![p] = Append(@, cur.msg)]
    /\ UNCHANGED <<link, missed>>

\* The Sender waits here while the peer's channel is full, connected or not.
Enqueue(p) ==
    /\ Served(p) /\ link[p] # "none" /\ Len(conn[p]) < ConnCap
    /\ conn' = [conn EXCEPT ![p] = Append(@, cur.msg)]
    /\ UNCHANGED <<link, missed>>

Connect(p) ==
    /\ Served(p) /\ link[p] = "none"
    /\ link' = [link EXCEPT ![p] = "up"]
    /\ conn' = [conn EXCEPT ![p] = <<cur.msg>>]
    /\ UNCHANGED missed

DialFails(p) ==
    /\ Served(p) /\ link[p] = "none"
    /\ Miss(p)
    /\ UNCHANGED <<link, conn>>

Write(p) ==
    /\ link[p] = "up" /\ conn[p] # <<>> /\ Len(wire[p]) < WireCap
    /\ wire' = [wire EXCEPT ![p] = Append(@, Head(conn[p]))]
    /\ conn' = [conn EXCEPT ![p] = Tail(@)]
    /\ UNCHANGED <<reading, log, msgCh, cur, link, got, missed>>

\* Forgets the broken connection, so that the next message dials again.
AfterFailure_mutantForgotten == "none"
AfterFailure == "broken"

(***************************************************************************)
(* A write fails: the message is lost, and with it any end of what the     *)
(* peer had not taken.  Nobody dials again: the later writes fail as well. *)
(***************************************************************************)
WriteFails(p) ==
    /\ link[p] # "none" /\ conn[p] # <<>>
    /\ link' = [link EXCEPT ![p] = AfterFailure]
    /\ conn' = [conn EXCEPT ![p] = Tail(@)]
    /\ \E n \in 0..Len(wire[p]) : wire' = [wire EXCEPT ![p] = SubSeq(@, 1, n)]
    /\ Miss(p)
    /\ UNCHANGED <<reading, log, msgCh, cur, got>>

\* The message loop of a peer that is not one of the Faults silent ones.
Consume(p) ==
    /\ p \in reading /\ wire[p] # <<>>
    /\ got' = [got EXCEPT ![p] = Append(@, Head(wire[p]))]
    /\ wire' = [wire EXCEPT ![p] = Tail(@)]
    /\ UNCHANGED <<reading, log, msgCh, cur, link, conn, missed>>

Distribute == NextMessage \/ \E p \in Peer : Enqueue(p) \/ Connect(p) \/ DialFails(p)
WriteOut(p) == Write(p) \/ WriteFails(p)

NetNext == Distribute \/ \E p \in Peer : WriteOut(p) \/ Consume(p)

NetFairness ==
    /\ WF_netVars(Distribute)
    /\ \A p \in Peer : WF_netVars(WriteOut(p)) /\ WF_netVars(Consume(p))

\* The messages that left for peer p and are not lost, oldest first.
Travelling(p) == got[p] \o wire[p] \o (IF link[p] = "up" THEN conn[p] ELSE <<>>)

(***************************************************************************)
(* A peer takes a contiguous run of the broadcasts: those before the first *)
(* successful dial are missing, and all from the first failed write on;    *)
(* nothing in between is lost, repeated or reordered.                      *)
(***************************************************************************)
Contiguous ==
    \A p \in Peer : LET s == Travelling(p) IN s = [i \in 1..Len(s) |-> s[1] + i - 1]

(***************************************************************************)
(* One connected peer that never reads stops the node: the single Sender   *)
(* waits for it, and no peer ever gets more than the channels hold.        *)
(***************************************************************************)
SilentPeerStopsAll ==
    \A p, q \in Peer :
        p \notin reading /\ p \notin missed /\ link[p] = "up"
            => Len(got[q]) <= ConnCap + WireCap + 1
=============================================================================
