----------------------------- MODULE NodeIOProofs -----------------------------
(***************************************************************************)
(* What a node's peers get, for all capacities of the channels, and what   *)
(* the composition keeps of the transaction pool.                          *)
(***************************************************************************)
EXTENDS NodeIO, TxQueueProofs, SequenceTheorems

\* The messages Sender.Run has taken, and those it is done with for peer p.
Dequeued == Len(log) - Len(msgCh)
Done(p) == IF cur # Idle /\ p \in cur.left THEN Dequeued - 1 ELSE Dequeued

NetTypeOK ==
    /\ log \in Seq({Peer})
    /\ msgCh \in Seq(Nat)
    /\ cur # Idle => cur \in [msg : Nat, left : SUBSET Peer]
    /\ link \in [Peer -> {"none", "up", "broken"}]
    /\ conn \in [Peer -> Seq(Nat)]
    /\ wire \in [Peer -> Seq(Nat)]
    /\ got \in [Peer -> Seq(Nat)]
    /\ missed \subseteq Peer

\* The broadcasts wait in the order of their numbers.
SenderOK ==
    /\ Len(msgCh) <= Len(log)
    /\ \A i \in 1..Len(msgCh) : msgCh[i] = Dequeued + i
    /\ cur # Idle => cur.msg = Dequeued /\ Dequeued > 0

Bounded(p) ==
    /\ Len(conn[p]) <= ConnCap
    /\ Len(wire[p]) <= WireCap
    /\ p \notin reading => got[p] = <<>>

\* Message f was the first that left for a peer, which took g; w and c are on
\* their way, and the Sender is done with message d.
Follow(g, w, c, l, d, f) ==
    /\ \A i \in 1..Len(g) : g[i] = f + i - 1
    /\ \A i \in 1..Len(w) : w[i] = f + Len(g) + i - 1
    /\ f + Len(g) + Len(w) <= d + 1
    /\ l = "none" => g = <<>> /\ w = <<>> /\ c = <<>>
    /\ l = "up" => /\ \A i \in 1..Len(c) : c[i] = f + Len(g) + Len(w) + i - 1
                   /\ f + Len(g) + Len(w) + Len(c) = d + 1

\* Nothing is lost: that message was the first of all, and the link works.
Lossless(l, d, f) == f = 1 /\ l # "broken" /\ (l = "none" => d = 0)

RunFrom(p, f) ==
    /\ Follow(got[p], wire[p], conn[p], link[p], Done(p), f)
    /\ p \notin missed => Lossless(link[p], Done(p), f)

PeerOK(p) == Bounded(p) /\ \E f \in Nat \ {0} : RunFrom(p, f)

NetInv == NetTypeOK /\ SenderOK /\ \A p \in Peer : PeerOK(p)
-----------------------------------------------------------------------------
LEMMA NetInitially == NetInit => NetInv
<1> SUFFICES ASSUME NetInit PROVE NetInv
  OBVIOUS
<1>1. NetTypeOK /\ SenderOK
  BY DEF NetInit, NetTypeOK, SenderOK, Dequeued
<1>2. ASSUME NEW p \in Peer PROVE PeerOK(p)
  <2>1. Done(p) = 0
    BY DEF NetInit, Done, Dequeued
  <2>2. conn[p] = <<>> /\ wire[p] = <<>> /\ got[p] = <<>> /\ link[p] = "none"
    BY DEF NetInit
  <2>3. Bounded(p)
    BY <2>2, TransportAssumption DEF Bounded
  <2>4. RunFrom(p, 1)
    BY <2>1, <2>2 DEF RunFrom, Follow, Lossless
  <2> QED
    BY <2>3, <2>4 DEF PeerOK
<1> QED
  BY <1>1, <1>2 DEF NetInv

\* What a step does not touch of peer p stays as it was.
LEMMA Untouched ==
    ASSUME NEW p \in Peer, PeerOK(p),
           got'[p] = got[p], wire'[p] = wire[p], conn'[p] = conn[p], link'[p] = link[p],
           reading' = reading, missed \subseteq missed', Done(p)' = Done(p)
    PROVE  PeerOK(p)'
<1>1. Bounded(p)'
  BY DEF PeerOK, Bounded
<1>2. PICK f \in Nat \ {0} : RunFrom(p, f)
  BY DEF PeerOK
<1>3. RunFrom(p, f)'
  BY <1>2 DEF RunFrom
<1> QED
  BY <1>1, <1>3 DEF PeerOK

LEMMA DoneType ==
    ASSUME NetTypeOK, SenderOK, NEW p \in Peer
    PROVE  Done(p) \in Nat /\ Dequeued \in Nat /\ Done(p) <= Dequeued
           /\ Dequeued <= Done(p) + 1
  BY DEF NetTypeOK, SenderOK, Done, Dequeued

\* A message that enters the channel changes nothing behind it.
LEMMA SendKeeps ==
    ASSUME NetInv, Send(Peer)
    PROVE  NetInv'
<1>1. /\ log \in Seq({Peer}) /\ msgCh \in Seq(Nat)
      /\ log' = Append(log, Peer) /\ msgCh' = Append(msgCh, Len(log) + 1)
      /\ UNCHANGED <<reading, cur, link, conn, wire, got, missed>>
  BY DEF NetInv, NetTypeOK, Send
<1>2. /\ Len(log') = Len(log) + 1 /\ Len(msgCh') = Len(msgCh) + 1
      /\ log' \in Seq({Peer}) /\ msgCh' \in Seq(Nat)
      /\ Len(log) \in Nat /\ Len(msgCh) \in Nat
  BY <1>1
<1>3. Dequeued' = Dequeued
  BY <1>2 DEF Dequeued
<1>4. NetTypeOK'
  BY <1>1, <1>2 DEF NetInv, NetTypeOK
<1>5. SenderOK'
  <2>1. ASSUME NEW i \in 1..Len(msgCh') PROVE msgCh'[i] = Dequeued + i
    BY <1>1, <1>2 DEF NetInv, SenderOK, Dequeued
  <2> QED
    BY <2>1, <1>1, <1>2, <1>3 DEF NetInv, SenderOK
<1>6. ASSUME NEW p \in Peer PROVE PeerOK(p)'
  <2>1. Done(p)' = Done(p)
    BY <1>1, <1>3 DEF Done
  <2> QED
    BY <2>1, <1>1, Untouched DEF NetInv
<1> QED
  BY <1>4, <1>5, <1>6 DEF NetInv

\* The Sender takes the next broadcast, for every peer.
LEMMA NextMessageKeeps ==
    ASSUME NetInv, NextMessage
    PROVE  NetInv'
<1>1. /\ log \in Seq({Peer}) /\ msgCh \in Seq(Nat) /\ msgCh # <<>> /\ cur = Idle
      /\ cur' = [msg |-> Head(msgCh), left |-> log[Head(msgCh)]]
      /\ msgCh' = Tail(msgCh)
      /\ UNCHANGED <<reading, log, link, conn, wire, got, missed>>
  BY DEF NetInv, NetTypeOK, NextMessage
<1>2. /\ Len(msgCh') = Len(msgCh) - 1 /\ Len(msgCh) \in Nat \ {0} /\ Len(log) \in Nat
      /\ msgCh' \in Seq(Nat) /\ Head(msgCh) = msgCh[1]
      /\ \A i \in 1..Len(msgCh') : msgCh'[i] = msgCh[i + 1]
  BY <1>1
<1>3. Dequeued' = Dequeued + 1 /\ Dequeued \in Nat /\ Dequeued + 1 <= Len(log)
  BY <1>1, <1>2 DEF Dequeued, NetInv, SenderOK
<1>4. Head(msgCh) = Dequeued + 1
  BY <1>2 DEF NetInv, SenderOK
<1>5. log[Head(msgCh)] = Peer
  BY <1>1, <1>3, <1>4
<1>6. cur' = [msg |-> Dequeued', left |-> Peer] /\ cur' # Idle
  BY <1>1, <1>3, <1>4, <1>5, TransportAssumption
<1>7. NetTypeOK'
  BY <1>1, <1>2, <1>3, <1>6 DEF NetInv, NetTypeOK
<1>8. SenderOK'
  <2>1. ASSUME NEW i \in 1..Len(msgCh') PROVE msgCh'[i] = Dequeued' + i
    BY <1>2, <1>3 DEF NetInv, SenderOK
  <2> QED
    BY <2>1, <1>1, <1>2, <1>3, <1>6 DEF NetInv, SenderOK
<1>9. ASSUME NEW p \in Peer PROVE PeerOK(p)'
  <2>1. Done(p)' = Done(p)
    BY <1>1, <1>3, <1>6 DEF Done
  <2> QED
    BY <2>1, <1>1, Untouched DEF NetInv
<1> QED
  BY <1>7, <1>8, <1>9 DEF NetInv

\* Once the Sender is done with peer p, the others stand where they stood.
LEMMA ServedDone ==
    ASSUME NetInv, NEW p \in Peer, Served(p)
    PROVE  /\ Done(p)' = Done(p) + 1 /\ Done(p)' = cur.msg
           /\ \A q \in Peer \ {p} : Done(q)' = Done(q)
           /\ SenderOK'
           /\ cur' # Idle => cur' \in [msg : Nat, left : SUBSET Peer]
<1>1. /\ cur # Idle /\ p \in cur.left /\ cur \in [msg : Nat, left : SUBSET Peer]
      /\ cur.msg = Dequeued /\ Dequeued > 0
      /\ cur' = IF cur.left = {p} THEN Idle ELSE [cur EXCEPT !.left = @ \ {p}]
      /\ UNCHANGED <<log, msgCh>>
  BY DEF NetInv, NetTypeOK, SenderOK, Served
<1>2. Dequeued' = Dequeued /\ Dequeued \in Nat
  BY <1>1 DEF Dequeued, NetInv, NetTypeOK
<1>3. CASE cur.left = {p}
  BY <1>1, <1>2, <1>3 DEF Done, NetInv, SenderOK
<1>4. CASE cur.left # {p}
  <2>1. /\ cur' \in [msg : Nat, left : SUBSET Peer]
        /\ cur'.msg = cur.msg /\ cur'.left = cur.left \ {p}
    BY <1>1, <1>4
  <2>2. cur' # Idle
    BY <2>1, TransportAssumption
  <2> QED
    BY <1>1, <1>2, <2>1, <2>2 DEF Done, NetInv, SenderOK
<1> QED
  BY <1>3, <1>4

\* Peers other than p, when only p's channels change and p is served.
LEMMA OthersServed ==
    ASSUME NetInv, NEW p \in Peer, Served(p), NEW q \in Peer, q # p,
           conn'[q] = conn[q], link'[q] = link[q], missed \subseteq missed'
    PROVE  PeerOK(q)'
<1>1. Done(q)' = Done(q)
  BY ServedDone
<1>2. got'[q] = got[q] /\ wire'[q] = wire[q] /\ reading' = reading
  BY DEF Served
<1> QED
  BY <1>1, <1>2, Untouched DEF NetInv

-----------------------------------------------------------------------------
(***************************************************************************)
(* How the run of one peer moves along.                                    *)
(***************************************************************************)
\* t is s with x at its end; t is s without its first element.
IsLonger(s, t, x) ==
    /\ Len(s) \in Nat /\ Len(t) = Len(s) + 1 /\ t[Len(s) + 1] = x
    /\ \A i \in 1..Len(s) : t[i] = s[i]

IsTail(s, t) ==
    /\ Len(t) \in Nat /\ Len(s) = Len(t) + 1
    /\ \A i \in 1..Len(t) : t[i] = s[i + 1]

LEMMA AppendIsLonger ==
    ASSUME NEW s \in Seq(Nat), NEW x \in Nat
    PROVE  IsLonger(s, Append(s, x), x) /\ Append(s, x) \in Seq(Nat)
  BY DEF IsLonger

LEMMA TailIsTail ==
    ASSUME NEW s \in Seq(Nat), s # <<>>
    PROVE  IsTail(s, Tail(s)) /\ Head(s) = s[1] /\ Head(s) \in Nat /\ Tail(s) \in Seq(Nat)
  BY DEF IsTail

\* A message goes into the channel of a connection that exists, or did.
LEMMA FollowEnqueue ==
    ASSUME NEW g, NEW w, NEW c, NEW b, NEW d \in Nat, NEW f \in Nat,
           Len(g) \in Nat, Len(w) \in Nat, IsLonger(c, b, d + 1),
           NEW l \in {"up", "broken"}, Follow(g, w, c, l, d, f)
    PROVE  Follow(g, w, b, l, d + 1, f)
<1>1. CASE l = "up"
  <2>1. ASSUME NEW i \in 1..Len(b)
        PROVE  b[i] = f + Len(g) + Len(w) + i - 1
    <3>1. CASE i = Len(c) + 1
      BY <1>1, <3>1 DEF Follow, IsLonger
    <3>2. CASE i \in 1..Len(c)
      BY <1>1, <3>2 DEF Follow, IsLonger
    <3> QED
      BY <3>1, <3>2 DEF IsLonger
  <2>2. f + Len(g) + Len(w) + Len(b) = d + 2
    BY <1>1 DEF Follow, IsLonger
  <2> QED
    BY <1>1, <2>1, <2>2 DEF Follow, IsLonger
<1>2. CASE l = "broken"
  BY <1>2 DEF Follow
<1> QED
  BY <1>1, <1>2

\* A message goes from the channel to the wire.
LEMMA FollowWrite ==
    ASSUME NEW g, NEW w, NEW c, NEW v, NEW t, NEW d \in Nat, NEW f \in Nat,
           Len(g) \in Nat, IsLonger(w, v, c[1]), IsTail(c, t), Follow(g, w, c, "up", d, f)
    PROVE  Follow(g, v, t, "up", d, f)
<1>1. f + Len(g) + Len(w) + Len(c) = d + 1 /\ Len(c) >= 1
  BY DEF Follow, IsTail
<1>2. f + Len(g) + Len(v) + Len(t) = d + 1
  BY <1>1 DEF IsTail, IsLonger
<1>3. ASSUME NEW i \in 1..Len(v) PROVE v[i] = f + Len(g) + i - 1
  <2>1. CASE i = Len(w) + 1
    <3>1. v[i] = c[1]
      BY <2>1 DEF IsLonger
    <3>2. c[1] = f + Len(g) + Len(w) + 1 - 1
      BY <1>1 DEF Follow, IsTail
    <3> QED
      BY <2>1, <3>1, <3>2 DEF IsLonger
  <2>2. CASE i \in 1..Len(w)
    BY <2>2 DEF Follow, IsLonger
  <2> QED
    BY <2>1, <2>2 DEF IsLonger
<1>4. ASSUME NEW i \in 1..Len(t) PROVE t[i] = f + Len(g) + Len(v) + i - 1
  <2>1. i + 1 \in 1..Len(c) /\ t[i] = c[i + 1]
    BY DEF IsTail
  <2>2. c[i + 1] = f + Len(g) + Len(w) + (i + 1) - 1
    BY <2>1 DEF Follow
  <2> QED
    BY <2>1, <2>2 DEF IsLonger
<1>5. f + Len(g) + Len(v) <= d + 1
  BY <1>2 DEF IsTail, IsLonger
<1>6. \A i \in 1..Len(g) : g[i] = f + i - 1
  BY DEF Follow
<1> QED
  BY <1>2, <1>3, <1>4, <1>5, <1>6 DEF Follow

\* The peer takes a message.
LEMMA FollowConsume ==
    ASSUME NEW g, NEW w, NEW c, NEW h, NEW t, NEW l, NEW d \in Nat, NEW f \in Nat,
           IsLonger(g, h, w[1]), IsTail(w, t), Follow(g, w, c, l, d, f), Len(c) \in Nat
    PROVE  Follow(h, t, c, l, d, f)
<1>1. Len(h) + Len(t) = Len(g) + Len(w) /\ Len(w) \in Nat /\ Len(w) >= 1 /\ Len(g) \in Nat
  BY DEF IsTail, IsLonger
<1>2. ASSUME NEW i \in 1..Len(h) PROVE h[i] = f + i - 1
  <2>1. CASE i = Len(g) + 1
    <3>1. h[i] = w[1]
      BY <2>1 DEF IsLonger
    <3>2. w[1] = f + Len(g) + 1 - 1
      BY <1>1 DEF Follow
    <3> QED
      BY <2>1, <3>1, <3>2, <1>1
  <2>2. CASE i \in 1..Len(g)
    BY <2>2 DEF Follow, IsLonger
  <2> QED
    BY <2>1, <2>2 DEF IsLonger
<1>3. ASSUME NEW i \in 1..Len(t) PROVE t[i] = f + Len(h) + i - 1
  <2>1. i + 1 \in 1..Len(w) /\ t[i] = w[i + 1]
    BY DEF IsTail
  <2>2. w[i + 1] = f + Len(g) + (i + 1) - 1
    BY <2>1 DEF Follow
  <2> QED
    BY <2>1, <2>2 DEF IsLonger
<1>4. f + Len(h) + Len(t) = f + Len(g) + Len(w)
  BY DEF IsTail, IsLonger
<1>5. l # "none"
  <2>1. w # <<>>
    BY <1>1
  <2> QED
    BY <2>1 DEF Follow
<1>6. f + Len(h) + Len(t) <= d + 1
  BY <1>4 DEF Follow
<1>7. ASSUME l = "up"
      PROVE  /\ \A i \in 1..Len(c) : c[i] = f + Len(h) + Len(t) + i - 1
             /\ f + Len(h) + Len(t) + Len(c) = d + 1
  BY <1>4, <1>7 DEF Follow
<1> QED
  BY <1>2, <1>3, <1>5, <1>6, <1>7 DEF Follow

\* Of what was on the wire the first messages arrive, the rest is lost.
LEMMA FollowFails ==
    ASSUME NEW g, NEW w, NEW c, NEW v, NEW t, NEW l, NEW d \in Nat, NEW f \in Nat, 
           Len(g) \in Nat, Len(w) \in Nat, Len(v) \in 0..Len(w),
           \A i \in 1..Len(v) : v[i] = w[i], Follow(g, w, c, l, d, f)
    PROVE  Follow(g, v, t, "broken", d, f)
<1>1. f + Len(g) + Len(v) <= d + 1
  BY DEF Follow
<1>2. \A i \in 1..Len(v) : v[i] = f + Len(g) + i - 1
  BY DEF Follow
<1> QED
  BY <1>1, <1>2 DEF Follow

-----------------------------------------------------------------------------
(***************************************************************************)
(* The actions on one connection.                                          *)
(***************************************************************************)
LEMMA EnqueueKeeps ==
    ASSUME NetInv, NEW p \in Peer, Enqueue(p)
    PROVE  NetInv'
<1>1. /\ Served(p) /\ link[p] # "none" /\ Len(conn[p]) < ConnCap
      /\ conn' = [conn EXCEPT ![p] = Append(@, cur.msg)]
      /\ UNCHANGED <<reading, log, msgCh, wire, got, link, missed>>
  BY DEF Enqueue, Served
<1>2. /\ conn[p] \in Seq(Nat) /\ Len(wire[p]) \in Nat /\ Len(got[p]) \in Nat
      /\ cur.msg \in Nat /\ Done(p) \in Nat /\ link[p] \in {"up", "broken"}
  BY <1>1, DoneType DEF NetInv, NetTypeOK, Served
<1>3. /\ conn'[p] = Append(conn[p], cur.msg) /\ conn' \in [Peer -> Seq(Nat)]
      /\ \A q \in Peer \ {p} : conn'[q] = conn[q]
  BY <1>1, <1>2 DEF NetInv, NetTypeOK
<1>4. IsLonger(conn[p], conn'[p], cur.msg)
  BY <1>2, <1>3, AppendIsLonger
<1>5. Done(p)' = Done(p) + 1 /\ cur.msg = Done(p) + 1
  BY <1>1, ServedDone
<1>6. NetTypeOK' /\ SenderOK'
  BY <1>1, <1>3, ServedDone DEF NetInv, NetTypeOK
<1>7. PeerOK(p)'
  <2>1. Bounded(p)'
    BY <1>1, <1>4, TransportAssumption DEF NetInv, PeerOK, Bounded, IsLonger
  <2>2. PICK f \in Nat \ {0} : RunFrom(p, f)
    BY DEF NetInv, PeerOK
  <2>3. Follow(got[p], wire[p], conn'[p], link[p], Done(p) + 1, f)
    BY <1>2, <1>4, <1>5, <2>2, FollowEnqueue DEF RunFrom
  <2>4. RunFrom(p, f)'
    BY <1>1, <1>2, <1>5, <2>2, <2>3 DEF RunFrom, Lossless
  <2> QED
    BY <2>1, <2>4 DEF PeerOK
<1>8. ASSUME NEW q \in Peer, q # p PROVE PeerOK(q)'
  BY <1>1, <1>3, <1>8, OthersServed
<1> QED
  BY <1>6, <1>7, <1>8 DEF NetInv

\* The first message to a peer that answers starts its run.
LEMMA ConnectKeeps ==
    ASSUME NetInv, NEW p \in Peer, Connect(p)
    PROVE  NetInv'
<1>1. /\ Served(p) /\ link[p] = "none"
      /\ link' = [link EXCEPT ![p] = "up"] /\ conn' = [conn EXCEPT ![p] = <<cur.msg>>]
      /\ UNCHANGED <<reading, log, msgCh, wire, got, missed>>
  BY DEF Connect, Served
<1>2. cur.msg \in Nat /\ Done(p) \in Nat
  BY <1>1, DoneType DEF NetInv, NetTypeOK, Served
<1>3. /\ conn'[p] = <<cur.msg>> /\ conn' \in [Peer -> Seq(Nat)]
      /\ link'[p] = "up" /\ link' \in [Peer -> {"none", "up", "broken"}]
      /\ \A q \in Peer \ {p} : conn'[q] = conn[q] /\ link'[q] = link[q]
  BY <1>1, <1>2 DEF NetInv, NetTypeOK
<1>4. Done(p)' = Done(p) + 1 /\ cur.msg = Done(p) + 1
  BY <1>1, ServedDone
<1>5. NetTypeOK' /\ SenderOK'
  BY <1>1, <1>3, ServedDone DEF NetInv, NetTypeOK
<1>6. PeerOK(p)'
  <2>1. got[p] = <<>> /\ wire[p] = <<>> /\ (p \notin missed => Done(p) = 0)
    BY <1>1 DEF NetInv, PeerOK, RunFrom, Follow, Lossless
  <2>2. Bounded(p)'
    BY <1>1, <1>3, <2>1, TransportAssumption DEF Bounded
  <2>3. PICK f \in Nat \ {0} : f = Done(p) + 1
    BY <1>2
  <2>4. Follow(<<>>, <<>>, <<f>>, "up", f, f)
    BY DEF Follow
  <2>5. Lossless("up", f, 1)
    BY DEF Lossless
  <2>6. RunFrom(p, f)'
    BY <1>1, <1>3, <1>4, <2>1, <2>3, <2>4, <2>5 DEF RunFrom
  <2> QED
    BY <2>2, <2>6 DEF PeerOK
<1>7. ASSUME NEW q \in Peer, q # p PROVE PeerOK(q)'
  BY <1>1, <1>3, <1>7, OthersServed
<1> QED
  BY <1>5, <1>6, <1>7 DEF NetInv

\* Without an answer the message is lost, and the next one dials again.
LEMMA DialFailsKeeps ==
    ASSUME NetInv, NEW p \in Peer, DialFails(p)
    PROVE  NetInv'
<1>1. /\ Served(p) /\ link[p] = "none" /\ missed' = missed \cup {p}
      /\ UNCHANGED <<reading, log, msgCh, wire, got, link, conn>>
  BY DEF DialFails, Served, Miss
<1>2. Done(p)' = Done(p) + 1 /\ Done(p) \in Nat
  BY <1>1, ServedDone, DoneType DEF NetInv
<1>3. NetTypeOK' /\ SenderOK'
  BY <1>1, ServedDone DEF NetInv, NetTypeOK
<1>4. PeerOK(p)'
  <2>1. Bounded(p)'
    BY <1>1 DEF NetInv, PeerOK, Bounded
  <2>2. got[p] = <<>> /\ wire[p] = <<>> /\ conn[p] = <<>>
    BY <1>1 DEF NetInv, PeerOK, RunFrom, Follow
  <2>3. Follow(<<>>, <<>>, <<>>, "none", Done(p) + 1, 1)
    BY <1>2 DEF Follow
  <2>4. RunFrom(p, 1)'
    BY <1>1, <1>2, <2>2, <2>3 DEF RunFrom
  <2> QED
    BY <2>1, <2>4 DEF PeerOK
<1>5. ASSUME NEW q \in Peer, q # p PROVE PeerOK(q)'
  BY <1>1, <1>5, OthersServed
<1> QED
  BY <1>3, <1>4, <1>5 DEF NetInv

\* Peers other than p, when the Sender rests and only p's channels change.
LEMMA OthersRest ==
    ASSUME NetInv, NEW p \in Peer, UNCHANGED <<reading, log, msgCh, cur>>,
           NEW q \in Peer, got'[q] = got[q], wire'[q] = wire[q],
           conn'[q] = conn[q], link'[q] = link[q], missed \subseteq missed'
    PROVE  PeerOK(q)'
<1>1. Done(q)' = Done(q)
  BY DEF Done, Dequeued
<1> QED
  BY <1>1, Untouched DEF NetInv

LEMMA SenderRests ==
    ASSUME SenderOK, UNCHANGED <<log, msgCh, cur>>
    PROVE  SenderOK' /\ \A p \in Peer : Done(p)' = Done(p)
  BY DEF SenderOK, Done, Dequeued

LEMMA WriteKeeps ==
    ASSUME NetInv, NEW p \in Peer, Write(p)
    PROVE  NetInv'
<1>1. /\ link[p] = "up" /\ conn[p] # <<>> /\ Len(wire[p]) < WireCap
      /\ wire' = [wire EXCEPT ![p] = Append(@, Head(conn[p]))]
      /\ conn' = [conn EXCEPT ![p] = Tail(@)]
      /\ UNCHANGED <<reading, log, msgCh, cur, link, got, missed>>
  BY DEF Write
<1>2. /\ conn[p] \in Seq(Nat) /\ wire[p] \in Seq(Nat) /\ Len(got[p]) \in Nat
      /\ Done(p) \in Nat
  BY DoneType DEF NetInv, NetTypeOK
<1>3. /\ IsTail(conn[p], Tail(conn[p])) /\ Tail(conn[p]) \in Seq(Nat)
      /\ Head(conn[p]) = conn[p][1] /\ Head(conn[p]) \in Nat
  BY <1>1, <1>2, TailIsTail
<1>4. /\ IsLonger(wire[p], Append(wire[p], Head(conn[p])), conn[p][1])
      /\ Append(wire[p], Head(conn[p])) \in Seq(Nat)
  BY <1>2, <1>3, AppendIsLonger
<1>5. /\ conn'[p] = Tail(conn[p]) /\ conn' \in [Peer -> Seq(Nat)]
      /\ wire'[p] = Append(wire[p], Head(conn[p])) /\ wire' \in [Peer -> Seq(Nat)]
      /\ \A q \in Peer \ {p} : conn'[q] = conn[q] /\ wire'[q] = wire[q]
  BY <1>1, <1>3, <1>4 DEF NetInv, NetTypeOK
<1>6. NetTypeOK'
  BY <1>1, <1>5 DEF NetInv, NetTypeOK
<1>7. SenderOK' /\ Done(p)' = Done(p)
  BY <1>1, SenderRests DEF NetInv
<1>8. PeerOK(p)'
  <2>1. Len(conn'[p]) <= ConnCap /\ Len(wire'[p]) <= WireCap
    BY <1>1, <1>3, <1>4, <1>5, TransportAssumption DEF NetInv, PeerOK, Bounded, IsTail, IsLonger
  <2>2. Bounded(p)'
    BY <1>1, <2>1 DEF NetInv, PeerOK, Bounded
  <2>3. PICK f \in Nat \ {0} : RunFrom(p, f)
    BY DEF NetInv, PeerOK
  <2>4. Follow(got[p], wire'[p], conn'[p], "up", Done(p), f)
    BY <1>1, <1>2, <1>3, <1>4, <1>5, <2>3, FollowWrite DEF RunFrom
  <2>5. RunFrom(p, f)'
    BY <1>1, <1>7, <2>3, <2>4 DEF RunFrom
  <2> QED
    BY <2>2, <2>5 DEF PeerOK
<1>9. ASSUME NEW q \in Peer, q # p PROVE PeerOK(q)'
  BY <1>1, <1>5, <1>9, OthersRest
<1> QED
  BY <1>6, <1>7, <1>8, <1>9 DEF NetInv

LEMMA WriteFailsKeeps ==
    ASSUME NetInv, NEW p \in Peer, WriteFails(p)
    PROVE  NetInv'
<1>1. /\ link[p] # "none" /\ conn[p] # <<>> /\ missed' = missed \cup {p}
      /\ link' = [link EXCEPT ![p] = "broken"] /\ conn' = [conn EXCEPT ![p] = Tail(@)]
      /\ UNCHANGED <<reading, log, msgCh, cur, got>>
  BY DEF WriteFails, AfterFailure, Miss
<1>2. PICK n \in 0..Len(wire[p]) : wire' = [wire EXCEPT ![p] = SubSeq(@, 1, n)]
  BY DEF WriteFails
<1>3. /\ conn[p] \in Seq(Nat) /\ wire[p] \in Seq(Nat) /\ Len(got[p]) \in Nat
      /\ Len(wire[p]) \in Nat /\ Done(p) \in Nat
  BY DoneType DEF NetInv, NetTypeOK
<1>4. /\ SubSeq(wire[p], 1, n) \in Seq(Nat) /\ Len(SubSeq(wire[p], 1, n)) = n
      /\ \A i \in 1..n : SubSeq(wire[p], 1, n)[i] = wire[p][i]
  BY <1>3
<1>5. IsTail(conn[p], Tail(conn[p])) /\ Tail(conn[p]) \in Seq(Nat)
  BY <1>1, <1>3, TailIsTail
<1>6. /\ conn'[p] = Tail(conn[p]) /\ conn' \in [Peer -> Seq(Nat)]
      /\ wire'[p] = SubSeq(wire[p], 1, n) /\ wire' \in [Peer -> Seq(Nat)]
      /\ link'[p] = "broken" /\ link' \in [Peer -> {"none", "up", "broken"}]
      /\ \A q \in Peer \ {p} : conn'[q] = conn[q] /\ wire'[q] = wire[q] /\ link'[q] = link[q]
  BY <1>1, <1>2, <1>4, <1>5 DEF NetInv, NetTypeOK
<1>7. NetTypeOK'
  BY <1>1, <1>6 DEF NetInv, NetTypeOK
<1>8. SenderOK' /\ Done(p)' = Done(p)
  BY <1>1, SenderRests DEF NetInv
<1>9. PeerOK(p)'
  <2>1. Len(conn'[p]) <= ConnCap /\ Len(wire'[p]) <= WireCap
    <3>1. Len(conn[p]) <= ConnCap /\ Len(wire[p]) <= WireCap
      BY DEF NetInv, PeerOK, Bounded
    <3>2. Len(conn'[p]) \in Nat /\ Len(conn[p]) = Len(conn'[p]) + 1
      BY <1>5, <1>6 DEF IsTail
    <3>3. Len(wire'[p]) = n
      BY <1>4, <1>6
    <3> QED
      BY <1>3, <3>1, <3>2, <3>3, TransportAssumption
  <2>2. Bounded(p)'
    BY <1>1, <2>1 DEF NetInv, PeerOK, Bounded
  <2>3. PICK f \in Nat \ {0} : RunFrom(p, f)
    BY DEF NetInv, PeerOK
  <2>4. Follow(got[p], wire'[p], conn'[p], "broken", Done(p), f)
    <3>1. Len(wire'[p]) = n /\ \A i \in 1..n : wire'[p][i] = wire[p][i]
      BY <1>4, <1>6
    <3> QED
      BY <1>3, <2>3, <3>1, FollowFails DEF RunFrom
  <2>5. RunFrom(p, f)'
    BY <1>1, <1>6, <1>8, <2>4 DEF RunFrom
  <2> QED
    BY <2>2, <2>5 DEF PeerOK
<1>10. ASSUME NEW q \in Peer, q # p PROVE PeerOK(q)'
  BY <1>1, <1>6, <1>10, OthersRest
<1> QED
  BY <1>7, <1>8, <1>9, <1>10 DEF NetInv

LEMMA ConsumeKeeps ==
    ASSUME NetInv, NEW p \in Peer, Consume(p)
    PROVE  NetInv'
<1>1. /\ p \in reading /\ wire[p] # <<>>
      /\ got' = [got EXCEPT ![p] = Append(@, Head(wire[p]))]
      /\ wire' = [wire EXCEPT ![p] = Tail(@)]
      /\ UNCHANGED <<reading, log, msgCh, cur, link, conn, missed>>
  BY DEF Consume
<1>2. got[p] \in Seq(Nat) /\ wire[p] \in Seq(Nat) /\ Len(conn[p]) \in Nat /\ Done(p) \in Nat
  BY DoneType DEF NetInv, NetTypeOK
<1>3. /\ IsTail(wire[p], Tail(wire[p])) /\ Tail(wire[p]) \in Seq(Nat)
      /\ Head(wire[p]) = wire[p][1] /\ Head(wire[p]) \in Nat
  BY <1>1, <1>2, TailIsTail
<1>4. /\ IsLonger(got[p], Append(got[p], Head(wire[p])), wire[p][1])
      /\ Append(got[p], Head(wire[p])) \in Seq(Nat)
  BY <1>2, <1>3, AppendIsLonger
<1>5. /\ wire'[p] = Tail(wire[p]) /\ wire' \in [Peer -> Seq(Nat)]
      /\ got'[p] = Append(got[p], Head(wire[p])) /\ got' \in [Peer -> Seq(Nat)]
      /\ \A q \in Peer \ {p} : wire'[q] = wire[q] /\ got'[q] = got[q]
  BY <1>1, <1>3, <1>4 DEF NetInv, NetTypeOK
<1>6. NetTypeOK'
  BY <1>1, <1>5 DEF NetInv, NetTypeOK
<1>7. SenderOK' /\ Done(p)' = Done(p)
  BY <1>1, SenderRests DEF NetInv
<1>8. PeerOK(p)'
  <2>1. Len(wire'[p]) <= WireCap
    BY <1>3, <1>5, TransportAssumption DEF NetInv, PeerOK, Bounded, IsTail
  <2>2. Bounded(p)'
    BY <1>1, <2>1 DEF NetInv, PeerOK, Bounded
  <2>3. PICK f \in Nat \ {0} : RunFrom(p, f)
    BY DEF NetInv, PeerOK
  <2>4. Follow(got'[p], wire'[p], conn[p], link[p], Done(p), f)
    BY <1>2, <1>3, <1>4, <1>5, <2>3, FollowConsume DEF RunFrom
  <2>5. RunFrom(p, f)'
    BY <1>1, <1>7, <2>3, <2>4 DEF RunFrom
  <2> QED
    BY <2>2, <2>5 DEF PeerOK
<1>9. ASSUME NEW q \in Peer, q # p PROVE PeerOK(q)'
  BY <1>1, <1>5, <1>9, OthersRest
<1> QED
  BY <1>6, <1>7, <1>8, <1>9 DEF NetInv

LEMMA NetInvHolds == IOSpec => []NetInv
<1>1. IOInit => NetInv
  BY NetInitially DEF IOInit
<1>2. ASSUME NetInv, [IONext]_ioVars PROVE NetInv'
  <2>1. CASE Publish
    BY <1>2, <2>1, SendKeeps DEF Publish
  <2>2. CASE UNCHANGED netVars
    <3>1. UNCHANGED <<reading, log, msgCh, cur, link, conn, wire, got, missed>>
      BY <2>2 DEF netVars
    <3>2. NetTypeOK' /\ SenderOK'
      BY <1>2, <3>1, SenderRests DEF NetInv, NetTypeOK
    <3>3. ASSUME NEW p \in Peer PROVE PeerOK(p)'
      BY <1>2, <3>1, OthersRest
    <3> QED
      BY <3>2, <3>3 DEF NetInv
  <2>3. CASE NetNext
    BY <1>2, <2>3, NextMessageKeeps, EnqueueKeeps, ConnectKeeps, DialFailsKeeps,
       WriteKeeps, WriteFailsKeeps, ConsumeKeeps DEF NetNext, Distribute, WriteOut
  <2> QED
    BY <1>2, <2>1, <2>2, <2>3 DEF IONext, ProposeFirst, ProposeNext, Loopback, Receive,
       Handle, PoolStep, NetStep, ioVars
<1> QED
  BY <1>1, <1>2, PTL DEF IOSpec
-----------------------------------------------------------------------------
\* Three sequences that follow each other from f on are one run from f on.
LEMMA ConcatenatedRun ==
    ASSUME NEW g \in Seq(Nat), NEW w \in Seq(Nat), NEW c \in Seq(Nat), NEW f \in Nat,
           \A i \in 1..Len(g) : g[i] = f + i - 1,
           \A i \in 1..Len(w) : w[i] = f + Len(g) + i - 1,
           \A i \in 1..Len(c) : c[i] = f + Len(g) + Len(w) + i - 1
    PROVE  g \o w \o c = [i \in 1..Len(g \o w \o c) |-> (g \o w \o c)[1] + i - 1]
<1> DEFINE a == g \o w
           s == a \o c
<1>1. /\ a \in Seq(Nat) /\ Len(a) = Len(g) + Len(w)
      /\ \A i \in 1..Len(g) + Len(w) : a[i] = IF i <= Len(g) THEN g[i] ELSE w[i - Len(g)]
  BY ConcatProperties
<1>2. Len(g) \in Nat /\ Len(w) \in Nat /\ Len(c) \in Nat /\ Len(a) \in Nat
  BY <1>1, LenProperties
<1> HIDE DEF a
<1>3. /\ s \in Seq(Nat) /\ Len(s) = Len(a) + Len(c)
      /\ \A i \in 1..Len(a) + Len(c) : s[i] = IF i <= Len(a) THEN a[i] ELSE c[i - Len(a)]
  <2>1. a \in Seq(Nat)
    BY <1>1
  <2> QED
    BY <2>1, ConcatProperties
<1>4. s = [i \in 1..Len(s) |-> s[i]]
  BY <1>3, LenProperties
<1> HIDE DEF s
<1>5. ASSUME NEW i \in 1..Len(s) PROVE s[i] = f + i - 1
  <2>1. i \in Nat /\ i >= 1 /\ i <= Len(g) + Len(w) + Len(c) /\ i \in 1..Len(a) + Len(c)
    BY <1>1, <1>2, <1>3
  <2>2. CASE i <= Len(g)
    <3>1. s[i] = a[i]
      BY <1>1, <1>2, <1>3, <2>1, <2>2
    <3>2. a[i] = g[i]
      BY <1>1, <1>2, <2>1, <2>2
    <3> QED
      BY <3>1, <3>2, <1>2, <2>1, <2>2
  <2>3. CASE i > Len(g) /\ i <= Len(a)
    <3>1. s[i] = a[i]
      BY <1>1, <1>2, <1>3, <2>1, <2>3
    <3>2. a[i] = w[i - Len(g)] /\ i - Len(g) \in 1..Len(w)
      BY <1>1, <1>2, <2>1, <2>3
    <3>3. w[i - Len(g)] = f + Len(g) + (i - Len(g)) - 1
      BY <3>2
    <3> QED
      BY <3>1, <3>2, <3>3, <1>2, <2>1
  <2>4. CASE i > Len(a)
    <3>1. s[i] = c[i - Len(a)] /\ i - Len(a) \in 1..Len(c)
      BY <1>1, <1>2, <1>3, <2>1, <2>4
    <3>2. c[i - Len(a)] = f + Len(g) + Len(w) + (i - Len(a)) - 1
      BY <3>1
    <3> QED
      BY <3>1, <3>2, <1>1, <1>2, <2>1
  <2> QED
    BY <1>1, <1>2, <2>1, <2>2, <2>3, <2>4
<1>6. ASSUME NEW i \in 1..Len(s) PROVE s[i] = s[1] + i - 1
  <2>1. 1 \in 1..Len(s)
    BY <1>1, <1>2, <1>3
  <2>2. s[1] = f + 1 - 1 /\ s[i] = f + i - 1
    BY <2>1, <1>5
  <2> QED
    BY <2>2
<1>7. s = [i \in 1..Len(s) |-> s[1] + i - 1]
  BY <1>4, <1>6
<1> QED
  BY <1>7 DEF s, a

(***************************************************************************)
(* Every peer takes a contiguous run of the broadcasts, whatever fails and *)
(* whatever the capacities are.                                            *)
(***************************************************************************)
THEOREM PeersGetARun == IOSpec => []Contiguous
<1>1. NetInv => Contiguous
  <2> SUFFICES ASSUME NetInv, NEW p \in Peer
               PROVE  LET s == Travelling(p) IN s = [i \in 1..Len(s) |-> s[1] + i - 1]
    BY DEF Contiguous
  <2>1. PICK f \in Nat \ {0} : Follow(got[p], wire[p], conn[p], link[p], Done(p), f)
    BY DEF NetInv, PeerOK, RunFrom
  <2> DEFINE c == IF link[p] = "up" THEN conn[p] ELSE <<>>
  <2>2. got[p] \in Seq(Nat) /\ wire[p] \in Seq(Nat) /\ c \in Seq(Nat)
    BY DEF NetInv, NetTypeOK
  <2>3. /\ \A i \in 1..Len(got[p]) : got[p][i] = f + i - 1
        /\ \A i \in 1..Len(wire[p]) : wire[p][i] = f + Len(got[p]) + i - 1
    BY <2>1 DEF Follow
  <2>4. \A i \in 1..Len(c) : c[i] = f + Len(got[p]) + Len(wire[p]) + i - 1
    <3>1. CASE link[p] = "up"
      BY <2>1, <3>1 DEF Follow
    <3>2. CASE link[p] # "up"
      BY <3>2
    <3> QED
      BY <3>1, <3>2
  <2>5. Travelling(p) = got[p] \o wire[p] \o c
    BY DEF Travelling
  <2> DEFINE g == got[p]
             w == wire[p]
  <2> HIDE DEF c, g, w
  <2>6. g \o w \o c = [i \in 1..Len(g \o w \o c) |-> (g \o w \o c)[1] + i - 1]
    <3>1. g \in Seq(Nat) /\ w \in Seq(Nat) /\ c \in Seq(Nat) /\ f \in Nat
      BY <2>2 DEF g, w
    <3>2. \A i \in 1..Len(g) : g[i] = f + i - 1
      BY <2>3 DEF g
    <3>3. \A i \in 1..Len(w) : w[i] = f + Len(g) + i - 1
      BY <2>3 DEF g, w
    <3>4. \A i \in 1..Len(c) : c[i] = f + Len(g) + Len(w) + i - 1
      BY <2>4 DEF g, w
    <3> QED
      BY <3>1, <3>2, <3>3, <3>4, ConcatenatedRun
  <2>7. Travelling(p) = g \o w \o c
    BY <2>5 DEF g, w
  <2> QED
    BY <2>6, <2>7
<1> QED
  BY <1>1, NetInvHolds, PTL

\* The arithmetic of the next theorem.
LEMMA Bound ==
    ASSUME NEW w \in Nat, NEW c \in Nat, NEW d \in Nat, NEW k \in Nat, NEW l \in Nat,
           c <= k, w <= l, 1 + 0 + w + c = d + 1
    PROVE  d <= k + l
  OBVIOUS

LEMMA Chain ==
    ASSUME NEW g \in Nat \ {0}, NEW x \in Nat, NEW w \in Nat, NEW d \in Nat, NEW m \in Nat,
           NEW e \in Nat, NEW k \in Nat, NEW l \in Nat,
           g + x + w <= d + 1, d <= m, m <= e + 1, e <= k + l
    PROVE  x <= k + l + 1
  OBVIOUS

(***************************************************************************)
(* A connected peer that never reads, and lost nothing, stops the node:    *)
(* no peer gets more than the channels to it hold, and one.                *)
(***************************************************************************)
THEOREM SilentPeersStopTheNode == IOSpec => []SilentPeerStopsAll
<1>1. NetInv => SilentPeerStopsAll
  <2> SUFFICES ASSUME NetInv, NEW p \in Peer, NEW q \in Peer,
                      p \notin reading, p \notin missed, link[p] = "up"
               PROVE  Len(got[q]) <= ConnCap + WireCap + 1
    BY DEF SilentPeerStopsAll
  <2>1. PICK f \in Nat \ {0} : RunFrom(p, f)
    BY DEF NetInv, PeerOK
  <2>2. PICK g \in Nat \ {0} : RunFrom(q, g)
    BY DEF NetInv, PeerOK
  <2>3. /\ Done(p) \in Nat /\ Done(q) \in Nat /\ Dequeued \in Nat
        /\ Done(q) <= Dequeued /\ Dequeued <= Done(p) + 1
    BY DoneType DEF NetInv
  <2>4. /\ Len(conn[p]) \in Nat /\ Len(wire[p]) \in Nat
        /\ Len(got[q]) \in Nat /\ Len(wire[q]) \in Nat
        /\ ConnCap \in Nat /\ WireCap \in Nat
    BY TransportAssumption DEF NetInv, NetTypeOK
  <2>5. Done(p) <= ConnCap + WireCap
    <3>1. got[p] = <<>> /\ Len(conn[p]) <= ConnCap /\ Len(wire[p]) <= WireCap
      BY DEF NetInv, PeerOK, Bounded
    <3>2. f = 1 /\ f + Len(got[p]) + Len(wire[p]) + Len(conn[p]) = Done(p) + 1
      BY <2>1 DEF RunFrom, Follow, Lossless
    <3>3. Len(got[p]) = 0
      BY <3>1
    <3>4. 1 + 0 + Len(wire[p]) + Len(conn[p]) = Done(p) + 1
      BY <3>2, <3>3
    <3> QED
      BY <2>3, <2>4, <3>1, <3>4, Bound
  <2>6. g + Len(got[q]) + Len(wire[q]) <= Done(q) + 1
    BY <2>2 DEF RunFrom, Follow
  <2> QED
    BY <2>3, <2>4, <2>5, <2>6, Chain
<1> QED
  BY <1>1, NetInvHolds, PTL

\* Core.Run loops a block back only after it, and so the first one, was sent.
LEMMA LoopsLater == IOSpec => [](looping => log # <<>>)
<1> DEFINE L == looping => log # <<>>
<1>1. IOInit => L
  BY DEF IOInit
<1>2. ASSUME NetInv, L, [IONext]_ioVars PROVE L'
  <2>1. CASE ProposeFirst \/ ProposeNext
    <3>1. log \in Seq({Peer}) /\ log' = Append(log, Peer)
      BY <1>2, <2>1 DEF NetInv, NetTypeOK, ProposeFirst, ProposeNext, Publish, Send
    <3> QED
      BY <3>1
  <2>2. CASE NetStep
    <3>1. log' = log
      BY <2>2 DEF NetStep, NetNext, Distribute, WriteOut, NextMessage, Enqueue, Connect,
         DialFails, Served, Write, WriteFails, Consume
    <3> QED
      BY <1>2, <2>2, <3>1 DEF NetStep, ownVars
  <2>3. CASE Loopback \/ Receive \/ Handle \/ PoolStep \/ UNCHANGED ioVars
    BY <1>2, <2>3 DEF Loopback, Receive, Handle, PoolStep, ioVars, ownVars, netVars
  <2> QED
    BY <1>2, <2>1, <2>2, <2>3 DEF IONext
<1> QED
  BY <1>1, <1>2, NetInvHolds, PTL DEF IOSpec

(***************************************************************************)
(* Whatever the capacity of recvCh: a node that finds it full when it      *)
(* pushes its own block proposes nothing ever after.                       *)
(***************************************************************************)
THEOREM JammedNodesStayJammed == IOSpec => JamIsFinal
<1>1. ASSUME looping => log # <<>>, [IONext]_ioVars, Jammed
      PROVE  Jammed' /\ log' = log /\ handed' = handed
  <2>1. looping /\ inbox = RecvCap /\ log # <<>> /\ RecvCap \in Nat
    BY <1>1, RecvAssumption DEF Jammed
  <2>2. PoolStep \/ NetStep \/ UNCHANGED ioVars
    <3>1. ~(inbox < RecvCap)
      BY <2>1
    <3> QED
      BY <1>1, <2>1, <3>1, Zenon DEF IONext, ProposeFirst, ProposeNext, Loopback, Receive, Handle
  <2>3. CASE PoolStep
    BY <2>1, <2>3 DEF PoolStep, Submit, Run, Drop, Take, Store, Put, Make, Push, netVars,
       ownVars, Jammed
  <2>4. CASE NetStep
    <3>1. log' = log
      BY <2>4 DEF NetStep, NetNext, Distribute, WriteOut, NextMessage, Enqueue, Connect,
         DialFails, Served, Write, WriteFails, Consume
    <3> QED
      BY <2>1, <2>4, <3>1 DEF NetStep, poolVars, ownVars, Jammed
  <2>5. CASE UNCHANGED ioVars
    BY <2>1, <2>5 DEF ioVars, poolVars, netVars, ownVars, Jammed
  <2> QED
    BY <2>2, <2>3, <2>4, <2>5
<1> QED
  BY <1>1, LoopsLater, PTL DEF IOSpec, JamIsFinal

(***************************************************************************)
(* The rest of the node does to the pool only what the pool allows, so     *)
(* whatever is proved of the pool holds in the node.                       *)
(***************************************************************************)
THEOREM NodeKeepsThePool == IOSpec => Spec
<1>1. IOInit => Init
  BY DEF IOInit
<1>2. [IONext]_ioVars => [Next]_poolVars
  BY DEF IONext, ioVars, ProposeFirst, ProposeNext, Publish, Loopback, Receive, Handle,
     PoolStep, NetStep, Next
<1> QED
  BY <1>1, <1>2, PTL DEF IOSpec, Spec

(***************************************************************************)
(* In the node, whose GetBatch is called by Publish for a message of its   *)
(* own, the batches proposed are consecutive pieces of the transactions    *)
(* the queue accepted.                                                     *)
(***************************************************************************)
THEOREM NodeImplementsStream ==
    ASSUME RingsHoldABatch
    PROVE  IOSpec => StreamSpec
  BY NodeKeepsThePool, PoolImplementsStream, PTL

(***************************************************************************)
(* In the node a ring larger than a batch drops no transaction, not even   *)
(* when a silent peer has stopped Publish: the clients wait instead.       *)
(***************************************************************************)
THEOREM NodeDropsNothing ==
    ASSUME RingsHoldABatch
    PROVE  IOSpec => []NothingDropped
  BY NodeKeepsThePool, NeverDrops, PTL

(***************************************************************************)
(* In the node a ring exactly as large as a batch proposes one batch and   *)
(* then empty blocks for ever.                                             *)
(***************************************************************************)
THEOREM TightNodeProposesOneBatch ==
    ASSUME RingsHoldABatch
    PROVE  IOSpec => []OneBatchWhenTight
  BY NodeKeepsThePool, TightRingGivesOneBatch, PTL
=============================================================================
