----------------------------- MODULE BBAProofs -----------------------------
(***************************************************************************)
(* Proofs about the binary agreement of stage 011 (BBA).                   *)
(***************************************************************************)
EXTENDS BBA, TLAPS, FiniteSetTheorems, WellFoundedInduction

Opt == Values \cup {None}
Msgs == [from : Live, epoch : Nat, kind : {"BVAL", "AUX"}, val : Values]
Calls == Msgs \cup {EndOfReplay}

State == [epoch : Nat, binaryValues : Seq(Values), sentBinaryValue : SUBSET Values,
          recvBinaryValue : [Validators -> Opt], recvAux : [Validators -> Opt],
          done : BOOLEAN, estimated : Opt, decision : Opt,
          delayedMessages : Seq(Msgs), messages : SUBSET Msgs, calls : Seq(Calls),
          foreign : SUBSET Nat, doubled : SUBSET Nat]

-----------------------------------------------------------------------------
(* What a call does to the state it is made in, field by field. *)

LEMMA CoinIsValue == ASSUME NEW e PROVE Coin(e) \in Values
BY DEF Coin, Values

LEMMA MessageType ==
    ASSUME NEW s \in State, NEW i \in Live, NEW kind \in {"BVAL", "AUX"}, NEW v \in Values
    PROVE  Message(i, s, kind, v) \in Msgs
BY DEF Message, Msgs, State

LEMMA EstimateIs ==
    ASSUME NEW s \in State
    PROVE  /\ Estimate(s) \in Values
           /\ Single(s, Estimate(s)) \/ (Estimate(s) = Coin(s.epoch) /\ \A v \in Values : ~Single(s, v))
<1>1. Coin(s.epoch) \in Values
  BY CoinIsValue
<1>2. Singles(s) \subseteq Values /\ \A v \in Values : v \in Singles(s) <=> Single(s, v)
  BY DEF Singles
<1> QED BY <1>1, <1>2 DEF Estimate

LEMMA DecideIs ==
    ASSUME NEW s \in State
    PROVE  /\ Decide(s) \in Opt
           /\ Decide(s) = s.decision \/ (Decide(s) = Coin(s.epoch) /\ Single(s, Coin(s.epoch)))
<1>1. s.decision \in Opt
  BY DEF State
<1>2. Coin(s.epoch) \in Values
  BY CoinIsValue
<1>3. CASE s.decision = None /\ Single(s, Coin(s.epoch))
  BY <1>2, <1>3 DEF Decide, Opt
<1>4. CASE ~(s.decision = None /\ Single(s, Coin(s.epoch)))
  BY <1>1, <1>4 DEF Decide
<1> QED BY <1>3, <1>4

\* What one call may do, by the fields it changes; m is the call, r the result.
Ignores(s, r, m) ==
    /\ m # EndOfReplay /\ (s.done \/ m.epoch < s.epoch)
    /\ r = [s EXCEPT !.calls = Tail(s.calls)]

Delays(s, r, m) ==
    /\ m # EndOfReplay /\ m.epoch > s.epoch
    /\ r = [s EXCEPT !.calls = Tail(s.calls), !.delayedMessages = Append(s.delayedMessages, m)]

EndsReplay(s, r, m) ==
    /\ m = EndOfReplay
    /\ r = [s EXCEPT !.calls = Tail(s.calls), !.delayedMessages = <<>>]

\* The BVALs of v that s has when m is counted.
Counted(s, m) == Senders([s.recvBinaryValue EXCEPT ![m.from] = m.val], m.val)

Current(s, m, kind) == m # EndOfReplay /\ m.epoch = s.epoch /\ m.kind = kind

Counts(s, r, m) ==
    /\ Current(s, m, "BVAL")
    /\ r = [s EXCEPT !.calls = Tail(s.calls),
                     !.recvBinaryValue = [s.recvBinaryValue EXCEPT ![m.from] = m.val]]

Echoes(s, r, i, m) ==
    /\ Current(s, m, "BVAL")
    /\ Cardinality(Counted(s, m)) = F + 1 /\ m.val \notin s.sentBinaryValue
    /\ r = [s EXCEPT !.calls = <<Message(i, s, "BVAL", m.val)>> \o Tail(s.calls),
                     !.recvBinaryValue = [s.recvBinaryValue EXCEPT ![m.from] = m.val],
                     !.sentBinaryValue = s.sentBinaryValue \cup {m.val},
                     !.messages = s.messages \cup {Message(i, s, "BVAL", m.val)}]

Accepts(s, r, m) ==
    /\ Current(s, m, "BVAL")
    /\ Cardinality(Counted(s, m)) = 2 * F + 1 /\ s.binaryValues # <<>>
    /\ r = [s EXCEPT !.calls = Tail(s.calls),
                     !.recvBinaryValue = [s.recvBinaryValue EXCEPT ![m.from] = m.val],
                     !.binaryValues = Append(s.binaryValues, m.val)]

AcceptsFirst(s, r, i, m) ==
    /\ Current(s, m, "BVAL")
    /\ Cardinality(Counted(s, m)) = 2 * F + 1 /\ s.binaryValues = <<>>
    /\ r = [s EXCEPT !.calls = <<Message(i, s, "AUX", m.val)>> \o Tail(s.calls),
                     !.recvBinaryValue = [s.recvBinaryValue EXCEPT ![m.from] = m.val],
                     !.binaryValues = Append(s.binaryValues, m.val),
                     !.messages = s.messages \cup {Message(i, s, "AUX", m.val)}]

WithAux(s, m) == [s EXCEPT !.recvAux = [s.recvAux EXCEPT ![m.from] = m.val]]

CountsAux(s, r, m) ==
    /\ Current(s, m, "AUX")
    /\ \E done \in BOOLEAN :
          r = [s EXCEPT !.calls = Tail(s.calls),
                        !.recvAux = [s.recvAux EXCEPT ![m.from] = m.val], !.done = done]

Leaves(s, r, i, m) ==
    /\ Current(s, m, "AUX")
    /\ AuxComplete(WithAux(s, m))
    /\ LET t == WithAux(s, m)
           next == [s EXCEPT !.epoch = s.epoch + 1]
           v == Estimate(t)
       IN  r = [s EXCEPT !.calls = (s.delayedMessages \o <<EndOfReplay>>) \o Tail(s.calls),
                         !.epoch = s.epoch + 1, !.binaryValues = <<>>,
                         !.sentBinaryValue = {v},
                         !.recvBinaryValue = [j \in Validators |-> None],
                         !.recvAux = [j \in Validators |-> None],
                         !.estimated = v, !.decision = Decide(t),
                         !.foreign = Ended(s.foreign, s, Foreign(t)),
                         !.doubled = Ended(s.doubled, s, Doubled(t)),
                         !.messages = s.messages \cup {Message(i, next, "BVAL", v)}]

Outcome(s, r, i, m) ==
    \/ Ignores(s, r, m) \/ Delays(s, r, m) \/ EndsReplay(s, r, m)
    \/ Counts(s, r, m) \/ Echoes(s, r, i, m) \/ Accepts(s, r, m) \/ AcceptsFirst(s, r, i, m)
    \/ CountsAux(s, r, m) \/ Leaves(s, r, i, m)

LEMMA CallsType ==
    ASSUME NEW s \in State, s.calls # <<>>
    PROVE  /\ Head(s.calls) \in Calls
           /\ Tail(s.calls) \in Seq(Calls)
BY DEF State

LEMMA BValOutcome ==
    ASSUME NEW s \in State, NEW i \in Live, NEW m \in Msgs, s.calls # <<>>,
           m # EndOfReplay, m.epoch = s.epoch, m.kind = "BVAL",
           NEW r, r = HandleBinaryValueRequest([s EXCEPT !.calls = Tail(s.calls)], i, m.from, m.val)
    PROVE  Outcome(s, r, i, m)
<1> DEFINE recv == [s.recvBinaryValue EXCEPT ![m.from] = m.val]
           length == Cardinality(Senders(recv, m.val))
           t == [s EXCEPT !.calls = Tail(s.calls)]
<1>1. /\ t.recvBinaryValue = s.recvBinaryValue /\ t.binaryValues = s.binaryValues
      /\ t.sentBinaryValue = s.sentBinaryValue /\ t.epoch = s.epoch
  BY DEF State
<1>2. CASE length = 2 * F + 1 /\ s.binaryValues # <<>>
  <2>1. Accepts(s, r, m)
    BY <1>2 DEF State, Accepts, Current, Counted, HandleBinaryValueRequest
  <2> QED BY <2>1 DEF Outcome
<1>3. CASE length = 2 * F + 1 /\ s.binaryValues = <<>>
  <2>1. AcceptsFirst(s, r, i, m)
    BY <1>3 DEF State, AcceptsFirst, Current, Counted, HandleBinaryValueRequest, Call, AddMessage,
                Message
  <2> QED BY <2>1 DEF Outcome
<1>4. CASE length # 2 * F + 1 /\ length = F + 1 /\ m.val \notin s.sentBinaryValue
  <2>1. Echoes(s, r, i, m)
    BY <1>4 DEF State, Echoes, Current, Counted, HandleBinaryValueRequest, Call, AddMessage,
                SendBVal, Message
  <2> QED BY <2>1 DEF Outcome
<1>5. CASE length # 2 * F + 1 /\ ~(length = F + 1 /\ m.val \notin s.sentBinaryValue)
  <2>1. Counts(s, r, m)
    BY <1>5 DEF State, Counts, Current, HandleBinaryValueRequest
  <2> QED BY <2>1 DEF Outcome
<1> QED BY <1>2, <1>3, <1>4, <1>5

\* Setting calls last is setting it first.
LEMMA CallsReplaced ==
    ASSUME NEW s \in State, NEW before, NEW after, NEW epoch, NEW sent, NEW nil, NEW v,
           NEW decision, NEW foreign, NEW doubled, NEW messages,
           NEW r, r = [s EXCEPT !.calls = before, !.epoch = epoch, !.binaryValues = <<>>,
                                !.sentBinaryValue = sent, !.recvBinaryValue = nil,
                                !.recvAux = nil, !.estimated = v, !.decision = decision,
                                !.foreign = foreign, !.doubled = doubled, !.messages = messages]
    PROVE  [r EXCEPT !.calls = after] =
             [s EXCEPT !.calls = after, !.epoch = epoch, !.binaryValues = <<>>,
                       !.sentBinaryValue = sent, !.recvBinaryValue = nil, !.recvAux = nil,
                       !.estimated = v, !.decision = decision, !.foreign = foreign,
                       !.doubled = doubled, !.messages = messages]
BY DEF State

\* Nor does it matter that an AUX was counted when an epoch ends.
LEMMA EpochReplaced ==
    ASSUME NEW s \in State, NEW calls, NEW recv, NEW epoch, NEW nil, NEW v, NEW decision,
           NEW foreign, NEW doubled,
           NEW u, u = [s EXCEPT !.calls = calls, !.recvAux = recv]
    PROVE  [u EXCEPT !.binaryValues = <<>>, !.sentBinaryValue = {}, !.recvBinaryValue = nil,
                     !.recvAux = nil, !.epoch = epoch, !.estimated = v, !.decision = decision,
                     !.foreign = foreign, !.doubled = doubled] =
             [s EXCEPT !.calls = calls, !.epoch = epoch, !.binaryValues = <<>>,
                       !.sentBinaryValue = {}, !.recvBinaryValue = nil, !.recvAux = nil,
                       !.estimated = v, !.decision = decision, !.foreign = foreign,
                       !.doubled = doubled]
BY DEF State

LEMMA AuxOutcome ==
    ASSUME NEW s \in State, NEW i \in Live, NEW m \in Msgs, s.calls # <<>>,
           m # EndOfReplay, m.epoch = s.epoch, m.kind = "AUX",
           NEW r, r = HandleAuxRequest([s EXCEPT !.calls = Tail(s.calls)], i, m.from, m.val)
    PROVE  Outcome(s, r, i, m)
<1> DEFINE t == [s EXCEPT !.calls = Tail(s.calls)]
           u == [t EXCEPT !.recvAux[m.from] = m.val]
           w == WithAux(s, m)
<1>1. u = [s EXCEPT !.calls = Tail(s.calls), !.recvAux = [s.recvAux EXCEPT ![m.from] = m.val]]
  BY DEF State
<1>2. /\ u.binaryValues = w.binaryValues /\ u.recvAux = w.recvAux /\ u.epoch = w.epoch
      /\ u.decision = w.decision
  BY <1>1 DEF State, WithAux
<1>3. /\ AuxComplete(u) <=> AuxComplete(w)
      /\ Foreign(u) <=> Foreign(w)
      /\ Outputs(u) = Outputs(w)
  BY <1>2 DEF AuxComplete, Foreign, Outputs
<1>4. \A v : Single(u, v) <=> Single(w, v)
  BY <1>2, <1>3 DEF Single
<1>5. Doubled(u) <=> Doubled(w)
  BY <1>2, <1>3 DEF Doubled
<1> HIDE DEF u, w
<1>6. Estimate(u) = Estimate(w) /\ Decide(u) = Decide(w)
  <2>1. Singles(u) = Singles(w)
    BY <1>4 DEF Singles
  <2>2. Estimate(u) = Estimate(w)
    BY <1>2, <2>1 DEF Estimate
  <2>3. Decide(u) = Decide(w)
    BY <1>2, <1>4 DEF Decide
  <2> QED BY <2>2, <2>3
<1>7. r = IF ~AuxComplete(u) THEN u
          ELSE IF u.done \/ u.decision = Coin(u.epoch) THEN [u EXCEPT !.done = TRUE]
          ELSE Call(EnterEpoch(u, i), u.delayedMessages \o <<EndOfReplay>>)
  BY DEF HandleAuxRequest, u
<1>8. CASE ~AuxComplete(u)
  <2>1. r = [s EXCEPT !.calls = Tail(s.calls),
                      !.recvAux = [s.recvAux EXCEPT ![m.from] = m.val], !.done = s.done]
    BY <1>1, <1>7, <1>8 DEF State
  <2>2. s.done \in BOOLEAN
    BY DEF State
  <2>3. CountsAux(s, r, m)
    BY <2>1, <2>2 DEF CountsAux, Current
  <2> QED BY <2>3 DEF Outcome
<1>9. CASE AuxComplete(u) /\ (u.done \/ u.decision = Coin(u.epoch))
  <2>1. r = [s EXCEPT !.calls = Tail(s.calls),
                      !.recvAux = [s.recvAux EXCEPT ![m.from] = m.val], !.done = TRUE]
    BY <1>1, <1>7, <1>9 DEF State
  <2>2. CountsAux(s, r, m)
    BY <2>1 DEF CountsAux, Current
  <2> QED BY <2>2 DEF Outcome
<1>10. CASE AuxComplete(u) /\ ~(u.done \/ u.decision = Coin(u.epoch))
  <2> DEFINE v == Estimate(w)
             n == NextEpoch(u)
  <2>1. n = [s EXCEPT !.calls = Tail(s.calls), !.epoch = s.epoch + 1, !.binaryValues = <<>>,
                      !.sentBinaryValue = {},
                      !.recvBinaryValue = [j \in Validators |-> None],
                      !.recvAux = [j \in Validators |-> None],
                      !.estimated = v, !.decision = Decide(w),
                      !.foreign = Ended(s.foreign, s, Foreign(w)),
                      !.doubled = Ended(s.doubled, s, Doubled(w))]
    <3>1. n = [s EXCEPT !.calls = Tail(s.calls), !.epoch = s.epoch + 1, !.binaryValues = <<>>,
                        !.sentBinaryValue = {},
                        !.recvBinaryValue = [j \in Validators |-> None],
                        !.recvAux = [j \in Validators |-> None],
                        !.estimated = v, !.decision = Decide(w),
                        !.foreign = Ended(s.foreign, u, Foreign(w)),
                        !.doubled = Ended(s.doubled, u, Doubled(w))]
      <4>1. /\ u.epoch = s.epoch /\ u.foreign = s.foreign /\ u.doubled = s.doubled
            /\ u.calls = Tail(s.calls) /\ u.done = s.done /\ u.messages = s.messages
            /\ u.delayedMessages = s.delayedMessages
        BY <1>1 DEF State
      <4>2. Estimate(u) = v /\ Decide(u) = Decide(w)
        BY <1>6
      <4>3. Ended(u.foreign, u, Foreign(u)) = Ended(s.foreign, u, Foreign(w))
        BY <1>3, <4>1 DEF Ended
      <4>4. Ended(u.doubled, u, Doubled(u)) = Ended(s.doubled, u, Doubled(w))
        BY <1>5, <4>1 DEF Ended
      <4> DEFINE nil == [j \in Validators |-> None]
                 f == Ended(s.foreign, u, Foreign(w))
                 d == Ended(s.doubled, u, Doubled(w))
                 c == Tail(s.calls)
                 x == s.epoch + 1
                 z == Decide(w)
                 recv == [s.recvAux EXCEPT ![m.from] = m.val]
      <4>5. n = [u EXCEPT !.binaryValues = <<>>, !.sentBinaryValue = {},
                          !.recvBinaryValue = nil, !.recvAux = nil, !.epoch = x,
                          !.estimated = v, !.decision = z, !.foreign = f, !.doubled = d]
        BY <4>1, <4>2, <4>3, <4>4 DEF NextEpoch
      <4>6. u = [s EXCEPT !.calls = c, !.recvAux = recv]
        BY <1>1, Zenon
      <4> HIDE DEF v, nil, f, d, c, x, z, recv
      <4>7. n = [s EXCEPT !.calls = c, !.epoch = x, !.binaryValues = <<>>, !.sentBinaryValue = {},
                          !.recvBinaryValue = nil, !.recvAux = nil, !.estimated = v,
                          !.decision = z, !.foreign = f, !.doubled = d]
        BY <4>5, <4>6, EpochReplaced
      <4> QED BY <4>7 DEF nil, f, d, c, x, z
    <3>2. u.epoch = s.epoch
      BY <1>1 DEF State
    <3> QED BY <3>1, <3>2 DEF Ended
  <2> HIDE DEF v, n
  <2>2. r = Call(SendBVal(n, i, v), s.delayedMessages \o <<EndOfReplay>>)
    <3>1. u.delayedMessages = s.delayedMessages
      BY <1>1 DEF State
    <3> QED BY <1>6, <1>7, <1>10, <3>1 DEF EnterEpoch, v, n
  <2> DEFINE next == [s EXCEPT !.epoch = s.epoch + 1]
  <2>3. Message(i, n, "BVAL", v) = Message(i, next, "BVAL", v)
    <3>1. n.epoch = s.epoch + 1 /\ next.epoch = s.epoch + 1
      BY <2>1 DEF State
    <3> QED BY <3>1 DEF Message
  <2> HIDE DEF next
  <2>4. r = [s EXCEPT !.calls = (s.delayedMessages \o <<EndOfReplay>>) \o Tail(s.calls),
                      !.epoch = s.epoch + 1, !.binaryValues = <<>>,
                      !.sentBinaryValue = {v},
                      !.recvBinaryValue = [j \in Validators |-> None],
                      !.recvAux = [j \in Validators |-> None],
                      !.estimated = v, !.decision = Decide(w),
                      !.foreign = Ended(s.foreign, s, Foreign(w)),
                      !.doubled = Ended(s.doubled, s, Doubled(w)),
                      !.messages = s.messages \cup {Message(i, next, "BVAL", v)}]
    <3> DEFINE mine == Message(i, next, "BVAL", v)
               own == Message(i, n, "BVAL", v)
               f == Ended(s.foreign, s, Foreign(w))
               d == Ended(s.doubled, s, Doubled(w))
               dec == Decide(w)
               nil == [j \in Validators |-> None]
    <3> HIDE DEF mine, own, f, d, dec, nil
    <3>0. n.sentBinaryValue = {} /\ n.sentBinaryValue \cup {v} = {v} /\ n.messages = s.messages
      BY <2>1 DEF State
    <3>1. SendBVal(n, i, v) = [[n EXCEPT !.sentBinaryValue = n.sentBinaryValue \cup {v}]
                                 EXCEPT !.messages = @ \cup {own}]
      BY DEF SendBVal, AddMessage, own
    <3>2. own = mine
      BY <2>3 DEF own, mine
    <3>3. n = [s EXCEPT !.calls = Tail(s.calls), !.epoch = s.epoch + 1, !.binaryValues = <<>>,
                        !.sentBinaryValue = {}, !.recvBinaryValue = nil, !.recvAux = nil,
                        !.estimated = v, !.decision = dec, !.foreign = f, !.doubled = d]
      BY <2>1 DEF f, d, dec, nil
    <3>4. SendBVal(n, i, v) =
            [s EXCEPT !.calls = Tail(s.calls), !.epoch = s.epoch + 1, !.binaryValues = <<>>,
                      !.sentBinaryValue = {v}, !.recvBinaryValue = nil, !.recvAux = nil,
                      !.estimated = v, !.decision = dec, !.foreign = f, !.doubled = d,
                      !.messages = s.messages \cup {mine}]
      <4>1. SendBVal(n, i, v) = [n EXCEPT !.sentBinaryValue = {v},
                                          !.messages = s.messages \cup {mine}]
        BY <3>0, <3>1, <3>2, <3>3 DEF State
      <4> QED BY <4>1, <3>3 DEF State
    <3>5. r = [s EXCEPT !.calls = (s.delayedMessages \o <<EndOfReplay>>) \o Tail(s.calls),
                        !.epoch = s.epoch + 1, !.binaryValues = <<>>, !.sentBinaryValue = {v},
                        !.recvBinaryValue = nil, !.recvAux = nil,
                        !.estimated = v, !.decision = dec, !.foreign = f, !.doubled = d,
                        !.messages = s.messages \cup {mine}]
      <4> DEFINE sentOff == SendBVal(n, i, v)
                 replay == s.delayedMessages \o <<EndOfReplay>>
      <4>1. sentOff.calls = Tail(s.calls)
        BY <3>4 DEF State
      <4> HIDE DEF replay
      <4>2. r = [sentOff EXCEPT !.calls = replay \o Tail(s.calls)]
        BY <2>2, <4>1 DEF Call, replay
      <4>3. r = [s EXCEPT !.calls = replay \o Tail(s.calls),
                          !.epoch = s.epoch + 1, !.binaryValues = <<>>, !.sentBinaryValue = {v},
                          !.recvBinaryValue = nil, !.recvAux = nil,
                          !.estimated = v, !.decision = dec, !.foreign = f, !.doubled = d,
                          !.messages = s.messages \cup {mine}]
        BY <3>4, <4>2, CallsReplaced
      <4> QED BY <4>3 DEF replay
    <3> QED BY <3>5 DEF f, d, dec, mine, nil
  <2>5. Leaves(s, r, i, m)
    BY <1>3, <1>10, <2>4 DEF Leaves, Current, v, w, next
  <2> QED BY <2>5 DEF Outcome
<1> QED BY <1>8, <1>9, <1>10

LEMMA HandleOutcome ==
    ASSUME NEW s \in State, NEW i \in Live, s.calls # <<>>
    PROVE  Outcome(s, Handle(s, i), i, Head(s.calls))
<1> DEFINE m == Head(s.calls)
           t == [s EXCEPT !.calls = Tail(s.calls)]
           r == Handle(s, i)
<1>1. m \in Calls
  BY CallsType
<1>2. t.epoch = s.epoch /\ t.done = s.done /\ t.delayedMessages = s.delayedMessages
  BY DEF State
<1>3. r = IF m = EndOfReplay THEN [t EXCEPT !.delayedMessages = <<>>] ELSE HandleRequest(t, i, m)
  BY DEF Handle
<1> HIDE DEF m, r
<1>4. CASE m = EndOfReplay
  <2>1. EndsReplay(s, r, m)
    BY <1>3, <1>4 DEF EndsReplay, State
  <2> QED BY <2>1 DEF Outcome, m, r
<1>5. CASE m # EndOfReplay
  <2>1. m \in Msgs /\ m.epoch \in Nat /\ m.kind \in {"BVAL", "AUX"} /\ s.epoch \in Nat
    BY <1>1, <1>5 DEF Calls, Msgs, State
  <2>2. r = HandleRequest(t, i, m)
    BY <1>3, <1>5
  <2>3. CASE s.done \/ m.epoch < s.epoch
    <3>1. Ignores(s, r, m)
      BY <1>2, <1>5, <2>2, <2>3 DEF Ignores, HandleRequest
    <3> QED BY <3>1 DEF Outcome, m, r
  <2>4. CASE ~(s.done \/ m.epoch < s.epoch) /\ m.epoch > s.epoch
    <3>1. Delays(s, r, m)
      BY <1>2, <1>5, <2>2, <2>4 DEF Delays, HandleRequest, State
    <3> QED BY <3>1 DEF Outcome, m, r
  <2>5. CASE ~(s.done \/ m.epoch < s.epoch) /\ ~(m.epoch > s.epoch)
    <3>1. m.epoch = s.epoch
      BY <2>1, <2>5
    <3>2. CASE m.kind = "BVAL"
      <4>1. r = HandleBinaryValueRequest(t, i, m.from, m.val)
        BY <1>2, <2>2, <2>5, <3>2 DEF HandleRequest
      <4> QED BY <1>5, <2>1, <3>1, <3>2, <4>1, BValOutcome DEF m, r
    <3>3. CASE m.kind = "AUX"
      <4>1. r = HandleAuxRequest(t, i, m.from, m.val)
        BY <1>2, <2>2, <2>5, <3>3 DEF HandleRequest
      <4> QED BY <1>5, <2>1, <3>1, <3>3, <4>1, AuxOutcome DEF m, r
    <3> QED BY <2>1, <3>2, <3>3
  <2> QED BY <2>3, <2>4, <2>5
<1> QED BY <1>4, <1>5
-----------------------------------------------------------------------------
(* Sequences as sets. *)

LEMMA TailSet ==
    ASSUME NEW S, NEW q \in Seq(S), q # <<>>
    PROVE  ToSet(Tail(q)) \subseteq ToSet(q) /\ Head(q) \in ToSet(q) /\ Tail(q) \in Seq(S)
BY DEF ToSet

LEMMA AppendSet ==
    ASSUME NEW S, NEW q \in Seq(S), NEW x \in S
    PROVE  ToSet(Append(q, x)) = ToSet(q) \cup {x} /\ Append(q, x) \in Seq(S)
<1>1. Len(Append(q, x)) = Len(q) + 1 /\ Append(q, x) \in Seq(S)
  OBVIOUS
<1>2. \A k \in 1..Len(q) : Append(q, x)[k] = q[k]
  OBVIOUS
<1>3. Append(q, x)[Len(q) + 1] = x
  OBVIOUS
<1> DEFINE r == Append(q, x)
<1>4. DOMAIN r = 1..Len(q) + 1 /\ DOMAIN q = 1..Len(q) /\ Len(q) \in Nat
  BY <1>1
<1> HIDE DEF r
<1> QED BY <1>1, <1>2, <1>3, <1>4 DEF ToSet, r

LEMMA ConcatSet ==
    ASSUME NEW S, NEW p \in Seq(S), NEW q \in Seq(S)
    PROVE  ToSet(p \o q) = ToSet(p) \cup ToSet(q) /\ p \o q \in Seq(S)
<1> DEFINE r == p \o q
<1>1. Len(r) = Len(p) + Len(q) /\ r \in Seq(S)
  OBVIOUS
<1>2. \A k \in 1..Len(p) : r[k] = p[k]
  OBVIOUS
<1>3. \A k \in 1..Len(q) : r[Len(p) + k] = q[k]
  OBVIOUS
<1>4. /\ DOMAIN r = 1..Len(p) + Len(q) /\ DOMAIN p = 1..Len(p) /\ DOMAIN q = 1..Len(q)
      /\ Len(p) \in Nat /\ Len(q) \in Nat
  BY <1>1
<1> HIDE DEF r
<1>5. ASSUME NEW k \in 1..Len(p) + Len(q) PROVE r[k] \in ToSet(p) \cup ToSet(q)
  <2>1. CASE k <= Len(p)
    BY <1>2, <1>4, <2>1 DEF ToSet
  <2>2. CASE k > Len(p)
    <3>1. k - Len(p) \in 1..Len(q) /\ k = Len(p) + (k - Len(p))
      BY <1>4, <2>2
    <3>2. r[k] = q[k - Len(p)]
      BY <1>3, <3>1
    <3> QED BY <1>4, <3>1, <3>2 DEF ToSet
  <2> QED BY <1>4, <2>1, <2>2
<1>6. ASSUME NEW k \in 1..Len(q) PROVE q[k] \in ToSet(r)
  BY <1>3, <1>4 DEF ToSet
<1>7. ASSUME NEW k \in 1..Len(p) PROVE p[k] \in ToSet(r)
  BY <1>2, <1>4 DEF ToSet
<1> QED BY <1>1, <1>4, <1>5, <1>6, <1>7 DEF ToSet, r

LEMMA PushSet ==
    ASSUME NEW S, NEW q \in Seq(S), NEW x \in S
    PROVE  ToSet(<<x>> \o q) = ToSet(q) \cup {x} /\ <<x>> \o q \in Seq(S)
<1> DEFINE one == <<x>>
<1>1. one \in Seq(S) /\ ToSet(one) = {x}
  BY DEF ToSet
<1> HIDE DEF one
<1>2. ToSet(one \o q) = ToSet(one) \cup ToSet(q) /\ one \o q \in Seq(S)
  BY <1>1, ConcatSet
<1> QED BY <1>1, <1>2 DEF one

LEMMA ReplaySet ==
    ASSUME NEW p \in Seq(Msgs), NEW q \in Seq(Calls)
    PROVE  /\ ToSet((p \o <<EndOfReplay>>) \o q) = ToSet(p) \cup {EndOfReplay} \cup ToSet(q)
           /\ (p \o <<EndOfReplay>>) \o q \in Seq(Calls)
<1> DEFINE mark == <<EndOfReplay>>
           front == p \o mark
<1>1. p \in Seq(Calls) /\ EndOfReplay \in Calls
  BY DEF Calls
<1>2. mark \in Seq(Calls) /\ ToSet(mark) = {EndOfReplay}
  BY <1>1 DEF ToSet
<1> HIDE DEF mark
<1>3. front \in Seq(Calls) /\ ToSet(front) = ToSet(p) \cup ToSet(mark)
  BY <1>1, <1>2, ConcatSet
<1> HIDE DEF front
<1>4. front \o q \in Seq(Calls) /\ ToSet(front \o q) = ToSet(front) \cup ToSet(q)
  BY <1>3, ConcatSet
<1> QED BY <1>2, <1>3, <1>4 DEF front, mark

LEMMA WithAuxType ==
    ASSUME NEW s \in State, NEW m \in Msgs
    PROVE  /\ WithAux(s, m) \in State
           /\ WithAux(s, m).recvAux = [s.recvAux EXCEPT ![m.from] = m.val]
           /\ WithAux(s, m).binaryValues = s.binaryValues
           /\ WithAux(s, m).epoch = s.epoch
           /\ WithAux(s, m).decision = s.decision
BY DEF WithAux, State, Msgs, Opt, Live

LEMMA RecvType ==
    ASSUME NEW recv \in [Validators -> Opt], NEW m \in Msgs
    PROVE  /\ [recv EXCEPT ![m.from] = m.val] \in [Validators -> Opt]
           /\ [j \in Validators |-> None] \in [Validators -> Opt]
BY DEF Msgs, Opt

LEMMA OutcomeType ==
    ASSUME NEW s \in State, NEW i \in Live, s.calls # <<>>, NEW r,
           Outcome(s, r, i, Head(s.calls))
    PROVE  r \in State
<1> DEFINE m == Head(s.calls)
<1>1. m \in Calls /\ Tail(s.calls) \in Seq(Calls)
  BY CallsType
<1> HIDE DEF m
<1>2. m # EndOfReplay => m \in Msgs /\ m.val \in Values /\ m.epoch \in Nat
  BY <1>1 DEF Calls, Msgs
<1>3. CASE Ignores(s, r, m)
  BY <1>1, <1>3 DEF Ignores, State
<1>4. CASE Delays(s, r, m)
  <2>1. Append(s.delayedMessages, m) \in Seq(Msgs)
    BY <1>2, <1>4 DEF Delays, State
  <2> QED BY <1>1, <1>4, <2>1 DEF Delays, State
<1>5. CASE EndsReplay(s, r, m)
  <2>1. <<>> \in Seq(Msgs)
    OBVIOUS
  <2> QED BY <1>1, <1>5, <2>1 DEF EndsReplay, State
<1> DEFINE recv == [s.recvBinaryValue EXCEPT ![m.from] = m.val]
           aux == [s.recvAux EXCEPT ![m.from] = m.val]
           nil == [j \in Validators |-> None]
<1>6. m # EndOfReplay => recv \in [Validators -> Opt] /\ aux \in [Validators -> Opt]
  BY <1>2, RecvType DEF State
<1>7. nil \in [Validators -> Opt]
  BY DEF Opt
<1>8. m # EndOfReplay =>
         /\ Message(i, s, "BVAL", m.val) \in Msgs /\ Message(i, s, "AUX", m.val) \in Msgs
         /\ <<Message(i, s, "BVAL", m.val)>> \o Tail(s.calls) \in Seq(Calls)
         /\ <<Message(i, s, "AUX", m.val)>> \o Tail(s.calls) \in Seq(Calls)
  <2> SUFFICES ASSUME m # EndOfReplay
               PROVE  /\ Message(i, s, "BVAL", m.val) \in Msgs
                      /\ Message(i, s, "AUX", m.val) \in Msgs
                      /\ <<Message(i, s, "BVAL", m.val)>> \o Tail(s.calls) \in Seq(Calls)
                      /\ <<Message(i, s, "AUX", m.val)>> \o Tail(s.calls) \in Seq(Calls)
    OBVIOUS
  <2>1. /\ Message(i, s, "BVAL", m.val) \in Msgs
        /\ Message(i, s, "AUX", m.val) \in Msgs
    BY <1>2, MessageType
  <2>2. /\ Message(i, s, "BVAL", m.val) \in Calls
        /\ Message(i, s, "AUX", m.val) \in Calls
    BY <2>1 DEF Calls
  <2> QED BY <1>1, <2>1, <2>2, PushSet
<1>9. m # EndOfReplay => Append(s.binaryValues, m.val) \in Seq(Values)
  BY <1>2 DEF State
<1> HIDE DEF recv, aux, nil
<1>10. CASE Counts(s, r, m)
  BY <1>1, <1>6, <1>10 DEF Counts, Current, State, recv
<1>11. CASE Echoes(s, r, i, m)
  BY <1>2, <1>6, <1>8, <1>11 DEF Echoes, Current, State, recv
<1>12. CASE Accepts(s, r, m)
  BY <1>1, <1>6, <1>9, <1>12 DEF Accepts, Current, State, recv
<1>13. CASE AcceptsFirst(s, r, i, m)
  BY <1>6, <1>8, <1>9, <1>13 DEF AcceptsFirst, Current, State, recv
<1>14. CASE CountsAux(s, r, m)
  BY <1>1, <1>6, <1>14 DEF CountsAux, Current, State, aux
<1>15. CASE Leaves(s, r, i, m)
  <2> DEFINE t == WithAux(s, m)
             next == [s EXCEPT !.epoch = s.epoch + 1]
             v == Estimate(t)
             c == (s.delayedMessages \o <<EndOfReplay>>) \o Tail(s.calls)
             f == Ended(s.foreign, s, Foreign(t))
             d == Ended(s.doubled, s, Doubled(t))
             own == Message(i, next, "BVAL", v)
  <2>1. t \in State
    BY <1>2, <1>15, WithAuxType DEF Leaves, Current
  <2>2. v \in Values /\ Decide(t) \in Opt
    BY <2>1, EstimateIs, DecideIs
  <2>3. f \in SUBSET Nat /\ d \in SUBSET Nat
    <3>1. s.foreign \in SUBSET Nat /\ s.doubled \in SUBSET Nat /\ s.epoch \in Nat
      BY DEF State
    <3> HIDE DEF t
    <3> QED BY <3>1 DEF Ended
  <2>4. c \in Seq(Calls)
    BY <1>1, ReplaySet DEF State
  <2> DEFINE e == s.epoch + 1
  <2>9. e \in Nat
    BY DEF State
  <2> HIDE DEF e
  <2>5. next \in State
    <3>1. next = [s EXCEPT !.epoch = e]
      BY DEF e
    <3> QED BY <2>9, <3>1 DEF State
  <2> HIDE DEF t, next, v, c, f, d
  <2>6. own \in Msgs
    BY <2>2, <2>5, MessageType
  <2> HIDE DEF own
  <2>7. r = [s EXCEPT !.calls = c, !.epoch = e, !.binaryValues = <<>>,
                      !.sentBinaryValue = {v}, !.recvBinaryValue = nil, !.recvAux = nil,
                      !.estimated = v, !.decision = Decide(t), !.foreign = f, !.doubled = d,
                      !.messages = s.messages \cup {own}]
    BY <1>15 DEF Leaves, nil, t, next, v, c, f, d, own, e
  <2>8. <<>> \in Seq(Values) /\ v \in Opt
    BY <2>2 DEF Opt
  <2> QED BY <1>7, <2>2, <2>3, <2>4, <2>6, <2>7, <2>8, <2>9 DEF State
<1> QED BY <1>3, <1>4, <1>5, <1>10, <1>11, <1>12, <1>13, <1>14, <1>15 DEF Outcome, m
-----------------------------------------------------------------------------
(* What every validator has ever estimated and sent as AUX, epoch by epoch: *)
(* est and aux are not part of the state, the invariant says they exist.   *)

Record == [Live -> [Nat -> Opt]]

Quorum(Q) == Q \subseteq Live /\ Cardinality(Q) >= N - F

\* v was somebody's estimate in epoch e.
Known(est, e, v) == \E j \in Live : est[j][e] = v

MessageOK(m, est, aux) ==
    /\ m.kind = "BVAL" => Known(est, m.epoch, m.val)
    /\ m.kind = "AUX" => aux[m.from][m.epoch] = m.val

MessagesOK(s, est, aux) ==
    /\ \A m \in s.messages : MessageOK(m, est, aux)
    /\ \A m \in ToSet(s.delayedMessages) : MessageOK(m, est, aux)
    /\ \A m \in ToSet(s.calls) : m = EndOfReplay \/ MessageOK(m, est, aux)

ValuesOK(s, i, est, aux) ==
    /\ \A k \in DOMAIN s.binaryValues : Known(est, s.epoch, s.binaryValues[k])
    /\ \A j \in Validators :
          s.recvAux[j] = None \/ (j \in Live /\ aux[j][s.epoch] = s.recvAux[j])
    /\ aux[i][s.epoch] = None <=> s.binaryValues = <<>>
    /\ est[i][s.epoch] = s.estimated
    /\ \A e \in Nat : e > s.epoch => est[i][e] = None /\ aux[i][e] = None

\* What an epoch ends with: the value of a quorum of AUX or the coin, unless
\* something was miscounted.
Follows(s, est, aux, e, v) ==
    /\ v \in Values
    /\ Known(est, e, v) \/ e \in s.doubled
    /\ \/ e \in s.foreign \/ e \in s.doubled \/ v = Coin(e)
       \/ \E Q : Quorum(Q) /\ \A k \in Q : aux[k][e] = v

EstimatesOK(s, i, est, aux) ==
    \A e \in Nat : e < s.epoch => Follows(s, est, aux, e, est[i][e + 1])

DecidedIn(s, aux, e, v) ==
    /\ v = Coin(e)
    /\ \E k \in Live : aux[k][e] = v
    /\ \/ e \in s.foreign
       \/ \E Q : Quorum(Q) /\ \A k \in Q : aux[k][e] = v

DecisionOK(s, aux) == s.decision = None \/ \E e \in Nat : DecidedIn(s, aux, e, s.decision)

NodeOK(s, i, est, aux) ==
    /\ s \in State
    /\ MessagesOK(s, est, aux) /\ ValuesOK(s, i, est, aux)
    /\ EstimatesOK(s, i, est, aux) /\ DecisionOK(s, aux)

RecordsOK(est, aux) ==
    /\ est \in Record /\ aux \in Record
    /\ \A j \in Live : \A e \in Nat : aux[j][e] = None \/ Known(est, e, aux[j][e])

\* One more entry at i.
Extends(rec, new, i) ==
    /\ new \in Record
    /\ \A j \in Live : \A e \in Nat : rec[j][e] = None \/ new[j][e] = rec[j][e]
    /\ \A j \in Live : j # i => new[j] = rec[j]

-----------------------------------------------------------------------------
(* What is known stays known. *)

LEMMA NoneIsNoValue == None \notin Values
BY SettingsAssumption

LEMMA KnownStays ==
    ASSUME NEW est, NEW new, NEW i, Extends(est, new, i), NEW e \in Nat, NEW v \in Values,
           Known(est, e, v)
    PROVE  Known(new, e, v)
BY NoneIsNoValue DEF Extends, Known

LEMMA EntryStays ==
    ASSUME NEW aux, NEW new, NEW i, Extends(aux, new, i), NEW e \in Nat, NEW v \in Values,
           NEW k \in Live, aux[k][e] = v
    PROVE  new[k][e] = v
BY NoneIsNoValue DEF Extends

LEMMA MessageStays ==
    ASSUME NEW est, NEW est2, NEW aux, NEW aux2, NEW i, Extends(est, est2, i),
           Extends(aux, aux2, i), NEW m \in Msgs, MessageOK(m, est, aux)
    PROVE  MessageOK(m, est2, aux2)
<1>1. m.epoch \in Nat /\ m.val \in Values /\ m.from \in Live
  BY DEF Msgs
<1>2. m.kind = "BVAL" => Known(est2, m.epoch, m.val)
  BY <1>1, KnownStays DEF MessageOK
<1>3. m.kind = "AUX" => aux2[m.from][m.epoch] = m.val
  BY <1>1, EntryStays DEF MessageOK
<1> QED BY <1>2, <1>3 DEF MessageOK

LEMMA MessagesStay ==
    ASSUME NEW est, NEW est2, NEW aux, NEW aux2, NEW i, Extends(est, est2, i),
           Extends(aux, aux2, i), NEW s \in State, MessagesOK(s, est, aux)
    PROVE  MessagesOK(s, est2, aux2)
<1>1. s.messages \subseteq Msgs /\ s.delayedMessages \in Seq(Msgs) /\ s.calls \in Seq(Calls)
  BY DEF State
<1>2. ToSet(s.delayedMessages) \subseteq Msgs
  BY <1>1 DEF ToSet
<1>3. ToSet(s.calls) \subseteq Calls
  BY <1>1 DEF ToSet
<1>4. ASSUME NEW m \in ToSet(s.calls) PROVE m = EndOfReplay \/ MessageOK(m, est2, aux2)
  BY <1>3, MessageStays DEF Calls, MessagesOK
<1> QED BY <1>1, <1>2, <1>4, MessageStays DEF MessagesOK

LEMMA QuorumStays ==
    ASSUME NEW aux, NEW aux2, NEW i, Extends(aux, aux2, i), NEW e \in Nat, NEW v \in Values,
           \E Q : Quorum(Q) /\ \A k \in Q : aux[k][e] = v
    PROVE  \E Q : Quorum(Q) /\ \A k \in Q : aux2[k][e] = v
BY EntryStays DEF Quorum

LEMMA FollowsStays ==
    ASSUME NEW est, NEW est2, NEW aux, NEW aux2, NEW i, Extends(est, est2, i),
           Extends(aux, aux2, i), NEW s, NEW r, s.foreign \subseteq r.foreign,
           s.doubled \subseteq r.doubled, NEW e \in Nat, NEW v, Follows(s, est, aux, e, v)
    PROVE  Follows(r, est2, aux2, e, v)
<1>1. v \in Values
  BY DEF Follows
<1>2. Known(est2, e, v) \/ e \in r.doubled
  BY <1>1, KnownStays DEF Follows
<1>3. CASE \E Q : Quorum(Q) /\ \A k \in Q : aux[k][e] = v
  <2>1. \E Q : Quorum(Q) /\ \A k \in Q : aux2[k][e] = v
    BY <1>1, <1>3, QuorumStays
  <2> QED BY <1>1, <1>2, <2>1 DEF Follows
<1>4. CASE e \in s.foreign \/ e \in s.doubled \/ v = Coin(e)
  BY <1>1, <1>2, <1>4 DEF Follows
<1> QED BY <1>3, <1>4 DEF Follows

LEMMA DecisionStays ==
    ASSUME NEW aux, NEW aux2, NEW i, Extends(aux, aux2, i), NEW s \in State, NEW r,
           s.foreign \subseteq r.foreign, r.decision = s.decision, DecisionOK(s, aux)
    PROVE  DecisionOK(r, aux2)
<1>1. CASE s.decision = None
  BY <1>1 DEF DecisionOK
<1>2. CASE s.decision # None
  <2> DEFINE v == s.decision
  <2>1. v \in Values
    BY <1>2 DEF State, Opt
  <2>2. PICK e \in Nat : DecidedIn(s, aux, e, v)
    BY <1>2 DEF DecisionOK
  <2> HIDE DEF v
  <2>3. \E k \in Live : aux2[k][e] = v
    BY <2>1, <2>2, EntryStays DEF DecidedIn
  <2>4. e \in r.foreign \/ \E Q : Quorum(Q) /\ \A k \in Q : aux2[k][e] = v
    BY <2>1, <2>2, QuorumStays DEF DecidedIn
  <2>5. DecidedIn(r, aux2, e, v)
    BY <2>2, <2>3, <2>4 DEF DecidedIn
  <2> QED BY <2>5 DEF DecisionOK, v
<1> QED BY <1>1, <1>2

\* A step of i leaves the others as they were.
LEMMA OthersStay ==
    ASSUME NEW est, NEW est2, NEW aux, NEW aux2, NEW i, Extends(est, est2, i),
           Extends(aux, aux2, i), NEW j \in Live, j # i, NEW s, NodeOK(s, j, est, aux)
    PROVE  NodeOK(s, j, est2, aux2)
<1>1. s \in State /\ s.epoch \in Nat
  BY DEF NodeOK, State
<1>2. est2[j] = est[j] /\ aux2[j] = aux[j]
  BY DEF Extends
<1>3. MessagesOK(s, est2, aux2)
  BY <1>1, MessagesStay DEF NodeOK
<1>4. ASSUME NEW k \in DOMAIN s.binaryValues PROVE Known(est2, s.epoch, s.binaryValues[k])
  <2>1. s.binaryValues[k] \in Values
    BY <1>1 DEF State
  <2> QED BY <1>1, <2>1, KnownStays DEF NodeOK, ValuesOK
<1>5. ASSUME NEW k \in Validators, s.recvAux[k] # None
      PROVE  k \in Live /\ aux2[k][s.epoch] = s.recvAux[k]
  <2>1. s.recvAux[k] \in Values
    BY <1>1, <1>5 DEF State, Opt
  <2> QED BY <1>1, <1>5, <2>1, EntryStays DEF NodeOK, ValuesOK
<1>6. ValuesOK(s, j, est2, aux2)
  BY <1>2, <1>4, <1>5 DEF NodeOK, ValuesOK
<1>7. EstimatesOK(s, j, est2, aux2)
  <2> SUFFICES ASSUME NEW e \in Nat, e < s.epoch PROVE Follows(s, est2, aux2, e, est2[j][e + 1])
    BY DEF EstimatesOK
  <2>1. Follows(s, est, aux, e, est[j][e + 1])
    BY DEF NodeOK, EstimatesOK
  <2> QED BY <1>2, <2>1, FollowsStays
<1>8. DecisionOK(s, aux2)
  BY <1>1, DecisionStays DEF NodeOK
<1> QED BY <1>1, <1>3, <1>6, <1>7, <1>8 DEF NodeOK
-----------------------------------------------------------------------------
(* What an epoch ends with. *)

\* s has received what its senders recorded, and accepted what is known.
Received(s, est, aux) ==
    /\ s \in State
    /\ \A k \in DOMAIN s.binaryValues : Known(est, s.epoch, s.binaryValues[k])
    /\ \A j \in Validators :
          s.recvAux[j] = None \/ (j \in Live /\ aux[j][s.epoch] = s.recvAux[j])

LEMMA SettingFacts ==
    ASSUME IsFiniteSet(Validators), NEW i \in Live
    PROVE  /\ IsFiniteSet(Live) /\ N \in Nat /\ N >= 1 /\ F \in Nat
           /\ 3 * F < N /\ N - F >= 1 /\ Cardinality(Live) <= N
<1>1. N \in Nat /\ Live \subseteq Validators /\ i \in Validators
  BY FS_CardinalityType DEF N, Live
<1>2. N # 0
  BY <1>1, FS_EmptySet DEF N
<1>3. IsFiniteSet(Live) /\ Cardinality(Live) <= N
  BY <1>1, FS_Subset DEF N
<1> QED BY <1>1, <1>2, <1>3 DEF F

LEMMA AuxQuorum ==
    ASSUME IsFiniteSet(Validators), NEW est, NEW aux, NEW s, Received(s, est, aux), AuxComplete(s)
    PROVE  Quorum({j \in Validators : s.recvAux[j] # None})
<1>1. {j \in Validators : s.recvAux[j] # None} = Validators \ Senders(s.recvAux, None)
  BY DEF Senders
<1>2. {j \in Validators : s.recvAux[j] # None} \subseteq Live
  BY DEF Received
<1> QED BY <1>1, <1>2 DEF AuxComplete, Quorum

LEMMA SingleMeans ==
    ASSUME IsFiniteSet(Validators), NEW est, NEW aux, NEW s, Received(s, est, aux),
           AuxComplete(s), NEW v \in Values, Single(s, v)
    PROVE  /\ Known(est, s.epoch, v)
           /\ \E k \in Live : aux[k][s.epoch] = v
           /\ ~Foreign(s) => \E Q : Quorum(Q) /\ \A k \in Q : aux[k][s.epoch] = v
<1> DEFINE Q == {j \in Validators : s.recvAux[j] # None}
<1>1. PICK k \in DOMAIN s.binaryValues : Outputs(s) = {k} /\ s.binaryValues[k] = v
  BY DEF Single
<1>2. Known(est, s.epoch, v)
  BY <1>1 DEF Received
<1>3. PICK j \in Validators : s.recvAux[j] = v
  BY <1>1 DEF Outputs
<1>4. j \in Live /\ aux[j][s.epoch] = v
  BY <1>3, NoneIsNoValue DEF Received
<1>5. ASSUME ~Foreign(s), NEW q \in Q PROVE aux[q][s.epoch] = v
  <2>1. s.recvAux[q] \in ToSet(s.binaryValues)
    BY <1>5 DEF Foreign
  <2>2. PICK l \in DOMAIN s.binaryValues : s.binaryValues[l] = s.recvAux[q]
    BY <2>1 DEF ToSet
  <2>3. l \in Outputs(s)
    BY <2>2 DEF Outputs
  <2>4. s.recvAux[q] = v
    BY <1>1, <2>2, <2>3
  <2> QED BY <2>4 DEF Received
<1>6. Quorum(Q)
  BY AuxQuorum
<1> HIDE DEF Q
<1> QED BY <1>2, <1>4, <1>5, <1>6

\* The coin is known when both values are, and there is one value at least.
LEMMA CoinKnown ==
    ASSUME IsFiniteSet(Validators), NEW i \in Live, NEW est, NEW aux, RecordsOK(est, aux), NEW s,
           Received(s, est, aux), AuxComplete(s), \A v \in Values : ~Single(s, v), ~Doubled(s),
           NEW v \in Values
    PROVE  Known(est, s.epoch, v)
<1> SUFFICES ASSUME ~Known(est, s.epoch, v) PROVE FALSE
  OBVIOUS
<1> DEFINE Q == {j \in Validators : s.recvAux[j] # None}
<1>1. s.epoch \in Nat /\ s.binaryValues \in Seq(Values) /\ s.binaryValues # <<>>
  BY DEF Received, State, AuxComplete
<1>2. PICK w \in Values : \A u \in Values : u # v => u = w
  BY DEF Values
<1>3. \A k \in DOMAIN s.binaryValues : s.binaryValues[k] = w
  <2> TAKE k \in DOMAIN s.binaryValues
  <2>1. s.binaryValues[k] \in Values /\ s.binaryValues[k] # v
    BY <1>1 DEF Received
  <2> QED BY <1>2, <2>1
<1>4. \E j \in Validators : s.recvAux[j] = w
  <2>1. Quorum(Q)
    BY AuxQuorum
  <2>2. Q # {}
    BY <2>1, SettingFacts, FS_EmptySet DEF Quorum
  <2>3. PICK j \in Validators : s.recvAux[j] # None
    BY <2>2
  <2>4. j \in Live /\ aux[j][s.epoch] = s.recvAux[j] /\ s.recvAux[j] \in Values
    BY <2>3 DEF Received, State, Opt
  <2>5. Known(est, s.epoch, s.recvAux[j])
    BY <1>1, <2>3, <2>4 DEF RecordsOK
  <2> QED BY <1>2, <2>4, <2>5
<1>5. Outputs(s) = DOMAIN s.binaryValues
  BY <1>3, <1>4 DEF Outputs
<1>6. 1 \in DOMAIN s.binaryValues
  BY <1>1
<1>7. CASE DOMAIN s.binaryValues = {1}
  <2>1. Single(s, w)
    BY <1>3, <1>5, <1>6, <1>7 DEF Single
  <2> QED BY <2>1
<1>8. CASE DOMAIN s.binaryValues # {1}
  <2>1. PICK k \in DOMAIN s.binaryValues : k # 1
    BY <1>6, <1>8
  <2>2. Doubled(s)
    BY <1>3, <1>5, <1>6, <2>1 DEF Doubled
  <2> QED BY <2>2
<1> QED BY <1>7, <1>8

LEMMA EstimateFollows ==
    ASSUME IsFiniteSet(Validators), NEW i \in Live, NEW est, NEW aux, RecordsOK(est, aux), NEW s,
           Received(s, est, aux), AuxComplete(s), NEW r,
           Foreign(s) => s.epoch \in r.foreign, Doubled(s) => s.epoch \in r.doubled
    PROVE  Follows(r, est, aux, s.epoch, Estimate(s))
<1> DEFINE v == Estimate(s)
<1>1. /\ v \in Values
      /\ Single(s, v) \/ (v = Coin(s.epoch) /\ \A u \in Values : ~Single(s, u))
  BY EstimateIs DEF Received
<1> HIDE DEF v
<1>2. CASE Single(s, v)
  BY <1>1, <1>2, SingleMeans DEF Follows, v
<1>3. CASE v = Coin(s.epoch) /\ \A u \in Values : ~Single(s, u)
  <2>1. Known(est, s.epoch, v) \/ Doubled(s)
    BY <1>1, <1>3, CoinKnown
  <2> QED BY <1>1, <1>3, <2>1 DEF Follows, v
<1> QED BY <1>1, <1>2, <1>3

LEMMA DecisionFollows ==
    ASSUME IsFiniteSet(Validators), NEW i \in Live, NEW est, NEW aux, NEW s,
           Received(s, est, aux), AuxComplete(s), DecisionOK(s, aux), NEW r,
           r.decision = Decide(s), s.foreign \subseteq r.foreign,
           Foreign(s) => s.epoch \in r.foreign
    PROVE  DecisionOK(r, aux)
<1>1. s \in State /\ s.epoch \in Nat
  BY DEF Received, State
<1>2. CASE Decide(s) = s.decision
  BY <1>1, <1>2 DEF DecisionOK, DecidedIn
<1>3. CASE Decide(s) = Coin(s.epoch) /\ Single(s, Coin(s.epoch))
  <2> DEFINE v == Coin(s.epoch)
  <2>1. v \in Values
    BY CoinIsValue
  <2> HIDE DEF v
  <2>2. Single(s, v)
    BY <1>3 DEF v
  <2>3. /\ \E k \in Live : aux[k][s.epoch] = v
        /\ ~Foreign(s) => \E Q : Quorum(Q) /\ \A k \in Q : aux[k][s.epoch] = v
    BY <2>1, <2>2, SingleMeans
  <2>4. DecidedIn(r, aux, s.epoch, v)
    BY <2>3 DEF DecidedIn, v
  <2>5. r.decision = v
    BY <1>3 DEF v
  <2> QED BY <1>1, <2>4, <2>5 DEF DecisionOK
<1> QED BY <1>1, <1>2, <1>3, DecideIs
-----------------------------------------------------------------------------
(* Where the messages of the state after a call come from. *)

Sources(s, r, sent, called) ==
    /\ r.messages \subseteq s.messages \cup sent
    /\ ToSet(r.delayedMessages) \subseteq ToSet(s.delayedMessages) \cup (ToSet(s.calls) \cap Msgs)
    /\ ToSet(r.calls) \subseteq
         ToSet(s.calls) \cup ToSet(s.delayedMessages) \cup {EndOfReplay} \cup called

LEMMA QuietSources ==
    ASSUME NEW s \in State, s.calls # <<>>, NEW m, m = Head(s.calls), NEW r,
           \/ Ignores(s, r, m) \/ Delays(s, r, m) \/ EndsReplay(s, r, m) \/ Counts(s, r, m)
           \/ Accepts(s, r, m) \/ CountsAux(s, r, m)
    PROVE  Sources(s, r, {}, {})
<1>1. s.calls \in Seq(Calls) /\ s.delayedMessages \in Seq(Msgs)
  BY DEF State
<1>2. ToSet(Tail(s.calls)) \subseteq ToSet(s.calls) /\ m \in ToSet(s.calls)
  BY <1>1, TailSet
<1>3. r.calls = Tail(s.calls) /\ r.messages = s.messages
  BY DEF State, Ignores, Delays, EndsReplay, Counts, Accepts, CountsAux
<1>4. CASE Delays(s, r, m)
  <2>1. m \in Msgs
    BY <1>4, CallsType DEF Calls, Delays
  <2>2. r.delayedMessages = Append(s.delayedMessages, m)
    BY <1>4 DEF Delays, State
  <2>3. ToSet(r.delayedMessages) = ToSet(s.delayedMessages) \cup {m}
    BY <1>1, <2>1, <2>2, AppendSet
  <2> QED BY <1>2, <1>3, <2>1, <2>3 DEF Sources
<1>5. CASE EndsReplay(s, r, m)
  <2>1. r.delayedMessages = <<>>
    BY <1>5 DEF EndsReplay, State
  <2>2. ToSet(r.delayedMessages) = {}
    BY <2>1 DEF ToSet
  <2> QED BY <1>2, <1>3, <2>2 DEF Sources
<1>6. CASE Ignores(s, r, m) \/ Counts(s, r, m) \/ Accepts(s, r, m) \/ CountsAux(s, r, m)
  <2>1. r.delayedMessages = s.delayedMessages
    BY <1>6 DEF Ignores, Counts, Accepts, CountsAux, State
  <2> QED BY <1>2, <1>3, <2>1 DEF Sources
<1> QED BY <1>4, <1>5, <1>6

LEMMA EchoSources ==
    ASSUME NEW s \in State, s.calls # <<>>, NEW m \in Msgs, m = Head(s.calls), NEW r,
           NEW i \in Live, NEW kind \in {"BVAL", "AUX"},
           \/ kind = "BVAL" /\ Echoes(s, r, i, m)
           \/ kind = "AUX" /\ AcceptsFirst(s, r, i, m)
    PROVE  Sources(s, r, {Message(i, s, kind, m.val)}, {Message(i, s, kind, m.val)})
<1> DEFINE own == Message(i, s, kind, m.val)
<1>1. Tail(s.calls) \in Seq(Calls) /\ ToSet(Tail(s.calls)) \subseteq ToSet(s.calls)
  BY TailSet DEF State
<1>2. own \in Calls
  <2>1. m.val \in Values
    BY DEF Msgs
  <2> QED BY <2>1, MessageType DEF Calls
<1> HIDE DEF own
<1>3. /\ r.calls = <<own>> \o Tail(s.calls) /\ r.messages = s.messages \cup {own}
      /\ r.delayedMessages = s.delayedMessages
  <2>1. CASE kind = "BVAL" /\ Echoes(s, r, i, m)
    <3> DEFINE c == <<own>> \o Tail(s.calls)
    <3> HIDE DEF c
    <3>1. r = [s EXCEPT !.calls = c,
                     !.recvBinaryValue = [s.recvBinaryValue EXCEPT ![m.from] = m.val],
                     !.sentBinaryValue = s.sentBinaryValue \cup {m.val},
                     !.messages = s.messages \cup {own}]
      BY <2>1 DEF Echoes, c, own
    <3> QED BY <3>1 DEF State, c
  <2>2. CASE kind = "AUX" /\ AcceptsFirst(s, r, i, m)
    <3> DEFINE c == <<own>> \o Tail(s.calls)
               b == Append(s.binaryValues, m.val)
    <3> HIDE DEF c, b
    <3>1. r = [s EXCEPT !.calls = c,
                     !.recvBinaryValue = [s.recvBinaryValue EXCEPT ![m.from] = m.val],
                     !.binaryValues = b,
                     !.messages = s.messages \cup {own}]
      BY <2>2 DEF AcceptsFirst, c, b, own
    <3> QED BY <3>1 DEF State, c
  <2> QED BY <2>1, <2>2
<1> DEFINE q == Tail(s.calls)
<1>4. ToSet(r.calls) = ToSet(q) \cup {own}
  <2>1. q \in Seq(Calls) /\ r.calls = <<own>> \o q
    BY <1>1, <1>3
  <2> HIDE DEF q
  <2> QED BY <1>2, <2>1, PushSet
<1> QED BY <1>1, <1>3, <1>4 DEF Sources, own

LEMMA LeaveSources ==
    ASSUME NEW s \in State, s.calls # <<>>, NEW m, m = Head(s.calls), NEW r,
           NEW i \in Live, Leaves(s, r, i, m)
    PROVE  Sources(s, r, {Message(i, r, "BVAL", r.estimated)}, {})
<1> DEFINE t == WithAux(s, m)
           next == [s EXCEPT !.epoch = s.epoch + 1]
           v == Estimate(t)
           c == (s.delayedMessages \o <<EndOfReplay>>) \o Tail(s.calls)
           f == Ended(s.foreign, s, Foreign(t))
           d == Ended(s.doubled, s, Doubled(t))
           own == Message(i, next, "BVAL", v)
           nil == [j \in Validators |-> None]
           e == s.epoch + 1
<1>1. s.calls \in Seq(Calls) /\ s.delayedMessages \in Seq(Msgs)
  BY DEF State
<1> DEFINE q == Tail(s.calls)
           p == s.delayedMessages
<1>2. ToSet(c) \subseteq ToSet(p) \cup {EndOfReplay} \cup ToSet(s.calls)
  <2>1. q \in Seq(Calls) /\ p \in Seq(Msgs) /\ ToSet(q) \subseteq ToSet(s.calls)
    BY <1>1, TailSet
  <2> HIDE DEF q, p
  <2>2. ToSet((p \o <<EndOfReplay>>) \o q) = ToSet(p) \cup {EndOfReplay} \cup ToSet(q)
    BY <2>1, ReplaySet
  <2> QED BY <2>1, <2>2 DEF q, p
<1>3. next.epoch = e
  BY DEF State
<1> HIDE DEF t, next, v, c, f, d, own, nil, e
<1>4. r = [s EXCEPT !.calls = c, !.epoch = e, !.binaryValues = <<>>,
                    !.sentBinaryValue = {v}, !.recvBinaryValue = nil, !.recvAux = nil,
                    !.estimated = v, !.decision = Decide(t), !.foreign = f, !.doubled = d,
                    !.messages = s.messages \cup {own}]
  BY DEF Leaves, nil, t, next, v, c, f, d, own, e
<1>5. /\ r.calls = c /\ r.messages = s.messages \cup {own} /\ r.epoch = e
      /\ r.delayedMessages = s.delayedMessages /\ r.estimated = v
  BY <1>4 DEF State
<1>6. own = Message(i, r, "BVAL", r.estimated)
  BY <1>3, <1>5 DEF own, Message
<1> QED BY <1>2, <1>5, <1>6 DEF Sources

LEMMA MessagesAfter ==
    ASSUME NEW s \in State, NEW r, NEW sent, NEW called, Sources(s, r, sent, called),
           NEW est, NEW aux, MessagesOK(s, est, aux),
           \A m \in sent \cup called : MessageOK(m, est, aux)
    PROVE  MessagesOK(r, est, aux)
<1>1. EndOfReplay \notin Msgs
  BY DEF EndOfReplay, Msgs
<1>2. \A m \in ToSet(r.delayedMessages) : MessageOK(m, est, aux)
  BY <1>1 DEF Sources, MessagesOK
<1>3. \A m \in ToSet(r.calls) : m = EndOfReplay \/ MessageOK(m, est, aux)
  BY DEF Sources, MessagesOK
<1>4. \A m \in r.messages : MessageOK(m, est, aux)
  BY DEF Sources, MessagesOK
<1> QED BY <1>2, <1>3, <1>4 DEF MessagesOK
-----------------------------------------------------------------------------
(* A call keeps what the records say of the node that makes it. *)

LEMMA Unextended ==
    ASSUME NEW rec \in Record, NEW i \in Live
    PROVE  Extends(rec, rec, i)
BY DEF Extends

LEMMA SameEpoch ==
    ASSUME NEW i \in Live, NEW est \in Record, NEW aux, NEW aux2, Extends(aux, aux2, i),
           NEW s, NodeOK(s, i, est, aux), NEW r \in State, MessagesOK(r, est, aux2),
           r.epoch = s.epoch, r.estimated = s.estimated, r.decision = s.decision,
           r.foreign = s.foreign, r.doubled = s.doubled,
           \A k \in DOMAIN r.binaryValues : Known(est, s.epoch, r.binaryValues[k]),
           \A j \in Validators :
              r.recvAux[j] = None \/ (j \in Live /\ aux2[j][s.epoch] = r.recvAux[j]),
           aux2[i][s.epoch] = None <=> r.binaryValues = <<>>,
           \A e \in Nat : e > s.epoch => aux2[i][e] = None
    PROVE  NodeOK(r, i, est, aux2)
<1>1. s \in State /\ s.epoch \in Nat
  BY DEF NodeOK, State
<1>2. ValuesOK(r, i, est, aux2)
  BY DEF NodeOK, ValuesOK
<1>3. EstimatesOK(r, i, est, aux2)
  <2> SUFFICES ASSUME NEW e \in Nat, e < s.epoch PROVE Follows(r, est, aux2, e, est[i][e + 1])
    BY DEF EstimatesOK
  <2>1. Follows(s, est, aux, e, est[i][e + 1])
    BY DEF NodeOK, EstimatesOK
  <2>2. Extends(est, est, i)
    BY Unextended
  <2> QED BY <2>1, <2>2, FollowsStays
<1>4. DecisionOK(r, aux2)
  BY <1>1, DecisionStays DEF NodeOK
<1> QED BY <1>2, <1>3, <1>4 DEF NodeOK

\* The records after a call, which add the estimate or the AUX that it brought.
Carried(r, i, est, aux, est2, aux2) ==
    /\ RecordsOK(est2, aux2) /\ Extends(est, est2, i) /\ Extends(aux, aux2, i)
    /\ \A j \in Live : est2[j][0] = est[j][0]
    /\ NodeOK(r, i, est2, aux2)

LEMMA HeadOK ==
    ASSUME NEW s \in State, s.calls # <<>>, NEW est, NEW aux, MessagesOK(s, est, aux),
           NEW m, m = Head(s.calls), m # EndOfReplay
    PROVE  m \in Msgs /\ MessageOK(m, est, aux)
<1>1. m \in Calls
  BY CallsType
<1>2. s.calls \in Seq(Calls)
  BY DEF State
<1>3. m \in ToSet(s.calls)
  BY <1>2, TailSet
<1> QED BY <1>1, <1>3 DEF Calls, MessagesOK

LEMMA QuietKeeps ==
    ASSUME NEW i \in Live, NEW est, NEW aux, RecordsOK(est, aux), NEW s, NodeOK(s, i, est, aux),
           s.calls # <<>>, NEW m, m = Head(s.calls), NEW r \in State,
           \/ Ignores(s, r, m) \/ Delays(s, r, m) \/ EndsReplay(s, r, m) \/ Counts(s, r, m)
           \/ Accepts(s, r, m) \/ CountsAux(s, r, m)
    PROVE  NodeOK(r, i, est, aux)
<1>1. /\ s \in State /\ s.epoch \in Nat /\ MessagesOK(s, est, aux) /\ ValuesOK(s, i, est, aux)
      /\ est \in Record /\ aux \in Record
  BY DEF NodeOK, RecordsOK, State
<1>2. MessagesOK(r, est, aux)
  <2>1. Sources(s, r, {}, {})
    BY <1>1, QuietSources
  <2> QED BY <1>1, <2>1, MessagesAfter
<1>3. Extends(aux, aux, i)
  BY <1>1, Unextended
<1>4. /\ r.epoch = s.epoch /\ r.estimated = s.estimated /\ r.decision = s.decision
      /\ r.foreign = s.foreign /\ r.doubled = s.doubled
  BY <1>1 DEF State, Ignores, Delays, EndsReplay, Counts, Accepts, CountsAux
<1>5. CASE Ignores(s, r, m) \/ Delays(s, r, m) \/ EndsReplay(s, r, m) \/ Counts(s, r, m)
  <2>1. r.binaryValues = s.binaryValues /\ r.recvAux = s.recvAux
    BY <1>1, <1>5 DEF State, Ignores, Delays, EndsReplay, Counts
  <2> QED BY <1>1, <1>2, <1>3, <1>4, <2>1, SameEpoch DEF ValuesOK
<1>6. CASE Accepts(s, r, m)
  <2>1. m \in Msgs /\ Known(est, s.epoch, m.val) /\ m.val \in Values
    BY <1>1, <1>6, HeadOK DEF Accepts, Current, MessageOK, Msgs
  <2> DEFINE b == Append(s.binaryValues, m.val)
  <2> HIDE DEF b
  <2>2. r.binaryValues = b /\ r.recvAux = s.recvAux
    <3>1. r = [s EXCEPT !.calls = Tail(s.calls),
                     !.recvBinaryValue = [s.recvBinaryValue EXCEPT ![m.from] = m.val],
                     !.binaryValues = b]
      BY <1>6 DEF Accepts, b
    <3> QED BY <1>1, <3>1 DEF State
  <2>3. \A k \in DOMAIN r.binaryValues :
           r.binaryValues[k] = m.val \/ \E l \in DOMAIN s.binaryValues : r.binaryValues[k] = s.binaryValues[l]
    <3>1. ToSet(r.binaryValues) = ToSet(s.binaryValues) \cup {m.val}
      <4>1. s.binaryValues \in Seq(Values)
        BY <1>1 DEF State
      <4>2. ToSet(b) = ToSet(s.binaryValues) \cup {m.val}
        BY <2>1, <4>1, AppendSet DEF b
      <4> QED BY <2>2, <4>2
    <3> QED BY <3>1 DEF ToSet
  <2>4. s.binaryValues # <<>> /\ r.binaryValues # <<>>
    <3>1. s.binaryValues \in Seq(Values)
      BY <1>1 DEF State
    <3>2. b # <<>>
      BY <2>1, <3>1 DEF b
    <3> QED BY <1>6, <2>2, <3>2 DEF Accepts
  <2>5. \A k \in DOMAIN r.binaryValues : Known(est, s.epoch, r.binaryValues[k])
    BY <1>1, <2>1, <2>3 DEF ValuesOK
  <2> QED BY <1>1, <1>2, <1>3, <1>4, <2>2, <2>4, <2>5, SameEpoch DEF ValuesOK
<1>7. CASE CountsAux(s, r, m)
  <2>1. m.from \in Live /\ aux[m.from][s.epoch] = m.val
    <3>1. Current(s, m, "AUX")
      BY <1>7 DEF CountsAux
    <3>2. m \in Msgs /\ MessageOK(m, est, aux)
      BY <1>1, <3>1, HeadOK DEF Current
    <3> QED BY <3>1, <3>2 DEF Current, MessageOK, Msgs
  <2>2. /\ r.binaryValues = s.binaryValues
        /\ r.recvAux = [s.recvAux EXCEPT ![m.from] = m.val]
    BY <1>1, <1>7 DEF State, CountsAux
  <2>3. \A j \in Validators : r.recvAux[j] = None \/ (j \in Live /\ aux[j][s.epoch] = r.recvAux[j])
    BY <1>1, <2>1, <2>2 DEF ValuesOK, State
  <2>4. /\ \A k \in DOMAIN r.binaryValues : Known(est, s.epoch, r.binaryValues[k])
        /\ aux[i][s.epoch] = None <=> r.binaryValues = <<>>
        /\ \A e \in Nat : e > s.epoch => aux[i][e] = None
    BY <1>1, <2>2 DEF ValuesOK
  <2> QED BY <1>1, <1>2, <1>3, <1>4, <2>3, <2>4, SameEpoch
<1> QED BY <1>5, <1>6, <1>7

LEMMA EchoKeeps ==
    ASSUME NEW i \in Live, NEW est, NEW aux, RecordsOK(est, aux), NEW s, NodeOK(s, i, est, aux),
           s.calls # <<>>, NEW m, m = Head(s.calls), NEW r \in State, Echoes(s, r, i, m)
    PROVE  NodeOK(r, i, est, aux)
<1>1. /\ s \in State /\ s.epoch \in Nat /\ MessagesOK(s, est, aux) /\ ValuesOK(s, i, est, aux)
      /\ est \in Record /\ aux \in Record
  BY DEF NodeOK, RecordsOK, State
<1>2. m \in Msgs /\ Known(est, s.epoch, m.val)
  BY <1>1, HeadOK DEF Echoes, Current, MessageOK
<1>3. MessagesOK(r, est, aux)
  <2> DEFINE own == Message(i, s, "BVAL", m.val)
  <2>1. Sources(s, r, {own}, {own})
    BY <1>1, <1>2, EchoSources
  <2>2. MessageOK(own, est, aux)
    BY <1>2 DEF MessageOK, Message
  <2> HIDE DEF own
  <2> QED BY <1>1, <2>1, <2>2, MessagesAfter
<1>4. Extends(aux, aux, i)
  BY <1>1, Unextended
<1>5. /\ r.epoch = s.epoch /\ r.estimated = s.estimated /\ r.decision = s.decision
      /\ r.foreign = s.foreign /\ r.doubled = s.doubled
      /\ r.binaryValues = s.binaryValues /\ r.recvAux = s.recvAux
  <2> DEFINE c == <<Message(i, s, "BVAL", m.val)>> \o Tail(s.calls)
             own == Message(i, s, "BVAL", m.val)
  <2> HIDE DEF c, own
  <2>1. r = [s EXCEPT !.calls = c,
                   !.recvBinaryValue = [s.recvBinaryValue EXCEPT ![m.from] = m.val],
                   !.sentBinaryValue = s.sentBinaryValue \cup {m.val},
                   !.messages = s.messages \cup {own}]
    BY DEF Echoes, c, own
  <2> QED BY <1>1, <2>1 DEF State
<1> QED BY <1>1, <1>3, <1>4, <1>5, SameEpoch DEF ValuesOK
Entry(rec, i, e, v) == [rec EXCEPT ![i][e] = v]

LEMMA NewEntry ==
    ASSUME NEW rec \in Record, NEW i \in Live, NEW e \in Nat, rec[i][e] = None, NEW v \in Opt,
           NEW new, new = Entry(rec, i, e, v)
    PROVE  /\ Extends(rec, new, i)
           /\ new \in Record
           /\ new[i][e] = v
           /\ \A d \in Nat : d # e => new[i][d] = rec[i][d]
           /\ \A j \in Live : \A d \in Nat : new[j][d] = rec[j][d] \/ (j = i /\ d = e)
<1>1. new = [rec EXCEPT ![i] = [rec[i] EXCEPT ![e] = v]]
  BY DEF Entry
<1>2. rec[i] \in [Nat -> Opt]
  BY DEF Record
<1> DEFINE row == [rec[i] EXCEPT ![e] = v]
<1>3. row \in [Nat -> Opt] /\ row[e] = v /\ \A d \in Nat : d # e => row[d] = rec[i][d]
  BY <1>2
<1> HIDE DEF row
<1>4. new \in Record /\ new[i] = row /\ \A j \in Live : j # i => new[j] = rec[j]
  BY <1>1, <1>3 DEF Record, row
<1>5. \A j \in Live : \A d \in Nat : new[j][d] = rec[j][d] \/ (j = i /\ d = e)
  BY <1>3, <1>4
<1> QED BY <1>3, <1>4, <1>5 DEF Extends

LEMMA FirstAcceptKeeps ==
    ASSUME NEW i \in Live, NEW est, NEW aux, RecordsOK(est, aux), NEW s, NodeOK(s, i, est, aux),
           s.calls # <<>>, NEW m, m = Head(s.calls), NEW r \in State, AcceptsFirst(s, r, i, m)
    PROVE  \E aux2 : Carried(r, i, est, aux, est, aux2)
<1> DEFINE aux2 == Entry(aux, i, s.epoch, m.val)
<1>1. /\ s \in State /\ s.epoch \in Nat /\ MessagesOK(s, est, aux) /\ ValuesOK(s, i, est, aux)
      /\ est \in Record /\ aux \in Record
  BY DEF NodeOK, RecordsOK, State
<1>2. m \in Msgs /\ Known(est, s.epoch, m.val) /\ m.val \in Values
  <2>1. Current(s, m, "BVAL")
    BY DEF AcceptsFirst
  <2>2. m \in Msgs /\ MessageOK(m, est, aux)
    BY <1>1, <2>1, HeadOK DEF Current
  <2> QED BY <2>1, <2>2 DEF Current, MessageOK, Msgs
<1>3. aux[i][s.epoch] = None /\ s.binaryValues = <<>>
  BY <1>1 DEF ValuesOK, AcceptsFirst
<1>4. /\ Extends(aux, aux2, i) /\ aux2 \in Record /\ aux2[i][s.epoch] = m.val
      /\ \A d \in Nat : d # s.epoch => aux2[i][d] = aux[i][d]
      /\ \A j \in Live : \A d \in Nat : aux2[j][d] = aux[j][d] \/ (j = i /\ d = s.epoch)
  <2>1. m.val \in Opt
    BY <1>2 DEF Opt
  <2> HIDE DEF aux2
  <2> QED BY <1>1, <1>3, <2>1, NewEntry DEF aux2
<1> HIDE DEF aux2
<1>5. Extends(est, est, i)
  BY <1>1, Unextended
<1>6. RecordsOK(est, aux2)
  BY <1>1, <1>2, <1>4 DEF RecordsOK
<1>7. MessagesOK(r, est, aux2)
  <2> DEFINE own == Message(i, s, "AUX", m.val)
  <2>1. Sources(s, r, {own}, {own})
    BY <1>1, <1>2, EchoSources
  <2>2. MessageOK(own, est, aux2)
    <3>1. own.kind = "AUX" /\ own.from = i /\ own.epoch = s.epoch /\ own.val = m.val
      BY DEF Message
    <3> HIDE DEF own
    <3> QED BY <1>4, <3>1 DEF MessageOK
  <2>3. MessagesOK(s, est, aux2)
    BY <1>1, <1>4, <1>5, MessagesStay
  <2> HIDE DEF own
  <2> QED BY <1>1, <2>1, <2>2, <2>3, MessagesAfter
<1> DEFINE b == Append(s.binaryValues, m.val)
<1>8. b = <<m.val>>
  BY <1>2, <1>3
<1>9. \A k \in DOMAIN b : b[k] = m.val
  BY <1>8
<1>10. b # <<>>
  BY <1>8
<1> HIDE DEF b
<1>11. /\ r.epoch = s.epoch /\ r.estimated = s.estimated /\ r.decision = s.decision
       /\ r.foreign = s.foreign /\ r.doubled = s.doubled
       /\ r.binaryValues = b /\ r.recvAux = s.recvAux
  <2> DEFINE c == <<Message(i, s, "AUX", m.val)>> \o Tail(s.calls)
             own == Message(i, s, "AUX", m.val)
  <2> HIDE DEF c, own
  <2>1. r = [s EXCEPT !.calls = c,
                   !.recvBinaryValue = [s.recvBinaryValue EXCEPT ![m.from] = m.val],
                   !.binaryValues = b,
                   !.messages = s.messages \cup {own}]
    BY DEF AcceptsFirst, c, b, own
  <2> QED BY <1>1, <2>1 DEF State
<1>12. /\ \A k \in DOMAIN r.binaryValues : Known(est, s.epoch, r.binaryValues[k])
       /\ r.binaryValues # <<>> /\ aux2[i][s.epoch] # None
       /\ \A e \in Nat : e > s.epoch => aux2[i][e] = None
  BY <1>1, <1>2, <1>4, <1>9, <1>10, <1>11, NoneIsNoValue DEF ValuesOK
<1>13. ASSUME NEW j \in Validators, r.recvAux[j] # None
       PROVE  j \in Live /\ aux2[j][s.epoch] = r.recvAux[j]
  <2>1. s.recvAux[j] \in Values
    BY <1>1, <1>11, <1>13 DEF State, Opt
  <2> QED BY <1>1, <1>4, <1>11, <1>13, <2>1, EntryStays DEF ValuesOK
<1>14. NodeOK(r, i, est, aux2)
  BY <1>1, <1>4, <1>7, <1>11, <1>12, <1>13, SameEpoch
<1> QED BY <1>4, <1>5, <1>6, <1>14 DEF Carried

LEMMA LeaveKeeps ==
    ASSUME IsFiniteSet(Validators), NEW i \in Live, NEW est, NEW aux, RecordsOK(est, aux),
           NEW s, NodeOK(s, i, est, aux),
           s.calls # <<>>, NEW m, m = Head(s.calls), NEW r \in State, Leaves(s, r, i, m)
    PROVE  \E est2 : Carried(r, i, est, aux, est2, aux)
<1> DEFINE t == WithAux(s, m)
           v == Estimate(t)
           est2 == Entry(est, i, s.epoch + 1, v)
           e1 == s.epoch + 1
<1>1. /\ s \in State /\ s.epoch \in Nat /\ MessagesOK(s, est, aux) /\ ValuesOK(s, i, est, aux)
      /\ EstimatesOK(s, i, est, aux) /\ DecisionOK(s, aux)
      /\ est \in Record /\ aux \in Record
  BY DEF NodeOK, RecordsOK, State
<1>2. m \in Msgs /\ m.from \in Live /\ aux[m.from][s.epoch] = m.val
  <2>1. Current(s, m, "AUX")
    BY DEF Leaves
  <2>2. m \in Msgs /\ MessageOK(m, est, aux)
    BY <1>1, <2>1, HeadOK DEF Current
  <2> QED BY <2>1, <2>2 DEF Current, MessageOK, Msgs
<1>3. /\ t \in State /\ t.recvAux = [s.recvAux EXCEPT ![m.from] = m.val]
      /\ t.binaryValues = s.binaryValues /\ t.epoch = s.epoch /\ t.decision = s.decision
  BY <1>1, <1>2, WithAuxType
<1>4. t.foreign = s.foreign /\ t.doubled = s.doubled
  BY <1>1 DEF WithAux, State
<1>5. AuxComplete(t)
  BY DEF Leaves
<1>6. e1 \in Nat /\ e1 = s.epoch + 1
  BY <1>1
<1> HIDE DEF e1, t
<1>7. Received(t, est, aux)
  BY <1>1, <1>2, <1>3 DEF Received, ValuesOK, State
<1>8. v \in Values
  BY <1>3, EstimateIs
<1> HIDE DEF v
<1>9. est[i][e1] = None
  BY <1>1, <1>6 DEF ValuesOK
<1>10. /\ Extends(est, est2, i) /\ est2 \in Record /\ est2[i][e1] = v
       /\ \A d \in Nat : d # e1 => est2[i][d] = est[i][d]
       /\ \A j \in Live : \A d \in Nat : est2[j][d] = est[j][d] \/ (j = i /\ d = e1)
  <2>1. v \in Opt
    BY <1>8 DEF Opt
  <2>2. est2 = Entry(est, i, e1, v)
    BY DEF e1
  <2> HIDE DEF est2
  <2> QED BY <1>1, <1>6, <1>9, <2>1, <2>2, NewEntry
<1> HIDE DEF est2
<1>11. Extends(aux, aux, i)
  BY <1>1, Unextended
<1>12. RecordsOK(est2, aux)
  <2> SUFFICES ASSUME NEW j \in Live, NEW e \in Nat, aux[j][e] # None
               PROVE  Known(est2, e, aux[j][e])
    BY <1>1, <1>10 DEF RecordsOK
  <2>1. Known(est, e, aux[j][e]) /\ aux[j][e] \in Values
    BY <1>1 DEF RecordsOK, Record, Opt
  <2> QED BY <1>10, <2>1, KnownStays
<1> DEFINE c == (s.delayedMessages \o <<EndOfReplay>>) \o Tail(s.calls)
           f == Ended(s.foreign, s, Foreign(t))
           d == Ended(s.doubled, s, Doubled(t))
           next == [s EXCEPT !.epoch = s.epoch + 1]
           own == Message(i, next, "BVAL", v)
           nil == [j \in Validators |-> None]
           dec == Decide(t)
<1>13. /\ s.foreign \subseteq f /\ s.doubled \subseteq d
       /\ Foreign(t) => t.epoch \in f
       /\ Doubled(t) => t.epoch \in d
  BY <1>3 DEF Ended
<1> HIDE DEF c, f, d, next, own, nil, dec
<1>14. r = [s EXCEPT !.calls = c, !.epoch = e1, !.binaryValues = <<>>,
                     !.sentBinaryValue = {v}, !.recvBinaryValue = nil, !.recvAux = nil,
                     !.estimated = v, !.decision = dec, !.foreign = f, !.doubled = d,
                     !.messages = s.messages \cup {own}]
  BY DEF Leaves, nil, t, next, v, c, f, d, own, e1, dec
<1>15. /\ r.epoch = e1 /\ r.binaryValues = <<>> /\ r.recvAux = nil
       /\ r.estimated = v /\ r.decision = dec /\ r.foreign = f /\ r.doubled = d
  BY <1>1, <1>14 DEF State
<1>16. MessagesOK(r, est2, aux)
  <2> DEFINE mine == Message(i, r, "BVAL", r.estimated)
  <2>1. Sources(s, r, {mine}, {})
    BY <1>1, LeaveSources
  <2>2. MessageOK(mine, est2, aux)
    BY <1>10, <1>15 DEF MessageOK, Message, Known
  <2>3. MessagesOK(s, est2, aux)
    BY <1>1, <1>10, <1>11, MessagesStay
  <2> HIDE DEF mine
  <2> QED BY <1>1, <2>1, <2>2, <2>3, MessagesAfter
<1>17. ValuesOK(r, i, est2, aux)
  <2>1. \A j \in Validators : r.recvAux[j] = None
    BY <1>15 DEF nil
  <2>2. \A k \in DOMAIN r.binaryValues : FALSE
    BY <1>15
  <2>3. aux[i][e1] = None
    BY <1>1, <1>6 DEF ValuesOK
  <2>4. \A e \in Nat : e > e1 => est2[i][e] = None /\ aux[i][e] = None
    BY <1>1, <1>6, <1>10 DEF ValuesOK
  <2> QED BY <1>10, <1>15, <2>1, <2>2, <2>3, <2>4 DEF ValuesOK
<1>18. EstimatesOK(r, i, est2, aux)
  <2> SUFFICES ASSUME NEW e \in Nat, e < e1 PROVE Follows(r, est2, aux, e, est2[i][e + 1])
    BY <1>15 DEF EstimatesOK
  <2>1. CASE e < s.epoch
    <3>1. Follows(s, est, aux, e, est[i][e + 1])
      BY <1>1, <2>1 DEF EstimatesOK
    <3>2. est2[i][e + 1] = est[i][e + 1]
      BY <1>1, <1>6, <1>10, <2>1
    <3>3. Follows(r, est2, aux, e, est[i][e + 1])
      BY <1>10, <1>11, <1>13, <1>15, <3>1, FollowsStays
    <3> QED BY <3>2, <3>3
  <2>2. CASE e = s.epoch
    <3>1. Follows(r, est, aux, e, v)
      BY <1>3, <1>5, <1>7, <1>13, <1>15, <2>2, EstimateFollows DEF v
    <3>2. Follows(r, est2, aux, e, v)
      BY <1>10, <1>11, <3>1, FollowsStays
    <3>3. est2[i][e + 1] = v
      BY <1>6, <1>10, <2>2
    <3> QED BY <3>2, <3>3
  <2> QED BY <1>1, <1>6, <2>1, <2>2
<1>19. DecisionOK(r, aux)
  <2>1. DecisionOK(t, aux)
    BY <1>1, <1>3, <1>4 DEF DecisionOK, DecidedIn
  <2>2. r.decision = Decide(t)
    BY <1>15 DEF dec
  <2> QED BY <1>4, <1>5, <1>7, <1>13, <1>15, <2>1, <2>2, DecisionFollows
<1>20. \A j \in Live : est2[j][0] = est[j][0]
  BY <1>1, <1>6, <1>10
<1>21. NodeOK(r, i, est2, aux)
  BY <1>16, <1>17, <1>18, <1>19 DEF NodeOK
<1> QED BY <1>10, <1>11, <1>12, <1>20, <1>21 DEF Carried

LEMMA StepKeeps ==
    ASSUME IsFiniteSet(Validators), NEW i \in Live, NEW est, NEW aux, RecordsOK(est, aux),
           NEW s, NodeOK(s, i, est, aux), s.calls # <<>>
    PROVE  \E est2, aux2 : Carried(Handle(s, i), i, est, aux, est2, aux2)
<1> DEFINE m == Head(s.calls)
           r == Handle(s, i)
<1>1. s \in State /\ est \in Record /\ aux \in Record
  BY DEF NodeOK, RecordsOK
<1>2. Outcome(s, r, i, m)
  BY <1>1, HandleOutcome
<1>3. r \in State
  BY <1>1, <1>2, OutcomeType
<1> HIDE DEF m, r
<1>4. Extends(est, est, i) /\ Extends(aux, aux, i)
  BY <1>1, Unextended
<1>5. CASE NodeOK(r, i, est, aux)
  <2>1. Carried(r, i, est, aux, est, aux)
    BY <1>4, <1>5 DEF Carried
  <2> QED BY <2>1 DEF r
<1>6. CASE Leaves(s, r, i, m)
  BY <1>3, <1>6, LeaveKeeps DEF m, r
<1>7. CASE AcceptsFirst(s, r, i, m)
  BY <1>3, <1>7, FirstAcceptKeeps DEF m, r
<1>8. CASE Echoes(s, r, i, m)
  <2>1. NodeOK(r, i, est, aux)
    BY <1>3, <1>8, EchoKeeps DEF m
  <2> QED BY <1>5, <2>1
<1>9. CASE \/ Ignores(s, r, m) \/ Delays(s, r, m) \/ EndsReplay(s, r, m) \/ Counts(s, r, m)
           \/ Accepts(s, r, m) \/ CountsAux(s, r, m)
  <2>1. NodeOK(r, i, est, aux)
    BY <1>3, <1>9, QuietKeeps DEF m
  <2> QED BY <1>5, <2>1
<1> QED BY <1>2, <1>6, <1>7, <1>8, <1>9 DEF Outcome
-----------------------------------------------------------------------------
(* The inductive invariant: such records exist. *)

NetOK(n, est, aux) ==
    \A m \in DOMAIN n : m.to \in Live /\ m.msg \in Msgs /\ MessageOK(m.msg, est, aux)

AllOK(nodes, n, est, aux) ==
    /\ RecordsOK(est, aux)
    /\ nodes \in [Live -> State]
    /\ \A j \in Live : NodeOK(nodes[j], j, est, aux)
    /\ NetOK(n, est, aux)

InputsAre(given, est) == given \in [Live -> Opt] /\ \A j \in Live : given[j] = est[j][0]

IInv == /\ IsFiniteSet(Validators)
        /\ \E est, aux : AllOK(bba, net, est, aux) /\ InputsAre(input, est)

\* The bags of the network, by the messages in them.
LEMMA NetOf ==
    ASSUME NEW a, NEW b, NEW S, NEW state
    PROVE  /\ DOMAIN (a (+) b) = DOMAIN a \cup DOMAIN b
           /\ DOMAIN (a (-) b) \subseteq DOMAIN a
           /\ DOMAIN SetToBag(S) = S
           /\ DOMAIN Kept(a, state) \subseteq DOMAIN a
           /\ DOMAIN EmptyBag = {}
           /\ BagToSet(a) = DOMAIN a
<1>1. DOMAIN (a (+) b) = DOMAIN a \cup DOMAIN b
  BY DEF (+), BagIn
<1>2. DOMAIN (a (-) b) \subseteq DOMAIN a
  BY DEF (-)
<1>3. DOMAIN SetToBag(S) = S
  BY DEF SetToBag
<1>4. DOMAIN Kept(a, state) \subseteq DOMAIN a
  BY DEF Kept
<1>5. DOMAIN EmptyBag = {} /\ BagToSet(a) = DOMAIN a
  BY DEF EmptyBag, SetToBag, BagToSet
<1> QED BY <1>1, <1>2, <1>3, <1>4, <1>5

LEMMA NetStays ==
    ASSUME NEW est, NEW est2, NEW aux, NEW aux2, NEW i, Extends(est, est2, i),
           Extends(aux, aux2, i), NEW n, NetOK(n, est, aux)
    PROVE  NetOK(n, est2, aux2)
BY MessageStays DEF NetOK

LEMMA SilentKeeps ==
    ASSUME NEW i, NEW est, NEW aux, NEW r, NodeOK(r, i, est, aux)
    PROVE  NodeOK([r EXCEPT !.messages = {}], i, est, aux)
<1> DEFINE q == [r EXCEPT !.messages = {}]
<1>1. r \in State
  BY DEF NodeOK
<1>2. /\ q \in State /\ q.messages = {} /\ q.delayedMessages = r.delayedMessages
      /\ q.calls = r.calls /\ q.binaryValues = r.binaryValues /\ q.epoch = r.epoch
      /\ q.recvAux = r.recvAux /\ q.estimated = r.estimated /\ q.foreign = r.foreign
      /\ q.doubled = r.doubled /\ q.decision = r.decision
  BY <1>1 DEF State
<1> HIDE DEF q
<1>3. MessagesOK(q, est, aux)
  BY <1>2 DEF NodeOK, MessagesOK
<1>4. ValuesOK(q, i, est, aux)
  BY <1>2 DEF NodeOK, ValuesOK
<1>5. EstimatesOK(q, i, est, aux)
  BY <1>2 DEF NodeOK, EstimatesOK, Follows
<1>6. DecisionOK(q, aux)
  BY <1>2 DEF NodeOK, DecisionOK, DecidedIn
<1> QED BY <1>2, <1>3, <1>4, <1>5, <1>6 DEF NodeOK, q

LEMMA StepAll ==
    ASSUME IsFiniteSet(Validators), NEW i \in Live, NEW est, NEW aux, RecordsOK(est, aux),
           NEW s, NodeOK(s, i, est, aux), s.calls # <<>>, bba \in [Live -> State],
           \A j \in Live : j # i => NodeOK(bba[j], j, est, aux),
           NEW rest, NetOK(rest, est, aux), Step(i, s, rest)
    PROVE  \E est2, aux2 : /\ AllOK(bba', net', est2, aux2)
                           /\ \A j \in Live : est2[j][0] = est[j][0]
<1> DEFINE r == Handle(s, i)
           messages == [to : Live \ {i}, msg : r.messages]
           silent == [r EXCEPT !.messages = {}]
           q == IF r.calls = <<>> THEN silent ELSE r
           sent == SetToBag(messages)
           n == IF r.calls = <<>> THEN rest (+) sent ELSE rest
<1>1. PICK est2, aux2 : Carried(r, i, est, aux, est2, aux2)
  BY StepKeeps
<1>2. /\ RecordsOK(est2, aux2) /\ Extends(est, est2, i) /\ Extends(aux, aux2, i)
      /\ NodeOK(r, i, est2, aux2) /\ \A j \in Live : est2[j][0] = est[j][0]
  BY <1>1 DEF Carried
<1>3. bba' = [bba EXCEPT ![i] = q] /\ net' = Kept(n, bba')
  BY DEF Step
<1>4. NodeOK(silent, i, est2, aux2)
  BY <1>2, SilentKeeps
<1>5. NodeOK(q, i, est2, aux2)
  BY <1>2, <1>4
<1>6. \A m \in messages : m.to \in Live /\ m.msg \in Msgs /\ MessageOK(m.msg, est2, aux2)
  BY <1>2 DEF NodeOK, MessagesOK, State
<1>7. NetOK(rest, est2, aux2)
  BY <1>2, NetStays
<1> HIDE DEF messages, r, silent, q
<1>8. NetOK(net', est2, aux2)
  <2>1. DOMAIN sent = messages
    BY NetOf
  <2> HIDE DEF sent
  <2>2. DOMAIN n \subseteq DOMAIN rest \cup messages
    BY <2>1, NetOf
  <2> HIDE DEF n
  <2>3. DOMAIN net' \subseteq DOMAIN n
    BY <1>3, NetOf
  <2> QED BY <1>6, <1>7, <2>2, <2>3 DEF NetOK
<1>9. q \in State /\ bba' \in [Live -> State]
  BY <1>3, <1>5 DEF NodeOK
<1>10. \A j \in Live : NodeOK(bba'[j], j, est2, aux2)
  <2> TAKE j \in Live
  <2>1. CASE j = i
    BY <1>3, <1>5, <2>1
  <2>2. CASE j # i
    BY <1>2, <1>3, <2>2, OthersStay
  <2> QED BY <2>1, <2>2
<1>11. AllOK(bba', net', est2, aux2)
  BY <1>2, <1>8, <1>9, <1>10 DEF AllOK
<1> QED BY <1>2, <1>11
\* The state in which InputValue makes its first call.
LEMMA InputState ==
    ASSUME NEW s \in State, s.calls = <<>>, NEW i \in Live, NEW v \in Values,
           NEW own, own = Message(i, s, "BVAL", v),
           NEW p, p = Call(SendBVal([s EXCEPT !.estimated = v], i, v), <<own>>)
    PROVE  /\ p \in State /\ p.estimated = v /\ p.messages = s.messages \cup {own} /\ p.calls = <<own>>
           /\ p.delayedMessages = s.delayedMessages /\ p.binaryValues = s.binaryValues
           /\ p.epoch = s.epoch /\ p.recvAux = s.recvAux /\ p.decision = s.decision
           /\ p.foreign = s.foreign /\ p.doubled = s.doubled
<1> DEFINE u == [s EXCEPT !.estimated = v]
           c == <<own>>
<1>1. own \in Msgs /\ c \in Seq(Calls) /\ v \in Opt
  BY MessageType DEF Calls, Opt
<1>2. p = [s EXCEPT !.estimated = v, !.sentBinaryValue = s.sentBinaryValue \cup {v},
                    !.messages = s.messages \cup {own}, !.calls = c]
  <2> DEFINE mine == Message(i, u, "BVAL", v)
             w == SendBVal(u, i, v)
  <2>1. mine = own
    BY DEF Message, State
  <2> HIDE DEF mine
  <2>2. w = [s EXCEPT !.estimated = v, !.sentBinaryValue = s.sentBinaryValue \cup {v},
                      !.messages = s.messages \cup {own}]
    BY <2>1 DEF SendBVal, AddMessage, State, mine
  <2> HIDE DEF w
  <2>3. w.calls = <<>>
    BY <2>2 DEF State
  <2>4. c \o <<>> = c
    OBVIOUS
  <2>5. p = [w EXCEPT !.calls = c \o w.calls]
    BY DEF Call, w
  <2> HIDE DEF c
  <2>6. p = [w EXCEPT !.calls = c]
    BY <2>3, <2>4, <2>5
  <2> QED BY <2>2, <2>6 DEF State
<1> HIDE DEF c
<1>4. p \in State
  <2> DEFINE sent == s.sentBinaryValue \cup {v}
             messages == s.messages \cup {own}
  <2>1. sent \in SUBSET Values /\ messages \in SUBSET Msgs
    BY <1>1 DEF State
  <2>2. p = [s EXCEPT !.estimated = v, !.sentBinaryValue = sent, !.messages = messages, !.calls = c]
    BY <1>2
  <2> HIDE DEF sent, messages
  <2> QED BY <1>1, <2>1, <2>2 DEF State
<1>3. /\ p.estimated = v /\ p.messages = s.messages \cup {own} /\ p.calls = c
      /\ p.delayedMessages = s.delayedMessages /\ p.binaryValues = s.binaryValues
      /\ p.epoch = s.epoch /\ p.recvAux = s.recvAux /\ p.decision = s.decision
      /\ p.foreign = s.foreign /\ p.doubled = s.doubled
  BY <1>1, <1>2 DEF State
<1> QED BY <1>3, <1>4 DEF c

\* The state in which a message from the network is the only call.
LEMMA CallState ==
    ASSUME NEW s \in State, s.calls = <<>>, NEW x \in Msgs, NEW p, p = Call(s, <<x>>)
    PROVE  /\ p \in State /\ p.calls = <<x>> /\ p.messages = s.messages
           /\ p.delayedMessages = s.delayedMessages /\ p.binaryValues = s.binaryValues
           /\ p.epoch = s.epoch /\ p.recvAux = s.recvAux /\ p.decision = s.decision
           /\ p.estimated = s.estimated /\ p.foreign = s.foreign /\ p.doubled = s.doubled
           /\ p.recvBinaryValue = s.recvBinaryValue /\ p.sentBinaryValue = s.sentBinaryValue
<1> DEFINE c == <<x>>
<1>1. c \in Seq(Calls) /\ c \o <<>> = c
  BY DEF Calls
<1> HIDE DEF c
<1>2. p = [s EXCEPT !.calls = c]
  BY <1>1 DEF Call, c
<1>3. /\ p \in State /\ p.calls = c /\ p.messages = s.messages
      /\ p.delayedMessages = s.delayedMessages /\ p.binaryValues = s.binaryValues
      /\ p.epoch = s.epoch /\ p.recvAux = s.recvAux /\ p.decision = s.decision
      /\ p.estimated = s.estimated /\ p.foreign = s.foreign /\ p.doubled = s.doubled
      /\ p.recvBinaryValue = s.recvBinaryValue /\ p.sentBinaryValue = s.sentBinaryValue
  BY <1>1, <1>2 DEF State
<1> QED BY <1>3 DEF c

LEMMA InputKeeps ==
    ASSUME IInv, NEW i \in Live, NEW v \in Values, InputValue(i, v)
    PROVE  \E est2, aux2 : AllOK(bba', net', est2, aux2) /\ InputsAre(input', est2)
<1>1. PICK est, aux : AllOK(bba, net, est, aux) /\ InputsAre(input, est)
  BY DEF IInv
<1> DEFINE s == bba[i]
           u == [s EXCEPT !.estimated = v]
           own == Message(i, s, "BVAL", v)
           p == Call(SendBVal(u, i, v), <<own>>)
           est1 == Entry(est, i, 0, v)
<1>2. /\ RecordsOK(est, aux) /\ est \in Record /\ aux \in Record /\ bba \in [Live -> State]
      /\ NodeOK(s, i, est, aux) /\ s \in State /\ v \in Opt
  BY <1>1 DEF AllOK, RecordsOK, Opt
<1>3. s.calls = <<>> /\ s.epoch = 0 /\ s.estimated = None
  BY DEF InputValue
<1>4. est[i][0] = None
  BY <1>2, <1>3 DEF NodeOK, ValuesOK
<1>5. /\ Extends(est, est1, i) /\ est1 \in Record /\ est1[i][0] = v
      /\ \A d \in Nat : d # 0 => est1[i][d] = est[i][d]
      /\ \A j \in Live : \A d \in Nat : est1[j][d] = est[j][d] \/ (j = i /\ d = 0)
  BY <1>2, <1>4, NewEntry
<1> HIDE DEF est1
<1>6. Extends(aux, aux, i)
  BY <1>2, Unextended
<1>7. RecordsOK(est1, aux)
  <2> SUFFICES ASSUME NEW j \in Live, NEW e \in Nat, aux[j][e] # None
               PROVE  Known(est1, e, aux[j][e])
    BY <1>2, <1>5 DEF RecordsOK
  <2>1. Known(est, e, aux[j][e]) /\ aux[j][e] \in Values
    BY <1>2 DEF RecordsOK, Record, Opt
  <2> QED BY <1>5, <2>1, KnownStays
<1>8. own \in Msgs /\ own.kind = "BVAL" /\ own.epoch = 0 /\ own.val = v
  BY <1>2, <1>3, MessageType DEF Message
<1>9. MessageOK(own, est1, aux)
  BY <1>5, <1>8 DEF MessageOK, Known
<1>10. ToSet(<<own>>) = {own} /\ <<own>> # <<>>
  BY DEF ToSet
<1> HIDE DEF own
<1>13. /\ p \in State /\ p.estimated = v /\ p.messages = s.messages \cup {own} /\ p.calls = <<own>>
       /\ p.delayedMessages = s.delayedMessages /\ p.binaryValues = s.binaryValues
       /\ p.epoch = s.epoch /\ p.recvAux = s.recvAux /\ p.decision = s.decision
       /\ p.foreign = s.foreign /\ p.doubled = s.doubled
  BY <1>2, <1>3, InputState DEF own
<1> DEFINE c == <<own>>
<1>11. p.calls = c /\ ToSet(c) = {own} /\ c # <<>>
  BY <1>10, <1>13
<1> HIDE DEF c, p
<1>14. MessagesOK(p, est1, aux)
  <2>1. MessagesOK(s, est1, aux)
    BY <1>2, <1>5, <1>6, MessagesStay DEF NodeOK
  <2> QED BY <1>9, <1>11, <1>13, <2>1 DEF MessagesOK
<1>15. ValuesOK(p, i, est1, aux)
  <2>1. ValuesOK(s, i, est, aux)
    BY <1>2 DEF NodeOK
  <2>2. \A k \in DOMAIN p.binaryValues : Known(est1, p.epoch, p.binaryValues[k])
    <3> TAKE k \in DOMAIN p.binaryValues
    <3>1. s.binaryValues[k] \in Values /\ Known(est, s.epoch, s.binaryValues[k])
      BY <1>2, <1>13, <2>1 DEF State, ValuesOK
    <3> QED BY <1>3, <1>5, <1>13, <3>1, KnownStays
  <2> QED BY <1>3, <1>5, <1>13, <2>1, <2>2 DEF ValuesOK
<1>16. EstimatesOK(p, i, est1, aux)
  BY <1>3, <1>13 DEF EstimatesOK
<1>17. DecisionOK(p, aux)
  BY <1>2, <1>13 DEF NodeOK, DecisionOK, DecidedIn
<1>18. NodeOK(p, i, est1, aux)
  BY <1>13, <1>14, <1>15, <1>16, <1>17 DEF NodeOK
<1>19. \A j \in Live : j # i => NodeOK(bba[j], j, est1, aux)
  BY <1>1, <1>5, <1>6, OthersStay DEF AllOK
<1>20. NetOK(net, est1, aux)
  BY <1>1, <1>5, <1>6, NetStays DEF AllOK
<1>21. Step(i, p, net) /\ input' = [input EXCEPT ![i] = v]
  BY DEF InputValue, p, own, c
<1>22. PICK est2, aux2 : AllOK(bba', net', est2, aux2) /\ \A j \in Live : est2[j][0] = est1[j][0]
  <2>1. IsFiniteSet(Validators) /\ p.calls # <<>>
    BY <1>11, <1>13 DEF IInv
  <2> QED BY <1>2, <1>7, <1>18, <1>19, <1>20, <1>21, <2>1, StepAll
<1>23. InputsAre(input', est2)
  BY <1>1, <1>2, <1>5, <1>21, <1>22 DEF InputsAre
<1> QED BY <1>22, <1>23

LEMMA MessageKeeps ==
    ASSUME IInv, NEW m \in BagToSet(net), HandleMessage(m)
    PROVE  \E est2, aux2 : AllOK(bba', net', est2, aux2) /\ InputsAre(input', est2)
<1>1. PICK est, aux : AllOK(bba, net, est, aux) /\ InputsAre(input, est)
  BY DEF IInv
<1> DEFINE i == m.to
           s == bba[i]
           c == <<m.msg>>
           rest == net (-) SetToBag({m})
           p == Call(s, c)
<1>2. i \in Live /\ m.msg \in Msgs /\ MessageOK(m.msg, est, aux)
  BY <1>1, NetOf DEF AllOK, NetOK
<1>3. /\ RecordsOK(est, aux) /\ bba \in [Live -> State] /\ NodeOK(s, i, est, aux)
      /\ s \in State /\ s.calls = <<>>
  BY <1>1, <1>2 DEF AllOK, HandleMessage
<1>4. c \in Seq(Calls) /\ ToSet(c) = {m.msg} /\ c # <<>> /\ c \o <<>> = c
  BY <1>2 DEF Calls, ToSet
<1> HIDE DEF c, p
<1>6. /\ p \in State /\ p.calls = c /\ p.messages = s.messages
      /\ p.delayedMessages = s.delayedMessages /\ p.binaryValues = s.binaryValues
      /\ p.epoch = s.epoch /\ p.recvAux = s.recvAux /\ p.decision = s.decision
      /\ p.estimated = s.estimated /\ p.foreign = s.foreign /\ p.doubled = s.doubled
  BY <1>2, <1>3, CallState DEF c, p
<1>7. MessagesOK(p, est, aux)
  BY <1>2, <1>3, <1>4, <1>6 DEF NodeOK, MessagesOK
<1>8. ValuesOK(p, i, est, aux) /\ EstimatesOK(p, i, est, aux) /\ DecisionOK(p, aux)
  <2>1. ValuesOK(p, i, est, aux)
    BY <1>3, <1>6 DEF NodeOK, ValuesOK
  <2>2. EstimatesOK(p, i, est, aux)
    BY <1>3, <1>6 DEF NodeOK, EstimatesOK, Follows
  <2>3. DecisionOK(p, aux)
    BY <1>3, <1>6 DEF NodeOK, DecisionOK, DecidedIn
  <2> QED BY <2>1, <2>2, <2>3
<1>9. NodeOK(p, i, est, aux)
  BY <1>6, <1>7, <1>8 DEF NodeOK
<1>10. NetOK(rest, est, aux)
  BY <1>1, NetOf DEF AllOK, NetOK
<1>11. Step(i, p, rest) /\ input' = input
  BY DEF HandleMessage, p, c
<1> HIDE DEF rest
<1>12. PICK est2, aux2 : AllOK(bba', net', est2, aux2) /\ \A j \in Live : est2[j][0] = est[j][0]
  <2>1. IsFiniteSet(Validators) /\ p.calls # <<>>
    BY <1>4, <1>6 DEF IInv
  <2> QED BY <1>1, <1>2, <1>3, <1>9, <1>10, <1>11, <2>1, StepAll DEF AllOK
<1>13. InputsAre(input', est2)
  BY <1>1, <1>11, <1>12 DEF InputsAre
<1> QED BY <1>12, <1>13

LEMMA ContinueKeeps ==
    ASSUME IInv, NEW i \in Live, Continue(i)
    PROVE  \E est2, aux2 : AllOK(bba', net', est2, aux2) /\ InputsAre(input', est2)
<1>1. PICK est, aux : AllOK(bba, net, est, aux) /\ InputsAre(input, est)
  BY DEF IInv
<1>2. bba[i].calls # <<>> /\ Step(i, bba[i], net) /\ input' = input
  BY DEF Continue
<1>3. PICK est2, aux2 : AllOK(bba', net', est2, aux2) /\ \A j \in Live : est2[j][0] = est[j][0]
  BY <1>1, <1>2, StepAll DEF AllOK, IInv
<1>4. InputsAre(input', est2)
  BY <1>1, <1>2, <1>3 DEF InputsAre
<1> QED BY <1>3, <1>4

LEMMA InitHolds ==
    ASSUME Init
    PROVE  IInv
<1>1. setting \in Settings /\ bba = [i \in Live |-> NewBBA] /\ net = EmptyBag
      /\ input = [i \in Live |-> None]
  BY DEF Init
<1>2. IsFiniteSet(Validators)
  BY <1>1, SettingsAssumption DEF Validators
<1> DEFINE nothing == [j \in Live |-> [e \in Nat |-> None]]
<1>3. nothing \in Record /\ \A j \in Live : \A e \in Nat : nothing[j][e] = None
  BY DEF Record, Opt
<1> HIDE DEF nothing
<1>4. RecordsOK(nothing, nothing)
  BY <1>3 DEF RecordsOK
<1> DEFINE s == NewBBA
<1>5. s \in State
  <2>1. <<>> \in Seq(Values) /\ <<>> \in Seq(Msgs) /\ <<>> \in Seq(Calls) /\ None \in Opt
    BY DEF Opt
  <2> QED BY <2>1 DEF NewBBA, State
<1>6. /\ s.messages = {} /\ s.delayedMessages = <<>> /\ s.calls = <<>> /\ s.binaryValues = <<>>
      /\ s.epoch = 0 /\ s.estimated = None /\ s.decision = None
      /\ s.recvAux = [j \in Validators |-> None]
  BY DEF NewBBA
<1> HIDE DEF s
<1>7. ASSUME NEW i \in Live PROVE NodeOK(s, i, nothing, nothing)
  <2>1. MessagesOK(s, nothing, nothing)
    BY <1>6 DEF MessagesOK, ToSet
  <2>2. ValuesOK(s, i, nothing, nothing)
    BY <1>3, <1>6 DEF ValuesOK
  <2>3. EstimatesOK(s, i, nothing, nothing) /\ DecisionOK(s, nothing)
    BY <1>6 DEF EstimatesOK, DecisionOK
  <2> QED BY <1>5, <2>1, <2>2, <2>3 DEF NodeOK
<1>8. NetOK(net, nothing, nothing)
  BY <1>1, NetOf DEF NetOK
<1>9. AllOK(bba, net, nothing, nothing)
  BY <1>1, <1>4, <1>5, <1>7, <1>8 DEF AllOK, s
<1>10. InputsAre(input, nothing)
  BY <1>1, <1>3 DEF InputsAre, Opt
<1> QED BY <1>2, <1>9, <1>10 DEF IInv

\* The instance never changes: what is said of it is said of the next state.
LEMMA SettingStays ==
    ASSUME setting' = setting
    PROVE  /\ Validators' = Validators /\ Live' = Live /\ N' = N /\ F' = F
           /\ Msgs' = Msgs /\ Calls' = Calls /\ State' = State /\ Record' = Record
<1>1. Validators' = Validators
  BY DEF Validators
<1>2. Live' = Live
  BY <1>1 DEF Live
<1>3. N' = N
  BY <1>1 DEF N
<1>4. F' = F
  BY <1>3 DEF F
<1>5. Msgs' = Msgs
  BY <1>2 DEF Msgs
<1>6. Calls' = Calls
  BY <1>5 DEF Calls
<1>7. State' = State
  BY <1>1, <1>5, <1>6 DEF State
<1>8. Record' = Record
  BY <1>2 DEF Record
<1> QED BY <1>1, <1>2, <1>3, <1>4, <1>5, <1>6, <1>7, <1>8

LEMMA KnownSame ==
    ASSUME setting' = setting, NEW est, NEW e, NEW v
    PROVE  Known(est, e, v)' <=> Known(est, e, v)
BY SettingStays DEF Known

LEMMA QuorumSame ==
    ASSUME setting' = setting, NEW Q
    PROVE  Quorum(Q)' <=> Quorum(Q)
BY SettingStays DEF Quorum

LEMMA MessageSame ==
    ASSUME setting' = setting, NEW m, NEW est, NEW aux
    PROVE  MessageOK(m, est, aux)' <=> MessageOK(m, est, aux)
BY KnownSame DEF MessageOK

LEMMA FollowsSame ==
    ASSUME setting' = setting, NEW s, NEW est, NEW aux, NEW e, NEW v
    PROVE  Follows(s, est, aux, e, v)' <=> Follows(s, est, aux, e, v)
BY KnownSame, QuorumSame DEF Follows

LEMMA DecidedSame ==
    ASSUME setting' = setting, NEW s, NEW aux, NEW e, NEW v
    PROVE  DecidedIn(s, aux, e, v)' <=> DecidedIn(s, aux, e, v)
BY QuorumSame, SettingStays DEF DecidedIn

LEMMA NodeSame ==
    ASSUME setting' = setting, NEW s, NEW i, NEW est, NEW aux
    PROVE  NodeOK(s, i, est, aux)' <=> NodeOK(s, i, est, aux)
<1>1. MessagesOK(s, est, aux)' <=> MessagesOK(s, est, aux)
  BY MessageSame DEF MessagesOK
<1>2. ValuesOK(s, i, est, aux)' <=> ValuesOK(s, i, est, aux)
  BY KnownSame, SettingStays DEF ValuesOK
<1>3. EstimatesOK(s, i, est, aux)' <=> EstimatesOK(s, i, est, aux)
  BY FollowsSame DEF EstimatesOK
<1>4. DecisionOK(s, aux)' <=> DecisionOK(s, aux)
  BY DecidedSame DEF DecisionOK
<1> QED BY <1>1, <1>2, <1>3, <1>4, SettingStays DEF NodeOK

LEMMA InvariantAfter ==
    ASSUME setting' = setting, IsFiniteSet(Validators), NEW est, NEW aux,
           AllOK(bba', net', est, aux), InputsAre(input', est)
    PROVE  IInv'
<1>1. IsFiniteSet(Validators)'
  BY SettingStays
<1>2. RecordsOK(est, aux)'
  BY SettingStays, KnownSame DEF AllOK, RecordsOK
<1>3. \A j \in Live' : NodeOK(bba[j], j, est, aux)'
  BY SettingStays, NodeSame DEF AllOK
<1>4. NetOK(net, est, aux)'
  BY SettingStays, MessageSame DEF AllOK, NetOK
<1>5. (bba \in [Live -> State])'
  BY SettingStays DEF AllOK
<1>6. AllOK(bba, net, est, aux)'
  BY <1>2, <1>3, <1>4, <1>5 DEF AllOK
<1>7. InputsAre(input, est)'
  BY SettingStays DEF InputsAre
<1> QED BY <1>1, <1>6, <1>7 DEF IInv

LEMMA NextKeeps ==
    ASSUME IInv, Next
    PROVE  IInv' /\ setting' = setting
<1>1. \E est2, aux2 : AllOK(bba', net', est2, aux2) /\ InputsAre(input', est2)
  BY InputKeeps, MessageKeeps, ContinueKeeps DEF Next
<1>2. setting' = setting
  BY DEF Next, Continue, InputValue, HandleMessage, Step
<1> QED BY <1>1, <1>2, InvariantAfter DEF IInv

LEMMA StutterKeeps ==
    ASSUME IInv, UNCHANGED bbaVars
    PROVE  IInv'
<1>1. setting' = setting /\ bba' = bba /\ net' = net /\ input' = input
  BY DEF bbaVars
<1>2. PICK est, aux : AllOK(bba, net, est, aux) /\ InputsAre(input, est)
  BY DEF IInv
<1>3. AllOK(bba', net', est, aux) /\ InputsAre(input', est)
  BY <1>1, <1>2
<1> QED BY <1>1, <1>3, InvariantAfter DEF IInv

(* In every behaviour there are records of what every validator estimated and
   sent as AUX, epoch by epoch, that explain every message, every estimate,
   every decision and every input (ACS_BBA.go:226-327).                    *)
THEOREM RecordsExist == Spec => []IInv
<1>1. Init => IInv
  BY InitHolds
<1>2. IInv /\ [Next]_bbaVars => IInv'
  BY NextKeeps, StutterKeeps
<1> QED BY <1>1, <1>2, PTL DEF Spec
-----------------------------------------------------------------------------
(* What the records say of the decisions. *)

LEMMA LeastNumber ==
    ASSUME NEW T \in SUBSET Nat, T # {}
    PROVE  \E x \in T : \A y \in T : x <= y
<1> DEFINE R == OpToRel(<, Nat)
<1>1. IsWellFoundedOn(R, Nat)
  BY NatLessThanWellFounded
<1>2. \A y, x \in Nat : y < x => <<y, x>> \in R
  BY DEF OpToRel
<1> HIDE DEF R
<1>3. PICK x \in T : \A y \in T : ~(<<y, x>> \in R)
  BY <1>1, WFMin
<1>4. ASSUME NEW y \in T PROVE x <= y
  <2>1. x \in Nat /\ y \in Nat /\ ~(y < x)
    BY <1>2, <1>3
  <2> QED BY <2>1
<1> QED BY <1>4

\* A value that is known came from an earlier epoch, unless one was doubled.
LEMMA KnownBefore ==
    ASSUME NEW est, NEW aux, AllOK(bba, net, est, aux), \A j \in Live : bba[j].doubled = {},
           NEW e \in Nat, NEW v \in Values, Known(est, e, v), NEW d \in Nat, d <= e
    PROVE  Known(est, d, v)
<1> DEFINE T == {n \in d..e : Known(est, n, v)}
<1>1. T \in SUBSET Nat /\ T # {}
  <2>1. e \in T
    OBVIOUS
  <2>2. d..e \subseteq Nat
    OBVIOUS
  <2> QED BY <2>1, <2>2
<1>2. PICK x \in T : \A y \in T : x <= y
  <2> HIDE DEF T
  <2> QED BY <1>1, LeastNumber
<1>3. x \in Nat /\ d <= x /\ x <= e /\ Known(est, x, v)
  BY <1>2
<1>4. CASE x > d
  <2> DEFINE b == x - 1
  <2>1. b \in Nat /\ b < x /\ b \in d..e /\ b + 1 = x
    BY <1>3, <1>4
  <2>2. PICK j \in Live : est[j][x] = v
    BY <1>3 DEF Known
  <2>3. NodeOK(bba[j], j, est, aux) /\ bba[j] \in State /\ bba[j].epoch \in Nat
    BY DEF AllOK, NodeOK, State
  <2>4. x <= bba[j].epoch
    BY <1>3, <2>2, <2>3, NoneIsNoValue DEF NodeOK, ValuesOK
  <2> HIDE DEF b
  <2>5. Follows(bba[j], est, aux, b, est[j][b + 1])
    BY <1>3, <2>1, <2>3, <2>4 DEF NodeOK, EstimatesOK
  <2>6. Known(est, b, v)
    BY <2>1, <2>2, <2>5 DEF Follows
  <2>7. b \in T
    BY <2>1, <2>6
  <2> HIDE DEF T
  <2> QED BY <1>2, <1>3, <2>1, <2>7
<1>5. CASE x = d
  BY <1>3, <1>5
<1> QED BY <1>3, <1>4, <1>5

LEMMA QuorumsMeet ==
    ASSUME IsFiniteSet(Validators), NEW i \in Live, NEW P, NEW Q, Quorum(P), Quorum(Q)
    PROVE  P \cap Q # {}
<1>1. /\ IsFiniteSet(Live) /\ N \in Nat /\ F \in Nat /\ 3 * F < N /\ Cardinality(Live) <= N
  BY SettingFacts
<1>2. P \subseteq Live /\ Q \subseteq Live /\ Cardinality(P) >= N - F /\ Cardinality(Q) >= N - F
  BY DEF Quorum
<1>3. /\ Cardinality(P) \in Nat /\ Cardinality(Q) \in Nat /\ Cardinality(Live) \in Nat
  BY <1>1, <1>2, FS_Subset, FS_CardinalityType
<1>4. Cardinality(P) + Cardinality(Q) > Cardinality(Live)
  BY <1>1, <1>2, <1>3
<1> QED BY <1>1, <1>2, <1>4, FS_MajoritiesIntersect

LEMMA InputDecided ==
    ASSUME IInv
    PROVE  DecisionWasInput
<1>1. PICK est, aux : AllOK(bba, net, est, aux) /\ InputsAre(input, est)
  BY DEF IInv
<1> SUFFICES ASSUME NEW i \in Live, bba[i].decision # None,
                    \A j \in Live : bba[j].doubled = {}
             PROVE  \E j \in Live : bba[i].decision = input[j]
  BY DEF DecisionWasInput
<1> DEFINE v == bba[i].decision
<1>2. NodeOK(bba[i], i, est, aux) /\ v \in Values /\ RecordsOK(est, aux)
  BY <1>1 DEF AllOK, NodeOK, State, Opt
<1>3. PICK e \in Nat : DecidedIn(bba[i], aux, e, v)
  BY <1>2 DEF NodeOK, DecisionOK
<1> HIDE DEF v
<1>4. Known(est, e, v)
  BY <1>2, <1>3, NoneIsNoValue DEF DecidedIn, RecordsOK
<1>5. Known(est, 0, v)
  BY <1>1, <1>2, <1>4, KnownBefore
<1> QED BY <1>1, <1>5 DEF Known, InputsAre, v

\* Once a clean quorum carried the coin of an epoch, the other value is lost.
LEMMA OtherValueLost ==
    ASSUME IsFiniteSet(Validators), NEW est, NEW aux, AllOK(bba, net, est, aux), Clean,
           NEW i \in Live, NEW d \in Nat, NEW v, DecidedIn(bba[i], aux, d, v),
           NEW e \in Nat, d < e, NEW w \in Values, w # v
    PROVE  ~Known(est, e, w)
<1> SUFFICES ASSUME Known(est, e, w) PROVE FALSE
  OBVIOUS
<1>1. v = Coin(d) /\ \E Q : Quorum(Q) /\ \A k \in Q : aux[k][d] = v
  BY DEF DecidedIn, Clean
<1>2. Known(est, d + 1, w)
  <2> DEFINE b == d + 1
  <2>1. b \in Nat /\ b <= e
    OBVIOUS
  <2> HIDE DEF b
  <2>2. Known(est, b, w)
    BY <2>1, KnownBefore DEF Clean
  <2> QED BY <2>2 DEF b
<1>3. PICK j \in Live : est[j][d + 1] = w
  BY <1>2 DEF Known
<1>4. NodeOK(bba[j], j, est, aux) /\ bba[j].epoch \in Nat
  BY DEF AllOK, NodeOK, State
<1>5. d < bba[j].epoch
  BY <1>3, <1>4, NoneIsNoValue DEF NodeOK, ValuesOK
<1>6. Follows(bba[j], est, aux, d, w)
  BY <1>3, <1>4, <1>5 DEF NodeOK, EstimatesOK
<1>7. \E Q : Quorum(Q) /\ \A k \in Q : aux[k][d] = w
  BY <1>1, <1>6 DEF Follows, Clean
<1>8. PICK P : Quorum(P) /\ \A k \in P : aux[k][d] = v
  BY <1>1
<1>9. PICK Q : Quorum(Q) /\ \A k \in Q : aux[k][d] = w
  BY <1>7
<1>10. P \cap Q # {}
  BY <1>8, <1>9, QuorumsMeet
<1> QED BY <1>8, <1>9, <1>10

LEMMA Agreed ==
    ASSUME IInv
    PROVE  AgreementUnlessMiscounted
<1>1. PICK est, aux : AllOK(bba, net, est, aux)
  BY DEF IInv
<1>2. IsFiniteSet(Validators) /\ RecordsOK(est, aux)
  BY <1>1 DEF IInv, AllOK
<1>3. ASSUME NEW i \in Live, NEW j \in Live, Clean, NEW d \in Nat, NEW e \in Nat, d < e,
             NEW v \in Values, NEW w \in Values, v # w,
             DecidedIn(bba[i], aux, d, v), DecidedIn(bba[j], aux, e, w)
      PROVE  FALSE
  <2>1. Known(est, e, w)
    BY <1>2, <1>3, NoneIsNoValue DEF DecidedIn, RecordsOK
  <2> QED BY <1>1, <1>2, <1>3, <2>1, OtherValueLost
<1> SUFFICES ASSUME NEW i \in Live, NEW j \in Live, Clean,
                    {bba[i].decision, bba[j].decision} = Values
             PROVE  FALSE
  BY DEF AgreementUnlessMiscounted
<1> DEFINE v == bba[i].decision
           w == bba[j].decision
<1>4. v \in Values /\ w \in Values /\ v # w
  BY DEF Values
<1>5. NodeOK(bba[i], i, est, aux) /\ NodeOK(bba[j], j, est, aux)
  BY <1>1 DEF AllOK
<1>6. PICK d \in Nat : DecidedIn(bba[i], aux, d, v)
  BY <1>4, <1>5, NoneIsNoValue DEF NodeOK, DecisionOK
<1>7. PICK e \in Nat : DecidedIn(bba[j], aux, e, w)
  BY <1>4, <1>5, NoneIsNoValue DEF NodeOK, DecisionOK
<1> HIDE DEF v, w
<1>8. d # e
  BY <1>4, <1>6, <1>7 DEF DecidedIn
<1> QED BY <1>3, <1>4, <1>6, <1>7, <1>8

(* Whatever the instance: two nodes decide differently only after some node
   left an epoch with an AUX of a value it did not accept, or with one value
   that it had listed twice (ACS_BBA.go:252-254, 289, 311, 345-361).       *)
THEOREM AgreementHolds == Spec => []AgreementUnlessMiscounted
<1>1. IInv => AgreementUnlessMiscounted
  BY Agreed
<1> QED BY <1>1, RecordsExist, PTL

(* Whatever the instance: a decision was the input of some node, unless some
   node listed a value twice (ACS_BBA.go:226-327).                         *)
THEOREM DecisionsAreInputs == Spec => []DecisionWasInput
<1>1. IInv => DecisionWasInput
  BY InputDecided
<1> QED BY <1>1, RecordsExist, PTL
-----------------------------------------------------------------------------
(* With 2F+1 validators alive or fewer, nobody leaves epoch 1.  What holds  *)
(* of node i in state s when the nodes are in the states of nodes:          *)

\* Who entered epoch 1 with the estimate v.
Holders(nodes, v) == {j \in Live : nodes[j].epoch = 1 /\ nodes[j].estimated = v}
Backed(nodes, v) == Cardinality(Holders(nodes, v)) >= F + 1

\* A message of epoch 1 was sent in epoch 1 for a reason that still holds.
Item(nodes, m) ==
    /\ m.epoch <= 1
    /\ m.epoch = 1 =>
          /\ nodes[m.from].epoch = 1
          /\ m.kind = "BVAL" => m.val \in nodes[m.from].sentBinaryValue
          /\ m.kind = "AUX" => nodes[m.from].binaryValues # <<>>

\* A node never handles the BVAL of its own estimate.
NotOwn(s, i, m) ==
    m.from = i /\ m.epoch = 1 /\ m.kind = "BVAL" /\ s.epoch = 1 => m.val # s.estimated

SentOK(nodes, s) ==
    /\ s.estimated \in s.sentBinaryValue
    /\ \A v \in s.sentBinaryValue : v = s.estimated \/ Backed(nodes, v)

RecvOK(nodes, s, i, recv) ==
    /\ \A j \in Validators :
          \/ recv[j] = None
          \/ j \in Live /\ nodes[j].epoch = 1 /\ recv[j] \in nodes[j].sentBinaryValue
    /\ recv[i] # s.estimated

AuxOK(nodes, recvAux) ==
    \A j \in Validators :
       recvAux[j] = None \/ (j \in Live /\ nodes[j].epoch = 1 /\ nodes[j].binaryValues # <<>>)

AcceptedOK(nodes, s, accepted) ==
    \A k \in DOMAIN accepted : accepted[k] # s.estimated /\ Backed(nodes, accepted[k])

Entered(nodes, s, i) ==
    /\ SentOK(nodes, s) /\ RecvOK(nodes, s, i, s.recvBinaryValue)
    /\ AuxOK(nodes, s.recvAux) /\ AcceptedOK(nodes, s, s.binaryValues)

Pending(nodes, s, i, m) == Item(nodes, m) /\ NotOwn(s, i, m)

NodeStops(nodes, s, i) ==
    /\ s.epoch <= 1
    /\ \A m \in s.messages : m.from = i /\ Item(nodes, m)
    /\ \A m \in ToSet(s.delayedMessages) : Pending(nodes, s, i, m)
    /\ \A m \in ToSet(s.calls) : m = EndOfReplay \/ Pending(nodes, s, i, m)
    /\ s.epoch = 1 => Entered(nodes, s, i)

AllStop(nodes) ==
    nodes \in [Live -> State] /\ \A j \in Live : NodeStops(nodes, nodes[j], j)

\* A node in epoch 1 stays there with its estimate, and what it sent or
\* accepted stays sent or accepted.
Grows(s, r) ==
    s.epoch = 1 =>
       /\ r.epoch = 1 /\ r.estimated = s.estimated
       /\ s.sentBinaryValue \subseteq r.sentBinaryValue
       /\ s.binaryValues # <<>> => r.binaryValues # <<>>

Advance(nodes, new) ==
    /\ nodes \in [Live -> State] /\ new \in [Live -> State]
    /\ \A j \in Live : Grows(nodes[j], new[j])

LEMMA ItemStays ==
    ASSUME NEW nodes, NEW new, Advance(nodes, new), NEW m \in Msgs, Item(nodes, m)
    PROVE  Item(new, m)
BY DEF Advance, Grows, Item, Msgs

LEMMA BackedStays ==
    ASSUME IsFiniteSet(Validators), NEW nodes, NEW new, Advance(nodes, new), NEW v, Backed(nodes, v)
    PROVE  Backed(new, v)
<1>1. Holders(nodes, v) \subseteq Holders(new, v)
  BY DEF Advance, Grows, Holders
<1>2. IsFiniteSet(Holders(new, v))
  <2>1. Holders(new, v) \subseteq Validators
    BY DEF Holders, Live
  <2> QED BY <2>1, FS_Subset
<1>3. /\ Cardinality(Holders(nodes, v)) <= Cardinality(Holders(new, v))
      /\ Cardinality(Holders(nodes, v)) \in Nat /\ Cardinality(Holders(new, v)) \in Nat
  BY <1>1, <1>2, FS_Subset, FS_CardinalityType
<1>4. N \in Nat /\ F \in Int
  BY FS_CardinalityType DEF N, F
<1> QED BY <1>3, <1>4 DEF Backed

LEMMA EnteredStays ==
    ASSUME IsFiniteSet(Validators), NEW nodes, NEW new, Advance(nodes, new), NEW i \in Live,
           NEW s \in State, Entered(nodes, s, i)
    PROVE  Entered(new, s, i)
<1>1. SentOK(new, s)
  BY BackedStays DEF Entered, SentOK
<1>2. AcceptedOK(new, s, s.binaryValues)
  BY BackedStays DEF Entered, AcceptedOK
<1>3. RecvOK(new, s, i, s.recvBinaryValue)
  BY DEF Entered, RecvOK, Advance, Grows
<1>4. AuxOK(new, s.recvAux)
  BY DEF Entered, AuxOK, Advance, Grows
<1> QED BY <1>1, <1>2, <1>3, <1>4 DEF Entered

LEMMA NodeStopsStays ==
    ASSUME IsFiniteSet(Validators), NEW nodes, NEW new, Advance(nodes, new), NEW i \in Live,
           NEW s \in State, NodeStops(nodes, s, i)
    PROVE  NodeStops(new, s, i)
<1>1. s.messages \subseteq Msgs /\ s.delayedMessages \in Seq(Msgs) /\ s.calls \in Seq(Calls)
  BY DEF State
<1>2. ToSet(s.delayedMessages) \subseteq Msgs /\ ToSet(s.calls) \subseteq Calls
  BY <1>1 DEF ToSet
<1>3. \A m \in s.messages : m.from = i /\ Item(new, m)
  BY <1>1, ItemStays DEF NodeStops
<1>4. \A m \in ToSet(s.delayedMessages) : Pending(new, s, i, m)
  BY <1>2, ItemStays DEF NodeStops, Pending
<1>5. \A m \in ToSet(s.calls) : m = EndOfReplay \/ Pending(new, s, i, m)
  BY <1>2, ItemStays DEF NodeStops, Pending, Calls
<1>6. s.epoch = 1 => Entered(new, s, i)
  BY EnteredStays DEF NodeStops
<1> QED BY <1>3, <1>4, <1>5, <1>6 DEF NodeStops

\* One BVAL more.
LEMMA RecvCounts ==
    ASSUME NEW nodes, NEW i \in Live, NEW s \in State, RecvOK(nodes, s, i, s.recvBinaryValue),
           NEW m \in Msgs, Pending(nodes, s, i, m), Current(s, m, "BVAL"), s.epoch = 1
    PROVE  RecvOK(nodes, s, i, [s.recvBinaryValue EXCEPT ![m.from] = m.val])
<1>1. m.epoch = 1 /\ m.kind = "BVAL"
  BY DEF Current
<1>2. m.from \in Live /\ nodes[m.from].epoch = 1 /\ m.val \in nodes[m.from].sentBinaryValue
  BY <1>1 DEF Pending, Item, Msgs
<1>3. m.from = i => m.val # s.estimated
  BY <1>1 DEF Pending, NotOwn
<1>4. s.recvBinaryValue \in [Validators -> Opt]
  BY DEF State
<1> DEFINE recv == [s.recvBinaryValue EXCEPT ![m.from] = m.val]
<1>5. \A j \in Validators : recv[j] = IF j = m.from THEN m.val ELSE s.recvBinaryValue[j]
  BY <1>4
<1>6. i \in Validators
  BY DEF Live
<1> HIDE DEF recv
<1> QED BY <1>2, <1>3, <1>5, <1>6 DEF RecvOK, recv

\* F+1 senders of a value: one of them echoed it, or they all estimate it.
LEMMA EchoBacked ==
    ASSUME IsFiniteSet(Validators), NEW nodes, AllStop(nodes), NEW i \in Live, NEW s, s = nodes[i],
           NEW recv, RecvOK(nodes, s, i, recv), NEW v \in Values,
           Cardinality(Senders(recv, v)) = F + 1
    PROVE  Backed(nodes, v)
<1>1. \A j \in Senders(recv, v) : j \in Live /\ nodes[j].epoch = 1 /\ v \in nodes[j].sentBinaryValue
  BY NoneIsNoValue DEF Senders, RecvOK
<1>2. \A j \in Senders(recv, v) : nodes[j].estimated = v \/ Backed(nodes, v)
  BY <1>1 DEF AllStop, NodeStops, Entered, SentOK
<1>3. ASSUME \A j \in Senders(recv, v) : nodes[j].estimated = v
      PROVE  Backed(nodes, v)
  <2>1. Senders(recv, v) \subseteq Holders(nodes, v) /\ Holders(nodes, v) \subseteq Validators
    BY <1>1, <1>3 DEF Holders, Live
  <2>2. IsFiniteSet(Holders(nodes, v))
    BY <2>1, FS_Subset
  <2>3. Cardinality(Senders(recv, v)) <= Cardinality(Holders(nodes, v))
    BY <2>1, <2>2, FS_Subset
  <2> QED BY <2>3 DEF Backed
<1> QED BY <1>2, <1>3

\* 2F+1 senders are everybody, this node with an echo among them.
LEMMA AcceptBacked ==
    ASSUME IsFiniteSet(Validators), Cardinality(Live) <= 2 * F + 1, NEW nodes, AllStop(nodes),
           NEW i \in Live, NEW s, s = nodes[i], s.epoch = 1,
           NEW recv, RecvOK(nodes, s, i, recv), NEW v \in Values,
           Cardinality(Senders(recv, v)) = 2 * F + 1
    PROVE  v # s.estimated /\ Backed(nodes, v)
<1>1. Senders(recv, v) \subseteq Live
  BY NoneIsNoValue DEF Senders, RecvOK
<1>2. IsFiniteSet(Live)
  BY SettingFacts
<1>3. Senders(recv, v) = Live
  BY <1>1, <1>2, FS_Subset, FS_CardinalityType, SettingFacts
<1>4. recv[i] = v
  BY <1>3 DEF Senders
<1>5. v # s.estimated /\ v \in s.sentBinaryValue
  BY <1>4, NoneIsNoValue DEF RecvOK, Live
<1> QED BY <1>5 DEF AllStop, NodeStops, Entered, SentOK
\* Whoever sent an AUX has the other estimate, and each of the two estimates
\* has F+1 holders: more than are alive.
LEMMA NoLeave ==
    ASSUME IsFiniteSet(Validators), Cardinality(Live) <= 2 * F + 1, NEW nodes, AllStop(nodes),
           NEW i \in Live, NEW s, s = nodes[i], s.epoch = 1, NEW m \in Msgs, Pending(nodes, s, i, m),
           Current(s, m, "AUX"), AuxComplete(WithAux(s, m))
    PROVE  FALSE
<1> DEFINE t == WithAux(s, m)
           A == Validators \ Senders(t.recvAux, None)
<1>1. s \in State /\ AuxOK(nodes, s.recvAux)
  BY DEF AllStop, NodeStops, Entered
<1>2. m.from \in Live /\ nodes[m.from].epoch = 1 /\ nodes[m.from].binaryValues # <<>>
  BY DEF Current, Pending, Item, Msgs
<1>3. t.recvAux = [s.recvAux EXCEPT ![m.from] = m.val] /\ t.binaryValues = s.binaryValues
  BY <1>1, WithAuxType
<1>4. \A j \in A : j \in Live /\ nodes[j].epoch = 1 /\ nodes[j].binaryValues # <<>>
  <2> TAKE j \in A
  <2>1. t.recvAux[j] # None
    BY DEF Senders
  <2>2. j = m.from \/ s.recvAux[j] # None
    BY <1>1, <1>3, <2>1 DEF State
  <2> QED BY <1>1, <1>2, <2>2 DEF AuxOK
<1>5. Cardinality(A) >= N - F
  BY DEF AuxComplete
<1> HIDE DEF A
<1>6. A = Live
  <2>1. /\ IsFiniteSet(Live) /\ N \in Nat /\ F \in Nat /\ 3 * F < N
    BY SettingFacts
  <2>2. A \subseteq Live
    BY <1>4
  <2>3. /\ Cardinality(A) <= Cardinality(Live) /\ Cardinality(A) \in Nat
        /\ Cardinality(Live) \in Nat
        /\ Cardinality(A) = Cardinality(Live) => A = Live
    BY <2>1, <2>2, FS_Subset, FS_CardinalityType
  <2>4. Cardinality(A) = Cardinality(Live)
    BY <1>5, <2>1, <2>3
  <2> QED BY <2>3, <2>4
<1>7. \A j \in Live : \E v \in Values : v # nodes[j].estimated /\ Backed(nodes, v)
  <2> TAKE j \in Live
  <2>1. nodes[j] \in State /\ AcceptedOK(nodes, nodes[j], nodes[j].binaryValues)
    BY <1>4, <1>6 DEF AllStop, NodeStops, Entered
  <2> DEFINE b == nodes[j].binaryValues
  <2>2. b \in Seq(Values) /\ b # <<>>
    BY <1>4, <1>6, <2>1 DEF State
  <2> HIDE DEF b
  <2>3. 1 \in DOMAIN b /\ b[1] \in Values
    BY <2>2
  <2> QED BY <2>1, <2>3 DEF AcceptedOK, b
<1>8. PICK v \in Values : Backed(nodes, v)
  BY <1>7
<1>9. /\ IsFiniteSet(Live) /\ F \in Nat /\ Cardinality(Live) \in Nat
      /\ \A u : /\ Holders(nodes, u) \subseteq Live
                /\ IsFiniteSet(Holders(nodes, u))
                /\ Cardinality(Holders(nodes, u)) \in Nat
  <2>1. IsFiniteSet(Live) /\ F \in Nat /\ Cardinality(Live) \in Nat
    BY SettingFacts, FS_CardinalityType
  <2>2. ASSUME NEW u
        PROVE  /\ Holders(nodes, u) \subseteq Live /\ IsFiniteSet(Holders(nodes, u))
               /\ Cardinality(Holders(nodes, u)) \in Nat
    <3>1. Holders(nodes, u) \subseteq Live
      BY DEF Holders
    <3> QED BY <2>1, <3>1, FS_Subset, FS_CardinalityType
  <2> QED BY <2>1, <2>2
<1>10. PICK j \in Live : nodes[j].estimated = v
  <2>1. Holders(nodes, v) # {}
    BY <1>8, <1>9, FS_EmptySet DEF Backed
  <2> QED BY <2>1 DEF Holders
<1>11. PICK w \in Values : w # v /\ Backed(nodes, w)
  BY <1>7, <1>10
<1>12. Cardinality(Holders(nodes, v)) + Cardinality(Holders(nodes, w)) > Cardinality(Live)
  BY <1>8, <1>9, <1>11 DEF Backed
<1>13. Holders(nodes, v) \cap Holders(nodes, w) # {}
  BY <1>9, <1>12, FS_MajoritiesIntersect
<1> QED BY <1>11, <1>13 DEF Holders

\* A step of i within its epoch, or from epoch 0 to epoch 1.
Moves(s, r) == \/ r.epoch = s.epoch /\ (s.epoch = 1 => r.estimated = s.estimated)
               \/ s.epoch = 0 /\ r.epoch = 1

Replaced(nodes, new, i, r) ==
    new \in [Live -> State] /\ new[i] = r /\ \A j \in Live : j # i => new[j] = nodes[j]

OwnOK(new, r, i, sent, called) ==
    /\ \A m \in sent : m.from = i /\ Item(new, m)
    /\ \A m \in called : Pending(new, r, i, m)

LEMMA Assemble ==
    ASSUME IsFiniteSet(Validators), NEW nodes, AllStop(nodes), NEW i \in Live, NEW s, s = nodes[i],
           NEW r \in State, NEW new, Replaced(nodes, new, i, r), Grows(s, r), Moves(s, r),
           NEW sent, NEW called, Sources(s, r, sent, called),
           OwnOK(new, r, i, sent, called),
           r.epoch = 1 => Entered(new, r, i)
    PROVE  AllStop(new)
<1>1. nodes \in [Live -> State] /\ s \in State /\ NodeStops(nodes, s, i) /\ s.epoch \in Nat
  BY DEF AllStop, State
<1>2. new \in [Live -> State] /\ new[i] = r /\ \A j \in Live : j # i => new[j] = nodes[j]
  BY DEF Replaced
<1>3. Advance(nodes, new)
  BY <1>1, <1>2 DEF Advance, Grows
<1>4. NodeStops(new, s, i)
  BY <1>1, <1>3, NodeStopsStays
<1>5. ASSUME NEW m \in Msgs, Pending(nodes, s, i, m)
      PROVE  Pending(new, r, i, m)
  <2>1. Item(new, m)
    BY <1>3, <1>5, ItemStays DEF Pending
  <2>2. CASE r.epoch = s.epoch /\ (s.epoch = 1 => r.estimated = s.estimated)
    BY <1>5, <2>1, <2>2 DEF Pending, NotOwn
  <2>3. CASE s.epoch = 0 /\ r.epoch = 1
    <3>1. ~(m.from = i /\ m.epoch = 1)
      BY <1>5, <2>3 DEF Pending, Item
    <3> QED BY <2>1, <3>1 DEF Pending, NotOwn
  <2> QED BY <2>2, <2>3 DEF Moves
<1>6. /\ ToSet(s.delayedMessages) \subseteq Msgs /\ ToSet(s.calls) \subseteq Calls
  BY <1>1 DEF State, ToSet
<1>7. EndOfReplay \notin Msgs
  BY DEF EndOfReplay, Msgs
<1>8. /\ \A m \in ToSet(s.delayedMessages) : Pending(nodes, s, i, m)
      /\ \A m \in ToSet(s.calls) : m = EndOfReplay \/ Pending(nodes, s, i, m)
      /\ \A m \in s.messages : m.from = i /\ Item(new, m)
  BY <1>1, <1>4 DEF NodeStops
<1>9. \A m \in r.messages : m.from = i /\ Item(new, m)
  BY <1>8 DEF Sources, OwnOK
<1>10. \A m \in ToSet(r.delayedMessages) : Pending(new, r, i, m)
  BY <1>5, <1>6, <1>7, <1>8 DEF Sources
<1>11. \A m \in ToSet(r.calls) : m = EndOfReplay \/ Pending(new, r, i, m)
  BY <1>5, <1>6, <1>8 DEF Sources, OwnOK, Calls
<1>12. r.epoch <= 1
  BY <1>1 DEF Moves, NodeStops
<1>13. NodeStops(new, r, i)
  BY <1>9, <1>10, <1>11, <1>12 DEF NodeStops
<1>14. \A j \in Live : j # i => NodeStops(new, new[j], j)
  BY <1>1, <1>2, <1>3, NodeStopsStays DEF AllStop
<1> QED BY <1>2, <1>13, <1>14 DEF AllStop
\* What a call that ends no epoch leaves alone.
Idle(s, r, m) == Ignores(s, r, m) \/ Delays(s, r, m) \/ EndsReplay(s, r, m)

CountsBVal(s, r, i, m) ==
    \/ Counts(s, r, m) \/ Echoes(s, r, i, m)
    \/ Accepts(s, r, m) \/ AcceptsFirst(s, r, i, m)

Within(s, r, i, m) ==
    /\ Idle(s, r, m) \/ CountsAux(s, r, m) \/ CountsBVal(s, r, i, m)
         => r.epoch = s.epoch /\ r.estimated = s.estimated
    /\ Idle(s, r, m) \/ CountsAux(s, r, m) => r.recvBinaryValue = s.recvBinaryValue
    /\ Idle(s, r, m) \/ CountsBVal(s, r, i, m) => r.recvAux = s.recvAux
    /\ CountsBVal(s, r, i, m)
         => r.recvBinaryValue = [s.recvBinaryValue EXCEPT ![m.from] = m.val]
    /\ CountsAux(s, r, m) => r.recvAux = [s.recvAux EXCEPT ![m.from] = m.val]
    /\ (Idle(s, r, m) \/ CountsAux(s, r, m) \/ CountsBVal(s, r, i, m)) /\ ~Echoes(s, r, i, m)
         => r.sentBinaryValue = s.sentBinaryValue
    /\ Echoes(s, r, i, m) => r.sentBinaryValue = s.sentBinaryValue \cup {m.val}
    /\ Idle(s, r, m) \/ CountsAux(s, r, m) \/ Counts(s, r, m) \/ Echoes(s, r, i, m)
         => r.binaryValues = s.binaryValues
    /\ Accepts(s, r, m) \/ AcceptsFirst(s, r, i, m)
         => r.binaryValues = Append(s.binaryValues, m.val)

LEMMA SameFields ==
    ASSUME NEW s \in State, NEW i, NEW m, NEW r
    PROVE  Within(s, r, i, m)
<1> DEFINE tail == Tail(s.calls)
           d == Append(s.delayedMessages, m)
           recv == [s.recvBinaryValue EXCEPT ![m.from] = m.val]
           recvAux == [s.recvAux EXCEPT ![m.from] = m.val]
           b == Append(s.binaryValues, m.val)
           own(kind) == Message(i, s, kind, m.val)
           called(kind) == <<own(kind)>> \o tail
           bval == own("BVAL")
           aux == own("AUX")
           calledBval == called("BVAL")
           calledAux == called("AUX")
<1>1. ASSUME Ignores(s, r, m) PROVE r = [s EXCEPT !.calls = tail]
  BY <1>1 DEF Ignores
<1>2. ASSUME Delays(s, r, m) PROVE r = [s EXCEPT !.calls = tail, !.delayedMessages = d]
  BY <1>2 DEF Delays
<1>3. ASSUME EndsReplay(s, r, m) PROVE r = [s EXCEPT !.calls = tail, !.delayedMessages = <<>>]
  BY <1>3 DEF EndsReplay
<1>4. ASSUME CountsAux(s, r, m)
      PROVE  \E done \in BOOLEAN : r = [s EXCEPT !.calls = tail, !.recvAux = recvAux, !.done = done]
  BY <1>4 DEF CountsAux
<1>5. ASSUME Counts(s, r, m) PROVE r = [s EXCEPT !.calls = tail, !.recvBinaryValue = recv]
  BY <1>5 DEF Counts
<1>6. ASSUME Echoes(s, r, i, m)
      PROVE  r = [s EXCEPT !.calls = calledBval, !.recvBinaryValue = recv,
                           !.sentBinaryValue = s.sentBinaryValue \cup {m.val},
                           !.messages = s.messages \cup {bval}]
  BY <1>6 DEF Echoes
<1>7. ASSUME Accepts(s, r, m)
      PROVE  r = [s EXCEPT !.calls = tail, !.recvBinaryValue = recv, !.binaryValues = b]
  BY <1>7 DEF Accepts
<1>8. ASSUME AcceptsFirst(s, r, i, m)
      PROVE  r = [s EXCEPT !.calls = calledAux, !.recvBinaryValue = recv, !.binaryValues = b,
                           !.messages = s.messages \cup {aux}]
  BY <1>8 DEF AcceptsFirst
<1> HIDE DEF tail, d, recv, recvAux, b, bval, aux, calledBval, calledAux
<1>9. ASSUME Ignores(s, r, m) \/ Delays(s, r, m) \/ EndsReplay(s, r, m)
      PROVE  /\ r.epoch = s.epoch /\ r.estimated = s.estimated /\ r.binaryValues = s.binaryValues
             /\ r.recvBinaryValue = s.recvBinaryValue /\ r.recvAux = s.recvAux
             /\ r.sentBinaryValue = s.sentBinaryValue
  BY <1>1, <1>2, <1>3, <1>9 DEF State
<1>10. ASSUME CountsAux(s, r, m)
       PROVE  /\ r.epoch = s.epoch /\ r.estimated = s.estimated /\ r.binaryValues = s.binaryValues
              /\ r.recvBinaryValue = s.recvBinaryValue /\ r.recvAux = recvAux
              /\ r.sentBinaryValue = s.sentBinaryValue
  BY <1>4, <1>10 DEF State
<1>11. ASSUME Counts(s, r, m)
       PROVE  /\ r.epoch = s.epoch /\ r.estimated = s.estimated /\ r.binaryValues = s.binaryValues
              /\ r.recvBinaryValue = recv /\ r.recvAux = s.recvAux
              /\ r.sentBinaryValue = s.sentBinaryValue
  BY <1>5, <1>11 DEF State
<1>12. ASSUME Echoes(s, r, i, m)
       PROVE  /\ r.epoch = s.epoch /\ r.estimated = s.estimated /\ r.binaryValues = s.binaryValues
              /\ r.recvBinaryValue = recv /\ r.recvAux = s.recvAux
              /\ r.sentBinaryValue = s.sentBinaryValue \cup {m.val}
  BY <1>6, <1>12 DEF State
<1>13. ASSUME Accepts(s, r, m) \/ AcceptsFirst(s, r, i, m)
       PROVE  /\ r.epoch = s.epoch /\ r.estimated = s.estimated /\ r.binaryValues = b
              /\ r.recvBinaryValue = recv /\ r.recvAux = s.recvAux
              /\ r.sentBinaryValue = s.sentBinaryValue
  BY <1>7, <1>8, <1>13 DEF State
<1> QED BY <1>9, <1>10, <1>11, <1>12, <1>13 DEF Within, recv, recvAux, b, Idle, CountsBVal

LEMMA LeaveFields ==
    ASSUME NEW s \in State, NEW i, NEW m, NEW r, Leaves(s, r, i, m)
    PROVE  /\ r.epoch = s.epoch + 1 /\ r.binaryValues = <<>> /\ r.sentBinaryValue = {r.estimated}
           /\ r.recvBinaryValue = [j \in Validators |-> None]
           /\ r.recvAux = [j \in Validators |-> None]
<1> DEFINE t == WithAux(s, m)
           next == [s EXCEPT !.epoch = s.epoch + 1]
           v == Estimate(t)
           c == (s.delayedMessages \o <<EndOfReplay>>) \o Tail(s.calls)
           f == Ended(s.foreign, s, Foreign(t))
           d == Ended(s.doubled, s, Doubled(t))
           own == Message(i, next, "BVAL", v)
           nil == [j \in Validators |-> None]
           e == s.epoch + 1
           dec == Decide(t)
<1> HIDE DEF t, next, v, c, f, d, own, nil, e, dec
<1>1. r = [s EXCEPT !.calls = c, !.epoch = e, !.binaryValues = <<>>,
                    !.sentBinaryValue = {v}, !.recvBinaryValue = nil, !.recvAux = nil,
                    !.estimated = v, !.decision = dec, !.foreign = f, !.doubled = d,
                    !.messages = s.messages \cup {own}]
  BY DEF Leaves, nil, t, next, v, c, f, d, own, e, dec
<1>2. /\ r.epoch = e /\ r.binaryValues = <<>> /\ r.sentBinaryValue = {v} /\ r.estimated = v
      /\ r.recvBinaryValue = nil /\ r.recvAux = nil
  BY <1>1 DEF State
<1> QED BY <1>2 DEF nil, e

LEMMA PartsStay ==
    ASSUME IsFiniteSet(Validators), NEW nodes, NEW new, Advance(nodes, new), NEW i \in Live,
           NEW s, NEW r, r.estimated = s.estimated
    PROVE  /\ SentOK(nodes, s) /\ r.sentBinaryValue = s.sentBinaryValue => SentOK(new, r)
           /\ \A recv : RecvOK(nodes, s, i, recv) => RecvOK(new, r, i, recv)
           /\ \A recvAux : AuxOK(nodes, recvAux) => AuxOK(new, recvAux)
           /\ \A b : AcceptedOK(nodes, s, b) => AcceptedOK(new, r, b)
<1>1. SentOK(nodes, s) /\ r.sentBinaryValue = s.sentBinaryValue => SentOK(new, r)
  BY BackedStays DEF SentOK
<1>2. \A recv : RecvOK(nodes, s, i, recv) => RecvOK(new, r, i, recv)
  BY DEF RecvOK, Advance, Grows
<1>3. \A recvAux : AuxOK(nodes, recvAux) => AuxOK(new, recvAux)
  BY DEF AuxOK, Advance, Grows
<1>4. \A b : AcceptedOK(nodes, s, b) => AcceptedOK(new, r, b)
  BY BackedStays DEF AcceptedOK
<1> QED BY <1>1, <1>2, <1>3, <1>4

LEMMA AuxCounts ==
    ASSUME NEW nodes, NEW i \in Live, NEW s \in State, AuxOK(nodes, s.recvAux),
           NEW m \in Msgs, Pending(nodes, s, i, m), Current(s, m, "AUX"), s.epoch = 1
    PROVE  AuxOK(nodes, [s.recvAux EXCEPT ![m.from] = m.val])
<1>1. m.from \in Live /\ nodes[m.from].epoch = 1 /\ nodes[m.from].binaryValues # <<>>
  BY DEF Current, Pending, Item, Msgs
<1>2. s.recvAux \in [Validators -> Opt]
  BY DEF State
<1> QED BY <1>1, <1>2 DEF AuxOK

\* The parts of Entered after a call that ends no epoch, from the state before.
LEMMA StaysEntered ==
    ASSUME IsFiniteSet(Validators), Cardinality(Live) <= 2 * F + 1, NEW nodes, AllStop(nodes),
           NEW i \in Live, NEW s, s = nodes[i], s.epoch = 1,
           NEW m, m # EndOfReplay => m \in Msgs /\ Pending(nodes, s, i, m), NEW r \in State,
           Outcome(s, r, i, m), ~Leaves(s, r, i, m),
           NEW new, Advance(nodes, new)
    PROVE  Entered(new, r, i)
<1> DEFINE recv == [s.recvBinaryValue EXCEPT ![m.from] = m.val]
<1>1. s \in State /\ Entered(nodes, s, i)
  BY DEF AllStop, NodeStops
<1>0. Within(s, r, i, m)
  BY <1>1, SameFields
<1>2. r.estimated = s.estimated
  BY <1>1, <1>0 DEF Within, Outcome, Idle, CountsBVal
<1>3. ASSUME CountsBVal(s, r, i, m)
      PROVE  m \in Msgs /\ m.val \in Values /\ RecvOK(nodes, s, i, recv)
  <2>1. Current(s, m, "BVAL")
    BY <1>3 DEF CountsBVal, Counts, Echoes, Accepts, AcceptsFirst
  <2>2. m \in Msgs /\ Pending(nodes, s, i, m)
    BY <2>1 DEF Current
  <2> QED BY <1>1, <2>1, <2>2, RecvCounts DEF Entered, Msgs
<1>4. RecvOK(new, r, i, r.recvBinaryValue)
  <2>1. CASE CountsBVal(s, r, i, m)
    <3>1. r.recvBinaryValue = recv
      BY <1>1, <2>1, <1>0 DEF Within, CountsBVal
    <3> QED BY <1>2, <1>3, <2>1, <3>1, PartsStay
  <2>2. CASE ~CountsBVal(s, r, i, m)
    <3>1. r.recvBinaryValue = s.recvBinaryValue
      BY <1>1, <2>2, <1>0 DEF Within, Outcome, Idle, CountsBVal
    <3> QED BY <1>1, <1>2, <3>1, PartsStay DEF Entered
  <2> QED BY <2>1, <2>2
<1>5. AuxOK(new, r.recvAux)
  <2>1. CASE CountsAux(s, r, m)
    <3>1. Current(s, m, "AUX")
      BY <2>1 DEF CountsAux
    <3>2. m \in Msgs /\ Pending(nodes, s, i, m)
      BY <3>1 DEF Current
    <3>3. AuxOK(nodes, [s.recvAux EXCEPT ![m.from] = m.val])
      BY <1>1, <3>1, <3>2, AuxCounts DEF Entered
    <3>4. r.recvAux = [s.recvAux EXCEPT ![m.from] = m.val]
      BY <1>1, <2>1, <1>0 DEF Within, CountsBVal
    <3> QED BY <1>2, <3>3, <3>4, PartsStay
  <2>2. CASE ~CountsAux(s, r, m)
    <3>1. r.recvAux = s.recvAux
      BY <1>1, <2>2, <1>0 DEF Within, Outcome, Idle, CountsBVal
    <3> QED BY <1>1, <1>2, <3>1, PartsStay DEF Entered
  <2> QED BY <2>1, <2>2
<1>6. SentOK(new, r)
  <2>1. CASE Echoes(s, r, i, m)
    <3>1. Cardinality(Senders(recv, m.val)) = F + 1
      BY <2>1 DEF Echoes, Counted
    <3>2. Backed(nodes, m.val)
      <4> HIDE DEF recv
      <4>1. CountsBVal(s, r, i, m)
        BY <2>1 DEF CountsBVal
      <4> QED BY <1>3, <4>1, <3>1, EchoBacked
    <3>3. r.sentBinaryValue = s.sentBinaryValue \cup {m.val}
      BY <1>1, <2>1, <1>0 DEF Within, CountsBVal
    <3>4. SentOK(nodes, r)
      BY <1>1, <1>2, <3>2, <3>3 DEF Entered, SentOK
    <3> QED BY <3>4, PartsStay
  <2>2. CASE ~Echoes(s, r, i, m)
    <3>1. r.sentBinaryValue = s.sentBinaryValue
      BY <1>1, <2>2, <1>0 DEF Within, Outcome, Idle, CountsBVal
    <3> QED BY <1>1, <1>2, <3>1, PartsStay DEF Entered
  <2> QED BY <2>1, <2>2
<1>7. AcceptedOK(new, r, r.binaryValues)
  <2>1. CASE Accepts(s, r, m) \/ AcceptsFirst(s, r, i, m)
    <3>1. Cardinality(Senders(recv, m.val)) = 2 * F + 1
      BY <2>1 DEF Accepts, AcceptsFirst, Counted
    <3>2. m.val # s.estimated /\ Backed(nodes, m.val)
      <4> HIDE DEF recv
      <4>1. CountsBVal(s, r, i, m)
        BY <2>1 DEF CountsBVal
      <4> QED BY <1>3, <4>1, <3>1, AcceptBacked
    <3> DEFINE b == Append(s.binaryValues, m.val)
    <3>3. r.binaryValues = b
      BY <1>1, <2>1, <1>0 DEF Within, CountsBVal
    <3>4. ToSet(b) = ToSet(s.binaryValues) \cup {m.val}
      BY <1>1, <1>3, <2>1, AppendSet DEF State, CountsBVal
    <3> HIDE DEF b
    <3>5. AcceptedOK(nodes, s, b)
      <4> SUFFICES ASSUME NEW k \in DOMAIN b PROVE b[k] # s.estimated /\ Backed(nodes, b[k])
        BY DEF AcceptedOK
      <4>1. b[k] \in ToSet(s.binaryValues) \cup {m.val}
        BY <3>4 DEF ToSet
      <4>2. CASE b[k] = m.val
        BY <3>2, <4>2
      <4>3. CASE b[k] \in ToSet(s.binaryValues)
        BY <1>1, <4>3 DEF Entered, AcceptedOK, ToSet
      <4> QED BY <4>1, <4>2, <4>3
    <3> QED BY <1>2, <3>3, <3>5, PartsStay
  <2>2. CASE ~(Accepts(s, r, m) \/ AcceptsFirst(s, r, i, m))
    <3>1. r.binaryValues = s.binaryValues
      BY <1>1, <2>2, <1>0 DEF Within, Outcome, Idle, CountsBVal
    <3> QED BY <1>1, <1>2, <3>1, PartsStay DEF Entered
  <2> QED BY <2>1, <2>2
<1> QED BY <1>4, <1>5, <1>6, <1>7 DEF Entered

LEMMA StopStep ==
    ASSUME IsFiniteSet(Validators), Cardinality(Live) <= 2 * F + 1, NEW nodes, AllStop(nodes),
           NEW i \in Live, nodes[i].calls # <<>>, NEW r, r = Handle(nodes[i], i),
           NEW new, new = [nodes EXCEPT ![i] = r]
    PROVE  AllStop(new) /\ Advance(nodes, new)
<1> DEFINE s == nodes[i]
           m == Head(s.calls)
<1>1. s \in State /\ NodeStops(nodes, s, i) /\ s.epoch \in Nat /\ nodes \in [Live -> State]
  BY DEF AllStop, State
<1>2. Outcome(s, r, i, m)
  BY <1>1, HandleOutcome
<1>3. r \in State
  BY <1>1, <1>2, OutcomeType
<1>4. m # EndOfReplay => m \in Msgs /\ Pending(nodes, s, i, m)
  <2>1. m \in Calls
    BY <1>1, CallsType
  <2>2. s.calls \in Seq(Calls)
    BY <1>1 DEF State
  <2>3. m \in ToSet(s.calls)
    BY <2>2, TailSet
  <2> QED BY <1>1, <2>1, <2>3 DEF NodeStops, Calls
<1>5. new \in [Live -> State] /\ new[i] = r /\ \A j \in Live : j # i => new[j] = nodes[j]
  BY <1>1, <1>3
<1>8. Replaced(nodes, new, i, r)
  BY <1>5 DEF Replaced
<1> HIDE DEF s, m
<1>6. CASE Leaves(s, r, i, m)
  <2>1. Current(s, m, "AUX") /\ AuxComplete(WithAux(s, m))
    BY <1>6 DEF Leaves
  <2>2. m \in Msgs /\ Pending(nodes, s, i, m)
    BY <1>4, <2>1 DEF Current
  <2>3. s.epoch = 0
    <3>1. s.epoch # 1
      BY <2>1, <2>2, NoLeave DEF s
    <3> QED BY <1>1, <3>1 DEF NodeStops
  <2>4. /\ r.epoch = 1 /\ r.binaryValues = <<>> /\ r.sentBinaryValue = {r.estimated}
        /\ r.recvBinaryValue = [j \in Validators |-> None]
        /\ r.recvAux = [j \in Validators |-> None]
    BY <1>1, <1>6, <2>3, LeaveFields
  <2>5. Grows(s, r) /\ Moves(s, r)
    BY <2>3, <2>4 DEF Grows, Moves
  <2> DEFINE own == Message(i, r, "BVAL", r.estimated)
  <2>6. Sources(s, r, {own}, {})
    BY <1>1, <1>6, LeaveSources DEF s, m
  <2>7. own.from = i /\ own.epoch = 1 /\ own.kind = "BVAL" /\ own.val = r.estimated
    BY <2>4 DEF Message
  <2> HIDE DEF own
  <2>8. Item(new, own)
    BY <1>5, <2>4, <2>7 DEF Item
  <2>9. r.estimated \in Values
    BY <1>3, <2>4 DEF State
  <2>10. Entered(new, r, i)
    <3>1. SentOK(new, r)
      BY <2>4 DEF SentOK
    <3>2. RecvOK(new, r, i, r.recvBinaryValue)
      BY <2>4, <2>9, NoneIsNoValue DEF RecvOK, Live
    <3>3. AuxOK(new, r.recvAux)
      BY <2>4 DEF AuxOK
    <3>4. AcceptedOK(new, r, r.binaryValues)
      BY <2>4 DEF AcceptedOK
    <3> QED BY <3>1, <3>2, <3>3, <3>4 DEF Entered
  <2>11. OwnOK(new, r, i, {own}, {})
    BY <2>7, <2>8 DEF OwnOK
  <2>12. Advance(nodes, new)
    BY <1>1, <1>5, <2>5 DEF Advance, Grows, s
  <2> QED BY <1>3, <1>8, <2>5, <2>6, <2>10, <2>12, <2>11, Assemble DEF s
<1>7. CASE ~Leaves(s, r, i, m)
  <2>1. Within(s, r, i, m)
    BY <1>1, SameFields
  <2>2. r.epoch = s.epoch /\ r.estimated = s.estimated
    BY <1>2, <1>7, <2>1 DEF Within, Outcome, Idle, CountsBVal
  <2>3. s.sentBinaryValue \subseteq r.sentBinaryValue
    BY <1>2, <1>7, <2>1 DEF Within, Outcome, Idle, CountsBVal
  <2>4. s.binaryValues # <<>> => r.binaryValues # <<>>
    <3>1. CASE Accepts(s, r, m) \/ AcceptsFirst(s, r, i, m)
      <4>1. s.binaryValues \in Seq(Values)
        BY <1>1 DEF State
      <4>2. r.binaryValues = Append(s.binaryValues, m.val)
        BY <2>1, <3>1 DEF Within
      <4> QED BY <4>1, <4>2
    <3>2. CASE ~(Accepts(s, r, m) \/ AcceptsFirst(s, r, i, m))
      BY <1>2, <1>7, <2>1, <3>2 DEF Within, Outcome, Idle, CountsBVal
    <3> QED BY <3>1, <3>2
  <2>5. Grows(s, r) /\ Moves(s, r)
    BY <2>2, <2>3, <2>4 DEF Grows, Moves
  <2>6. Advance(nodes, new)
    BY <1>1, <1>5, <2>5 DEF Advance, Grows, s
  <2>7. r.epoch = 1 => Entered(new, r, i)
    BY <1>2, <1>3, <1>4, <1>7, <2>2, <2>6, StaysEntered DEF s
  <2>8. CASE Echoes(s, r, i, m) \/ AcceptsFirst(s, r, i, m)
    <3>1. PICK kind \in {"BVAL", "AUX"} : \/ kind = "BVAL" /\ Echoes(s, r, i, m)
                                          \/ kind = "AUX" /\ AcceptsFirst(s, r, i, m)
      BY <2>8
    <3> DEFINE own == Message(i, s, kind, m.val)
    <3>2. m \in Msgs
      BY <1>4, <2>8 DEF Echoes, AcceptsFirst, Current
    <3>3. Sources(s, r, {own}, {own})
      BY <1>1, <3>1, <3>2, EchoSources DEF s, m
    <3>4. own.from = i /\ own.epoch = s.epoch /\ own.kind = kind /\ own.val = m.val
      BY DEF Message
    <3> HIDE DEF own
    <3>5. Item(new, own)
      <4>1. kind = "BVAL" => own.val \in r.sentBinaryValue
        BY <2>1, <3>1, <3>4 DEF Within
      <4>2. kind = "AUX" => r.binaryValues # <<>>
        <5> SUFFICES ASSUME kind = "AUX" PROVE r.binaryValues # <<>>
          OBVIOUS
        <5>1. AcceptsFirst(s, r, i, m)
          BY <3>1
        <5>2. r.binaryValues = Append(s.binaryValues, m.val)
          BY <2>1, <5>1 DEF Within
        <5>3. s.binaryValues \in Seq(Values)
          BY <1>1 DEF State
        <5>4. m.val \in Values
          BY <3>2 DEF Msgs
        <5> DEFINE b == s.binaryValues
        <5> HIDE DEF b
        <5>5. Append(b, m.val) # <<>>
          BY <5>3, <5>4 DEF b
        <5> QED BY <5>2, <5>5 DEF b
      <4>3. s.epoch <= 1
        BY <1>1 DEF NodeStops
      <4> QED BY <1>5, <2>2, <3>4, <4>1, <4>2, <4>3 DEF Item
    <3>6. NotOwn(r, i, own)
      <4> SUFFICES ASSUME kind = "BVAL", r.epoch = 1 PROVE own.val # r.estimated
        BY <3>4 DEF NotOwn
      <4>1. Echoes(s, r, i, m)
        BY <3>1
      <4>2. m.val \notin s.sentBinaryValue
        BY <4>1 DEF Echoes
      <4>3. s.estimated \in s.sentBinaryValue
        BY <1>1, <2>2 DEF NodeStops, Entered, SentOK
      <4> QED BY <2>2, <3>4, <4>2, <4>3
    <3>7. OwnOK(new, r, i, {own}, {own})
      BY <3>4, <3>5, <3>6 DEF Pending, OwnOK
    <3> QED BY <1>3, <1>8, <2>5, <2>6, <2>7, <3>3, <3>7, Assemble DEF s
  <2>9. CASE ~(Echoes(s, r, i, m) \/ AcceptsFirst(s, r, i, m))
    <3>1. Sources(s, r, {}, {})
      BY <1>1, <1>2, <1>7, <2>9, QuietSources DEF Outcome, s, m
    <3>2. OwnOK(new, r, i, {}, {})
      BY DEF OwnOK
    <3> QED BY <1>3, <1>8, <2>5, <2>6, <2>7, <3>1, <3>2, Assemble DEF s
  <2> QED BY <2>8, <2>9
<1> QED BY <1>6, <1>7
NetStops(nodes, n) ==
    \A m \in DOMAIN n :
       m.to \in Live /\ m.msg \in Msgs /\ m.to # m.msg.from /\ Item(nodes, m.msg)

LEMMA NetStopsStays ==
    ASSUME NEW nodes, NEW new, Advance(nodes, new), NEW n, NetStops(nodes, n)
    PROVE  NetStops(new, n)
BY ItemStays DEF NetStops

\* The broadcast at the end of a handler.
LEMMA SilentStops ==
    ASSUME IsFiniteSet(Validators), NEW nodes, AllStop(nodes), NEW i \in Live, NEW new,
           Replaced(nodes, new, i, [nodes[i] EXCEPT !.messages = {}])
    PROVE  AllStop(new) /\ Advance(nodes, new)
<1> DEFINE s == nodes[i]
           q == [s EXCEPT !.messages = {}]
<1>1. nodes \in [Live -> State] /\ s \in State /\ NodeStops(nodes, s, i)
  BY DEF AllStop
<1>2. /\ q \in State /\ q.messages = {} /\ q.delayedMessages = s.delayedMessages
      /\ q.calls = s.calls /\ q.binaryValues = s.binaryValues /\ q.epoch = s.epoch
      /\ q.recvAux = s.recvAux /\ q.estimated = s.estimated
      /\ q.recvBinaryValue = s.recvBinaryValue /\ q.sentBinaryValue = s.sentBinaryValue
  BY <1>1 DEF State
<1>3. new \in [Live -> State] /\ new[i] = q /\ \A j \in Live : j # i => new[j] = nodes[j]
  BY DEF Replaced
<1> HIDE DEF q, s
<1>4. Grows(s, q)
  BY <1>2 DEF Grows
<1>5. Advance(nodes, new)
  BY <1>1, <1>3, <1>4 DEF Advance, Grows, s
<1>6. NodeStops(new, s, i)
  BY <1>1, <1>5, NodeStopsStays
<1>7. Entered(new, s, i) => Entered(new, q, i)
  BY <1>2 DEF Entered, SentOK, RecvOK, AcceptedOK
<1>8. \A m : Pending(new, s, i, m) => Pending(new, q, i, m)
  BY <1>2 DEF Pending, NotOwn
<1>9. NodeStops(new, q, i)
  BY <1>2, <1>6, <1>7, <1>8 DEF NodeStops
<1>10. \A j \in Live : j # i => NodeStops(new, new[j], j)
  BY <1>1, <1>3, <1>5, NodeStopsStays DEF AllStop
<1> QED BY <1>3, <1>5, <1>9, <1>10 DEF AllStop

LEMMA StepStops ==
    ASSUME IsFiniteSet(Validators), Cardinality(Live) <= 2 * F + 1, NEW i \in Live, NEW s,
           bba \in [Live -> State], NEW nodes, Replaced(bba, nodes, i, s), AllStop(nodes),
           s.calls # <<>>, NEW rest, NetStops(nodes, rest), Step(i, s, rest)
    PROVE  AllStop(bba') /\ NetStops(bba', net')
<1> DEFINE r == Handle(s, i)
           new == [nodes EXCEPT ![i] = r]
           messages == [to : Live \ {i}, msg : r.messages]
           silent == [r EXCEPT !.messages = {}]
           q == IF r.calls = <<>> THEN silent ELSE r
           sent == SetToBag(messages)
           n == IF r.calls = <<>> THEN rest (+) sent ELSE rest
<1>1. /\ nodes \in [Live -> State] /\ nodes[i] = s
      /\ \A j \in Live : j # i => nodes[j] = bba[j]
  BY DEF Replaced
<1>2. AllStop(new) /\ Advance(nodes, new)
  BY <1>1, StopStep
<1>3. new \in [Live -> State] /\ new[i] = r /\ \A j \in Live : j # i => new[j] = bba[j]
  BY <1>1, <1>2 DEF AllStop
<1>4. bba' = [bba EXCEPT ![i] = q] /\ net' = Kept(n, bba')
  BY DEF Step
<1> HIDE DEF new
<1>5. \A m \in messages : /\ m.to \in Live /\ m.msg \in Msgs /\ m.to # m.msg.from
                          /\ Item(new, m.msg)
  <2>1. r \in State /\ NodeStops(new, r, i)
    BY <1>2, <1>3 DEF AllStop
  <2> HIDE DEF r
  <2> QED BY <2>1 DEF NodeStops, State
<1> HIDE DEF r, messages
<1>6. AllStop(bba') /\ Advance(new, bba')
  <2>1. CASE r.calls = <<>>
    <3>1. silent \in State
      <4>1. r \in State
        BY <1>3
      <4> QED BY <4>1 DEF State
    <3>2. bba' \in [Live -> State] /\ bba'[i] = silent /\ \A j \in Live : j # i => bba'[j] = new[j]
      BY <1>3, <1>4, <2>1, <3>1
    <3>3. Replaced(new, bba', i, [new[i] EXCEPT !.messages = {}])
      BY <1>3, <3>2 DEF Replaced
    <3> HIDE DEF silent
    <3> QED BY <1>2, <3>3, SilentStops
  <2>2. CASE r.calls # <<>>
    <3>1. bba' = new
      <4>1. bba' \in [Live -> State] /\ \A j \in Live : bba'[j] = new[j]
        BY <1>3, <1>4, <2>2
      <4> QED BY <1>3, <4>1
    <3>2. Advance(new, new)
      BY <1>3 DEF Advance, Grows
    <3> QED BY <1>2, <3>1, <3>2
  <2> QED BY <2>1, <2>2
<1>7. NetStops(new, n)
  <2>1. NetStops(new, rest)
    BY <1>2, NetStopsStays
  <2>2. DOMAIN sent = messages
    BY NetOf
  <2> HIDE DEF sent
  <2>3. DOMAIN n \subseteq DOMAIN rest \cup messages
    BY <2>2, NetOf
  <2> HIDE DEF n
  <2> QED BY <1>5, <2>1, <2>3 DEF NetStops
<1> HIDE DEF n
<1>8. NetStops(bba', n)
  BY <1>6, <1>7, NetStopsStays
<1>9. DOMAIN net' \subseteq DOMAIN n
  BY <1>4, NetOf
<1> QED BY <1>6, <1>8, <1>9 DEF NetStops

SInv == Cardinality(Live) <= 2 * F + 1 => AllStop(bba) /\ NetStops(bba, net)

LEMMA InputStops ==
    ASSUME IInv, SInv, Cardinality(Live) <= 2 * F + 1,
           NEW i \in Live, NEW v \in Values, InputValue(i, v)
    PROVE  AllStop(bba') /\ NetStops(bba', net')
<1> DEFINE s == bba[i]
           own == Message(i, s, "BVAL", v)
           p == Call(SendBVal([s EXCEPT !.estimated = v], i, v), <<own>>)
           nodes == [bba EXCEPT ![i] = p]
<1>1. AllStop(bba) /\ NetStops(bba, net) /\ IsFiniteSet(Validators)
  BY DEF SInv, IInv
<1>2. s \in State /\ s.calls = <<>> /\ s.epoch = 0 /\ bba \in [Live -> State]
  BY <1>1 DEF AllStop, InputValue
<1>3. own.from = i /\ own.epoch = 0
  BY <1>2 DEF Message
<1>4. Step(i, p, net)
  BY DEF InputValue
<1> HIDE DEF own
<1>5. /\ p \in State /\ p.messages = s.messages \cup {own} /\ p.calls = <<own>>
      /\ p.delayedMessages = s.delayedMessages /\ p.epoch = 0
  BY <1>2, InputState DEF own
<1> HIDE DEF p, s
<1>6. Replaced(bba, nodes, i, p)
  BY <1>2, <1>5 DEF Replaced
<1> HIDE DEF nodes
<1>7. Grows(s, p) /\ Moves(s, p)
  BY <1>2, <1>5 DEF Grows, Moves
<1>8. Sources(s, p, {own}, {own})
  <2>1. ToSet(p.calls) = {own}
    BY <1>5 DEF ToSet
  <2> QED BY <1>5, <2>1 DEF Sources
<1>9. OwnOK(nodes, p, i, {own}, {own})
  BY <1>3 DEF OwnOK, Pending, NotOwn, Item
<1>10. AllStop(nodes)
  BY <1>1, <1>5, <1>6, <1>7, <1>8, <1>9, Assemble DEF s
<1>11. Advance(bba, nodes)
  BY <1>2, <1>6, <1>7 DEF Advance, Grows, Replaced, s
<1>12. NetStops(nodes, net)
  BY <1>1, <1>11, NetStopsStays
<1>13. p.calls # <<>>
  BY <1>5
<1> QED BY <1>1, <1>2, <1>4, <1>6, <1>10, <1>12, <1>13, StepStops

LEMMA MessageStops ==
    ASSUME IInv, SInv, Cardinality(Live) <= 2 * F + 1, NEW m \in BagToSet(net), HandleMessage(m)
    PROVE  AllStop(bba') /\ NetStops(bba', net')
<1> DEFINE i == m.to
           s == bba[i]
           p == Call(s, <<m.msg>>)
           rest == net (-) SetToBag({m})
           nodes == [bba EXCEPT ![i] = p]
<1>1. AllStop(bba) /\ NetStops(bba, net) /\ IsFiniteSet(Validators)
  BY DEF SInv, IInv
<1>2. i \in Live /\ m.msg \in Msgs /\ m.msg.from # i /\ Item(bba, m.msg)
  BY <1>1, NetOf DEF NetStops
<1>3. /\ s \in State /\ s.calls = <<>> /\ bba \in [Live -> State] /\ NodeStops(bba, s, i)
  BY <1>1, <1>2 DEF AllStop, HandleMessage
<1>4. Step(i, p, rest)
  BY DEF HandleMessage
<1>5. /\ p \in State /\ p.calls = <<m.msg>> /\ p.messages = s.messages
      /\ p.delayedMessages = s.delayedMessages /\ p.binaryValues = s.binaryValues
      /\ p.epoch = s.epoch /\ p.recvAux = s.recvAux /\ p.estimated = s.estimated
      /\ p.recvBinaryValue = s.recvBinaryValue /\ p.sentBinaryValue = s.sentBinaryValue
  BY <1>2, <1>3, CallState
<1> HIDE DEF p
<1>6. Replaced(bba, nodes, i, p)
  BY <1>2, <1>3, <1>5 DEF Replaced
<1> HIDE DEF nodes
<1>7. Grows(s, p) /\ Moves(s, p)
  BY <1>5 DEF Grows, Moves
<1>8. Advance(bba, nodes)
  BY <1>3, <1>6, <1>7 DEF Advance, Grows, Replaced
<1>9. Sources(s, p, {}, {m.msg})
  <2>1. ToSet(p.calls) = {m.msg}
    BY <1>5 DEF ToSet
  <2> QED BY <1>5, <2>1 DEF Sources
<1>10. OwnOK(nodes, p, i, {}, {m.msg})
  <2>1. Item(nodes, m.msg)
    BY <1>2, <1>8, ItemStays
  <2> QED BY <1>2, <2>1 DEF OwnOK, Pending, NotOwn
<1>11. p.epoch = 1 => Entered(nodes, p, i)
  <2> SUFFICES ASSUME s.epoch = 1 PROVE Entered(nodes, p, i)
    BY <1>5
  <2>1. Entered(nodes, s, i)
    BY <1>1, <1>2, <1>3, <1>8, EnteredStays DEF NodeStops
  <2> QED BY <1>5, <2>1 DEF Entered, SentOK, RecvOK, AcceptedOK
<1> HIDE DEF s
<1>12. AllStop(nodes)
  BY <1>1, <1>2, <1>5, <1>6, <1>7, <1>9, <1>10, <1>11, Assemble DEF s
<1>13. NetStops(nodes, rest)
  <2>1. NetStops(nodes, net)
    BY <1>1, <1>8, NetStopsStays
  <2>2. DOMAIN rest \subseteq DOMAIN net
    BY NetOf
  <2> HIDE DEF rest
  <2> QED BY <2>1, <2>2 DEF NetStops
<1>14. p.calls # <<>>
  BY <1>5
<1> HIDE DEF rest
<1> QED BY <1>1, <1>2, <1>3, <1>4, <1>6, <1>12, <1>13, <1>14, StepStops

LEMMA ContinueStops ==
    ASSUME IInv, SInv, Cardinality(Live) <= 2 * F + 1, NEW i \in Live, Continue(i)
    PROVE  AllStop(bba') /\ NetStops(bba', net')
<1>1. AllStop(bba) /\ NetStops(bba, net) /\ IsFiniteSet(Validators)
  BY DEF SInv, IInv
<1>2. bba[i].calls # <<>> /\ Step(i, bba[i], net)
  BY DEF Continue
<1>3. bba \in [Live -> State] /\ Replaced(bba, bba, i, bba[i])
  BY <1>1 DEF AllStop, Replaced
<1> QED BY <1>1, <1>2, <1>3, StepStops

LEMMA BackedSame ==
    ASSUME setting' = setting, NEW nodes, NEW v
    PROVE  Backed(nodes, v)' <=> Backed(nodes, v)
BY SettingStays DEF Backed, Holders

LEMMA NodeStopsSame ==
    ASSUME setting' = setting, NEW nodes, NEW s, NEW i
    PROVE  NodeStops(nodes, s, i)' <=> NodeStops(nodes, s, i)
<1>1. SentOK(nodes, s)' <=> SentOK(nodes, s)
  BY BackedSame DEF SentOK
<1>2. RecvOK(nodes, s, i, s.recvBinaryValue)' <=> RecvOK(nodes, s, i, s.recvBinaryValue)
  BY SettingStays DEF RecvOK
<1>3. AuxOK(nodes, s.recvAux)' <=> AuxOK(nodes, s.recvAux)
  BY SettingStays DEF AuxOK
<1>4. AcceptedOK(nodes, s, s.binaryValues)' <=> AcceptedOK(nodes, s, s.binaryValues)
  BY BackedSame DEF AcceptedOK
<1>5. Entered(nodes, s, i)' <=> Entered(nodes, s, i)
  BY <1>1, <1>2, <1>3, <1>4 DEF Entered
<1> QED BY <1>5 DEF NodeStops, Pending, NotOwn, Item

LEMMA StopsAfter ==
    ASSUME setting' = setting, AllStop(bba'), NetStops(bba', net')
    PROVE  AllStop(bba)' /\ NetStops(bba, net)'
<1>1. \A j \in Live' : NodeStops(bba, bba[j], j)'
  BY SettingStays, NodeStopsSame DEF AllStop
<1>2. AllStop(bba)'
  BY <1>1, SettingStays DEF AllStop
<1>3. NetStops(bba, net)'
  BY SettingStays DEF NetStops, Item
<1> QED BY <1>2, <1>3

LEMMA SInvInit ==
    ASSUME Init
    PROVE  SInv
<1>1. IInv /\ bba = [i \in Live |-> NewBBA] /\ net = EmptyBag
  BY InitHolds DEF Init
<1>2. bba \in [Live -> State]
  BY <1>1 DEF IInv, AllOK
<1>3. NetStops(bba, net)
  BY <1>1, NetOf DEF NetStops
<1> DEFINE s == NewBBA
<1>4. /\ s.messages = {} /\ s.delayedMessages = <<>> /\ s.calls = <<>> /\ s.epoch = 0
  BY DEF NewBBA
<1> HIDE DEF s
<1>5. \A j \in Live : NodeStops(bba, s, j)
  BY <1>4 DEF NodeStops, ToSet
<1>6. AllStop(bba)
  BY <1>1, <1>2, <1>5 DEF AllStop, s
<1> QED BY <1>3, <1>6 DEF SInv

LEMMA SInvNext ==
    ASSUME IInv, SInv, Next
    PROVE  SInv'
<1>1. setting' = setting
  BY NextKeeps
<1>2. ASSUME Cardinality(Live) <= 2 * F + 1 PROVE AllStop(bba') /\ NetStops(bba', net')
  BY <1>2, InputStops, MessageStops, ContinueStops DEF Next
<1>3. ASSUME Cardinality(Live) <= 2 * F + 1 PROVE AllStop(bba)' /\ NetStops(bba, net)'
  BY <1>1, <1>2, <1>3, StopsAfter
<1> QED BY <1>1, <1>3, SettingStays DEF SInv

LEMMA SInvStutter ==
    ASSUME SInv, UNCHANGED bbaVars
    PROVE  SInv'
<1>1. setting' = setting /\ bba' = bba /\ net' = net
  BY DEF bbaVars
<1>2. ASSUME Cardinality(Live) <= 2 * F + 1 PROVE AllStop(bba)' /\ NetStops(bba, net)'
  <2>1. AllStop(bba') /\ NetStops(bba', net')
    BY <1>1, <1>2 DEF SInv
  <2> QED BY <1>1, <2>1, StopsAfter
<1> QED BY <1>1, <1>2, SettingStays DEF SInv

(* Whatever the instance: with 2F+1 validators alive or fewer nobody leaves
   epoch 1, because a node does not count its own estimate there, so that
   only the other value can be accepted, and not enough nodes have it
   (ACS_BBA.go:242-266, 321-324).                                          *)
THEOREM CrashesStopTheAgreement == Spec => []CrashStopsAll
<1>1. Init => SInv
  BY SInvInit
<1>2. IInv /\ SInv /\ [Next]_bbaVars => SInv'
  BY SInvNext, SInvStutter
<1>3. SInv => CrashStopsAll
  BY DEF SInv, AllStop, NodeStops, CrashStopsAll
<1> QED BY <1>1, <1>2, <1>3, RecordsExist, PTL DEF Spec
=============================================================================
