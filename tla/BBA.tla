-------------------------------- MODULE BBA --------------------------------
(***************************************************************************)
(* The binary agreement of stage 011 (ACS_BBA.go): one BBA object per      *)
(* validator, whose goroutine handles one input or one message at a time.  *)
(* The network delivers in any order, as every message is a connection and *)
(* a goroutine of its own.  ACS.go passes no common coin, so the coin of   *)
(* an epoch is its parity.  A handler calls itself: a node handles its own *)
(* messages, and an epoch that ends replays those that came too early.     *)
(* The calls still to be made are a stack; what a handler sends goes out   *)
(* when the stack is empty.                                                *)
(***************************************************************************)
EXTENDS Integers, FiniteSets, Sequences, SequencesExt, Bags

CONSTANTS Settings,  \* the instances: validators, those that crashed, and a
                     \* bound: a node that reached maxEpoch rests
          None       \* a bool that is nil

Values == BOOLEAN

ASSUME SettingsAssumption ==
    /\ \A s \in Settings : IsFiniteSet(s.validators)
    /\ None \notin Values

VARIABLES setting,
          bba,       \* bba[i]: the fields of the object of i
          net,       \* what was sent and has not been handled, a bag
          input      \* the argument of InputValue, per node

bbaVars == <<setting, bba, net, input>>

Validators == setting.validators
Live == Validators \ setting.crashed
N == Cardinality(Validators)
F == (N - 1) \div 3

Coin(e) == e % 2 = 0

\* Two histories: the epochs this node ended with an AUX whose value was not
\* in its binaryValues, and those it ended with one value that was there twice.
NewBBA == [epoch |-> 0, binaryValues |-> <<>>, sentBinaryValue |-> {},
           recvBinaryValue |-> [j \in Validators |-> None],
           recvAux |-> [j \in Validators |-> None],
           done |-> FALSE, estimated |-> None, decision |-> None,
           delayedMessages |-> <<>>, messages |-> {}, calls |-> <<>>,
           foreign |-> {}, doubled |-> {}]

Init == /\ setting \in Settings
        /\ bba = [i \in Live |-> NewBBA]
        /\ net = EmptyBag
        /\ input = [i \in Live |-> None]

Senders(recv, v) == {j \in Validators : recv[j] = v}

Message(i, s, kind, v) == [from |-> i, epoch |-> s.epoch, kind |-> kind, val |-> v]
EndOfReplay == [kind |-> "END"]

AddMessage(s, m) == [s EXCEPT !.messages = @ \cup {m}]
Call(s, calls) == [s EXCEPT !.calls = calls \o @]

SendBVal(s, i, v) ==
    AddMessage([s EXCEPT !.sentBinaryValue = @ \cup {v}], Message(i, s, "BVAL", v))

\* The entries of binaryValues that some AUX carries, by their positions.
Outputs(s) ==
    {k \in DOMAIN s.binaryValues : \E j \in Validators : s.recvAux[j] = s.binaryValues[k]}

Single(s, v) == \E k \in DOMAIN s.binaryValues : Outputs(s) = {k} /\ s.binaryValues[k] = v

Foreign(s) == \E j \in Validators : s.recvAux[j] \notin {None} \cup ToSet(s.binaryValues)

Doubled(s) ==
    \E k, l \in Outputs(s) :
        k # l /\ \A o \in Outputs(s) : s.binaryValues[o] = s.binaryValues[k]

\* Every AUX counts towards N-F, the foreign ones too.
AuxComplete_mutantLow(s) ==
    s.binaryValues # <<>> /\ Cardinality(Validators \ Senders(s.recvAux, None)) >= F + 1

AuxComplete(s) ==
    s.binaryValues # <<>> /\ Cardinality(Validators \ Senders(s.recvAux, None)) >= N - F

Singles(s) == {v \in Values : Single(s, v)}

Estimate(s) == IF Singles(s) = {} THEN Coin(s.epoch) ELSE CHOOSE v \in Singles(s) : TRUE

\* Decided once, and only on the coin of the epoch.
Decide_mutantAnyCoin(s) == IF s.decision = None THEN Coin(s.epoch) ELSE s.decision

Decide(s) ==
    IF s.decision = None /\ Single(s, Coin(s.epoch)) THEN Coin(s.epoch) ELSE s.decision

Ended(history, s, flaw) == IF flaw THEN history \cup {s.epoch} ELSE history

NextEpoch(s) ==
    [s EXCEPT !.binaryValues = <<>>, !.sentBinaryValue = {},
              !.recvBinaryValue = [j \in Validators |-> None],
              !.recvAux = [j \in Validators |-> None],
              !.epoch = @ + 1,
              !.estimated = Estimate(s), !.decision = Decide(s),
              !.foreign = Ended(@, s, Foreign(s)), !.doubled = Ended(@, s, Doubled(s))]

\* The new epoch starts with the BVAL of the estimate, which its sender does
\* not count for itself.
EnterEpoch(s, i) == SendBVal(NextEpoch(s), i, Estimate(s))

HandleBinaryValueRequest(s, i, from, v) ==
    LET r == [s EXCEPT !.recvBinaryValue[from] = v]
        length == Cardinality(Senders(r.recvBinaryValue, v))
        grown == [r EXCEPT !.binaryValues = Append(@, v)]
        own(kind) == Message(i, s, kind, v)
    IN  IF length = 2 * F + 1
        THEN IF r.binaryValues # <<>> THEN grown
             ELSE Call(AddMessage(grown, own("AUX")), <<own("AUX")>>)
        ELSE IF length = F + 1 /\ v \notin r.sentBinaryValue
        THEN Call(SendBVal(r, i, v), <<own("BVAL")>>)
        ELSE r

HandleAuxRequest(s, i, from, v) ==
    LET r == [s EXCEPT !.recvAux[from] = v]
    IN  IF ~AuxComplete(r) THEN r
        ELSE IF r.done \/ r.decision = Coin(r.epoch) THEN [r EXCEPT !.done = TRUE]
        ELSE Call(EnterEpoch(r, i), r.delayedMessages \o <<EndOfReplay>>)

HandleRequest(s, i, m) ==
    IF s.done \/ m.epoch < s.epoch THEN s
    ELSE IF m.epoch > s.epoch THEN [s EXCEPT !.delayedMessages = Append(@, m)]
    ELSE IF m.kind = "BVAL" THEN HandleBinaryValueRequest(s, i, m.from, m.val)
    ELSE HandleAuxRequest(s, i, m.from, m.val)

\* The topmost call.
Handle(s, i) ==
    LET m == Head(s.calls)
        t == [s EXCEPT !.calls = Tail(@)]
    IN  IF m = EndOfReplay THEN [t EXCEPT !.delayedMessages = <<>>] ELSE HandleRequest(t, i, m)

\* What receivers in a state would ignore is left out of the network.
Kept(messages, state) ==
    LET Ignored(m) == state[m.to].done \/ m.msg.epoch < state[m.to].epoch
    IN  [m \in {m \in DOMAIN messages : ~Ignored(m)} |-> messages[m]]

\* i makes the topmost call of s; after the last one the ACS broadcasts what
\* the handler left behind.
Step(i, s, rest) ==
    LET r == Handle(s, i)
        sent == SetToBag([to : Live \ {i}, msg : r.messages])
        silent == [r EXCEPT !.messages = {}]
    IN  /\ bba' = [bba EXCEPT ![i] = IF r.calls = <<>> THEN silent ELSE r]
        /\ net' = Kept(IF r.calls = <<>> THEN rest (+) sent ELSE rest, bba')
        /\ UNCHANGED setting

InputValue(i, v) ==
    /\ bba[i].calls = <<>>
    /\ bba[i].epoch = 0
    /\ bba[i].estimated = None
    /\ input' = [input EXCEPT ![i] = v]
    /\ Step(i, Call(SendBVal([bba[i] EXCEPT !.estimated = v], i, v),
                    <<Message(i, bba[i], "BVAL", v)>>), net)

HandleMessage(m) ==
    /\ bba[m.to].calls = <<>>
    /\ bba[m.to].epoch < setting.maxEpoch
    /\ Step(m.to, Call(bba[m.to], <<m.msg>>), net (-) SetToBag({m}))
    /\ UNCHANGED input

\* A handler goes on; the bound does not stop it.
Continue(i) ==
    /\ bba[i].calls # <<>>
    /\ Step(i, bba[i], net)
    /\ UNCHANGED input

Next == \/ \E i \in Live : Continue(i) \/ \E v \in Values : InputValue(i, v)
        \/ \E m \in BagToSet(net) : HandleMessage(m)

Spec == Init /\ [][Next]_bbaVars

\* A handler that has begun goes on, and what is under way is handled.
Fairness == /\ WF_bbaVars(\E i \in Live : Continue(i))
            /\ WF_bbaVars(\E m \in BagToSet(net) : HandleMessage(m))

FairSpec == Spec /\ Fairness

-----------------------------------------------------------------------------
Clean == \A i \in Live : bba[i].foreign = {} /\ bba[i].doubled = {}

(* Every AUX counts towards N-F, one whose value is not in the receiver's
   binaryValues too (ACS_BBA.go:289, 345-361), and a value that reached 2F+1
   twice is listed twice, so that the coin is taken although one value is all
   there is (ACS_BBA.go:252-254, 311).  Two nodes decide differently only
   after some node left an epoch in one of these ways: otherwise the binary
   agreement agrees.                                                       *)
AgreementUnlessMiscounted ==
    \A i, j \in Live : Clean => {bba[i].decision, bba[j].decision} # Values

(* Coins, late inputs and replayed messages never bring in a value of their
   own, but for a value that is listed twice: what a node decides was the
   input of some node.                                                     *)
DecisionWasInput ==
    \A i \in Live : \/ bba[i].decision \in {None} \cup {input[j] : j \in Live}
                    \/ \E j \in Live : bba[j].doubled # {}

(* After epoch 0 a node never counts its own BVAL (outputAgreement adds it to
   sentBinaryValue only, ACS_BBA.go:321-324), so 2F+1 need that many others:
   with no more validators than that alive nobody leaves epoch 1, decided or
   not, however long the messages are delivered.                           *)
CrashStopsAll == Cardinality(Live) <= 2 * F + 1 => \A i \in Live : bba[i].epoch <= 1

(* With f validators offline the others still decide what becomes of their
   proposals ("up to f nodes may be malicious or offline", ACS.go:10): once
   every live validator input false, as it does for a validator it has
   nothing from (ACS.go:282-285), every live one decides.                  *)
CrashedAreLeftOut ==
    (\A i \in Live : input[i] = FALSE) ~> (\A i \in Live : bba[i].decision # None)
=============================================================================
