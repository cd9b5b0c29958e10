---------------------------- MODULE CertifiedLog ----------------------------
(***************************************************************************)
(* What the data plane and the epochs that drain it promise, without       *)
(* votes, certificates, frontiers or epochs: the nodes store blocks of     *)
(* every chain, and a node commits a chain further and further, over       *)
(* blocks that a quorum stores.  A block the node itself does not store is *)
(* skipped, and stays so.                                                  *)
(***************************************************************************)
EXTENDS Integers

CONSTANTS Node,
          Quorum,   \* sets of nodes
          Heights

VARIABLES stored,    \* stored[i][p]: the heights of p's blocks node i stores
          ordered,   \* ordered[i][p]: how far i committed p's chain
          log        \* log[i][p]: the heights of p's blocks i committed

vars == <<stored, ordered, log>>

Init ==
    /\ stored = [i \in Node |-> [p \in Node |-> {}]]
    /\ ordered = [i \in Node |-> [p \in Node |-> 0]]
    /\ log = [i \in Node |-> [p \in Node |-> {}]]

Store(i, p, h) ==
    /\ stored' = [stored EXCEPT ![i][p] = @ \cup {h}]
    /\ UNCHANGED <<ordered, log>>

Kept(p, h) == \E Q \in Quorum : \A j \in Q : h \in stored[j][p]

\* The blocks of p's chain that i commits by moving from one height to another.
Between(i, p, low, high) == {h \in stored[i][p] : low < h /\ h <= high}

\* Node i moves on to any heights it can vouch for.
Commit(i) ==
    /\ \A p \in Node :
          /\ ordered'[i][p] >= ordered[i][p]
          /\ \A h \in ordered[i][p] + 1 .. ordered'[i][p] : Kept(p, h)
    /\ ordered'[i] \in [Node -> Nat]
    /\ ordered' = [ordered EXCEPT ![i] = ordered'[i]]
    /\ log' = [log EXCEPT ![i] = [p \in Node |->
                  @[p] \cup Between(i, p, ordered[i][p], ordered'[i][p])]]
    /\ UNCHANGED stored

Next == \E i \in Node : Commit(i) \/ \E p \in Node, h \in Heights : Store(i, p, h)

Spec == Init /\ [][Next]_vars
=============================================================================
