------------------------------- MODULE MCBBA -------------------------------
(***************************************************************************)
(* Instances of BBA for TLC: three validators for two epochs, any two of   *)
(* them for four (long enough for a node that decided TRUE to be done),    *)
(* and three of four with the fourth crashed.                              *)
(***************************************************************************)
EXTENDS BBA, TLC

CONSTANTS n1, n2, n3, n4

MCCrash == [validators : {{n1, n2, n3, n4}}, crashed : {{n4}}, maxEpoch : {2}]

MCSettings ==
    [validators : {{n1, n2, n3}}, crashed : {{}}, maxEpoch : {2}]
    \cup [validators : {{n1, n2}, {n1, n3}, {n2, n3}}, crashed : {{}}, maxEpoch : {4}]
    \cup MCCrash

\* A handler that has begun goes on before another one begins: what it does
\* meanwhile is seen by nobody else.
OneAtATime == \A i \in Live : bba[i].calls # <<>> => bba'[i] # bba[i]

\* The settings are the same for every order of the three.
Symmetry == Permutations({n1, n2, n3})
=============================================================================
