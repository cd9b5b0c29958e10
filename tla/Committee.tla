----------------------------- MODULE Committee -----------------------------
(***************************************************************************)
(* The committee of 014-DumboNG and the two thresholds every aggregator    *)
(* compares its counters with.  Node stands for the keys of                *)
(* Committee.Authorities.  The node ids 0 .. n-1 are abstracted to an      *)
(* arbitrary finite set: no rule of the protocol depends on their order,   *)
(* except Core.Run, which returns at once when Name < Parameters.Faults.   *)
(* Those nodes are the set Silent: they receive but never process or send. *)
(***************************************************************************)
EXTENDS Integers, FiniteSets

CONSTANTS Node,     \* the committee
          Silent    \* the nodes whose Core.Run returns at once

\* loadRuntime/initRuntime reject n <= 0; any other committee size is accepted.
ASSUME CommitteeAssumption ==
    /\ IsFiniteSet(Node)
    /\ Node # {}
    /\ Silent \subseteq Node

Live == Node \ Silent

Size == Cardinality(Node)

HightThreshold == 2 * ((Size - 1) \div 3) + 1

LowThreshold == (Size - 1) \div 3 + 1

(***************************************************************************)
(* The flag an aggregator returns for its k-th distinct author.  The low   *)
(* threshold is tested first, so the high flag is lost when the two        *)
(* thresholds coincide (committees of one, two or three nodes).            *)
(***************************************************************************)
LowFlag(k) == k = LowThreshold

HighFlag(k) == ~LowFlag(k) /\ k = HightThreshold
=============================================================================
