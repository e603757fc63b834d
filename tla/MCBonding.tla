----------------------------- MODULE MCBonding -----------------------------
(* Instances of Bonding for TLC. *)
EXTENDS Bonding, TLC

CONSTANT Strangers   \* Totems in range that nobody here owns

\* Every device owns every other one, strangers apart.
MCOwned == [n \in Nodes |-> MACs \ ({n} \cup Strangers)]

\* Owned Totems are alike, for safety properties.
Alike == Permutations(Totems \ Strangers)
=============================================================================
