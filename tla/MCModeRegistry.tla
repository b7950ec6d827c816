---------------------------- MODULE MCModeRegistry ----------------------------
(* Values of the constants of ModeRegistry for TLC.                         *)
EXTENDS ModeRegistry, TLC

CONSTANTS a1, la, lb

(* One API process, two threads of which may load the modes at once.        *)
MCOwner == [l \in Loaders |-> a1]

(* A mode may be enabled or not; the other is of another type.              *)
MCModes == {[id |-> "m1", enabled |-> TRUE, type |-> "photo"],
            [id |-> "m1", enabled |-> FALSE, type |-> "photo"],
            [id |-> "m2", enabled |-> TRUE, type |-> "video"]}

Symmetry == Permutations(Loaders)
=============================================================================
