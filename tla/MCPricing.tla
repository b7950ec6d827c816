------------------------------ MODULE MCPricing ------------------------------
(* Values of the constants of Pricing for TLC.                              *)
EXTENDS Pricing, TLC

CONSTANTS h1, r1, r2

(* A file with a default only; one that prices the mode and the key apart;  *)
(* one whose values are half a credit, which truncates to nothing, one and  *)
(* a half, which truncates to one, and no number at all.                    *)
MCFiles ==
    {[defaults |-> 80, modes |-> None, keys |-> NoOverrides],
     [defaults |-> 60, modes |-> 90, keys |-> [mode |-> None, type |-> 70]],
     [defaults |-> Text, modes |-> 1, keys |-> [mode |-> 3, type |-> None]]}
MCOverrideSets == {NoOverrides, [mode |-> None, type |-> 10], [mode |-> 0, type |-> 10]}

Symmetry == Permutations(Reloaders)
=============================================================================
