------------------------------ MODULE MCAdmission ------------------------------
(* Values of the constants of Admission for TLC.                            *)
EXTENDS Admission, TLC

CONSTANTS h1, h2, key, u1

(* Requests with a user's identifier and without: three of them exceed the  *)
(* user's limit more than twice and the key's once, in three windows.       *)
MCChains == {<<key, u1>>, <<key>>}
MCLimit == [id \in Ids |-> IF id = key THEN 2 ELSE 1]

Symmetry == Permutations(Handlers)
=============================================================================
