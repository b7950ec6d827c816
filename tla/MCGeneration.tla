---------------------------- MODULE MCGeneration ----------------------------
(* Values of the constants of Generation for TLC.                           *)
EXTENDS Generation, TLC

CONSTANTS p1, p2, p3, w1, w2, k1, req

(* p1 and p2 repeat one request_id, p3 has none; one partner sends them.    *)
MCKeyOf == [p \in Posts |-> k1]
MCReqOf == [p \in Posts |-> IF p = p3 THEN NoReq ELSE req]
MCPrice == [p \in Posts |-> IF p = p1 THEN 2 ELSE 3]

(* Not enough for both p1 and p2, and just enough.                          *)
MCCredits == [k \in Keys |-> 4]
MCCreditsForBoth == [k \in Keys |-> 5]
MCAllFaults == FaultKinds

Symmetry == Permutations(Workers)
=============================================================================
