------------------------------ MODULE MCReports ------------------------------
(* Values of the constants of BillingReports for TLC.                       *)
EXTENDS BillingReports, TLC

CONSTANTS k1, t1, t2, s1, s2

MCKeyOf == [t \in Tasks |-> k1]
MCPrice == [t \in Tasks |-> IF t = t1 THEN 2 ELSE 3]

(* The third movement, a refund perhaps, is dated by a slower clock than    *)
(* the second, and the fifth as the fourth is.                              *)
MCCreatedAt(k, i) == <<2, 4, 3, 5, 5>>[i]
MCPeriods == {Always, <<3, 3>>, <<NoDate, 3>>, <<4, NoDate>>}

Symmetry == Permutations(Sessions)
=============================================================================
