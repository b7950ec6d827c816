------------------------------ MODULE MCBilling ------------------------------
(* Values of the constants of Billing for TLC.                              *)
EXTENDS Billing

CONSTANTS k1, t1, t2, s1, s2, s3

(* Two tasks of one partner, which it cannot both afford without a refund   *)
(* or a second topup.                                                       *)
MCKeyOf == [t \in Tasks |-> k1]
MCPrice == [t \in Tasks |-> IF t = t1 THEN 2 ELSE 3]
=============================================================================
