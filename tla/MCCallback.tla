------------------------------ MODULE MCCallback ------------------------------
(* Values of the constants of CallbackDelivery for TLC: the limits and the  *)
(* number of attempts of the code, generations that end long before the     *)
(* soft limit, so that five POSTs of 75 seconds just fit or just do not,    *)
(* and shortly before it; POSTs of the 30 seconds after which httpx gives   *)
(* up on one phase of a request, and longer ones.                           *)
EXTENDS CallbackDelivery

MCEnds == {10, 146, 147, 480, 538, 540}
MCDurations == {30, 75}
=============================================================================
