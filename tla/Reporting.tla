------------------------------ MODULE Reporting ------------------------------
(***************************************************************************)
(* What one run of process_generation promises about its reports to the    *)
(* source, whatever its attempts, waits, commits and time limits come to:  *)
(* one report at a time, that of a failure never before that of a result,  *)
(* each with at most one row of webhooks, which is closed once, while its  *)
(* own report is the current one, and as delivered only when the source    *)
(* has been told; a report whose row is closed is gone on with no more;    *)
(* and the run comes to its end.  CallbackDelivery implements it.          *)
(***************************************************************************)
CONSTANT None

Reports == {"completed", "failed"}

VARIABLES current,       \* the report in progress, None before, "over" at the end
          row,           \* the status of each report's row
          told           \* whether the source has been told it

reporting == <<current, row, told>>

Init == /\ current = None
        /\ row = [r \in Reports |-> None]
        /\ told = [r \in Reports |-> FALSE]

Begin(r) == /\ current = None
            /\ current' = r
            /\ UNCHANGED <<row, told>>

(* What a report can be left for: the end of the run, and that of a result *)
(* for the report of a failure as well, also when its row is closed.       *)
Leave == \/ current' = "over"
         \/ current = "completed" /\ current' = "failed"

GoOnOrLeave == UNCHANGED current \/ Leave

Insert == /\ current \in Reports
          /\ row[current] = None
          /\ row' = [row EXCEPT ![current] = "pending"]
          /\ GoOnOrLeave
          /\ UNCHANGED told

(* What an attempt may do to what the source knows of the current report:  *)
(* any attempt but one that fails on the way tells it.                     *)
Tell == /\ current \in Reports
        /\ told' \in {told, [told EXCEPT ![current] = TRUE]}
        /\ GoOnOrLeave
        /\ UNCHANGED row

Close(status) == /\ current \in Reports
                 /\ row[current] = "pending"
                 /\ status = "delivered" => told[current]
                 /\ row' = [row EXCEPT ![current] = status]
                 /\ Leave
                 /\ UNCHANGED told

Next == \/ \E r \in Reports : Begin(r)
        \/ Insert \/ Tell \/ Close("delivered") \/ Close("failed")

Spec == Init /\ [][Next]_reporting /\ WF_reporting(Next)
=============================================================================
