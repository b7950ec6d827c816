------------------------------- MODULE Ledger -------------------------------
(***************************************************************************)
(* What partner billing promises, with every operation atomic: each API    *)
(* key has a prepaid balance; the price of a task is taken once, when the  *)
(* task is accepted, and given back at most once, when the task fails for  *)
(* good.  Module Billing is shown to implement it at the level of database *)
(* statements.                                                             *)
(***************************************************************************)
EXTENDS Integers

CONSTANTS Keys,          \* API keys (partners)
          Tasks,         \* generation tasks
          KeyOf,         \* the key each task is charged to
          Price,         \* the price of each task, in credits
          TopupAmounts   \* amounts an administrator may add

VARIABLES balance,       \* credits of each key
          phase,         \* "none", "held" or "refunded", for each task
          audited        \* whether a charge has been recorded as final

vars == <<balance, phase, audited>>

Init == /\ balance = [k \in Keys |-> 0]
        /\ phase   = [t \in Tasks |-> "none"]
        /\ audited = [t \in Tasks |-> FALSE]

(* Take the price of t; never more than the key owns.                      *)
Hold(t) ==
    /\ phase[t] = "none"
    /\ balance[KeyOf[t]] >= Price[t]
    /\ balance' = [balance EXCEPT ![KeyOf[t]] = @ - Price[t]]
    /\ phase' = [phase EXCEPT ![t] = "held"]
    /\ UNCHANGED audited

(* Give the price of t back, once.                                         *)
Refund(t) ==
    /\ phase[t] = "held"
    /\ balance' = [balance EXCEPT ![KeyOf[t]] = @ + Price[t]]
    /\ phase' = [phase EXCEPT ![t] = "refunded"]
    /\ UNCHANGED audited

Topup(k, a) ==
    /\ balance' = [balance EXCEPT ![k] = @ + a]
    /\ UNCHANGED <<phase, audited>>

(* Record, once, that a charge stands; moves no credits.                   *)
Audit(t) ==
    /\ phase[t] # "none"
    /\ ~audited[t]
    /\ audited' = [audited EXCEPT ![t] = TRUE]
    /\ UNCHANGED <<balance, phase>>

Next == \/ \E t \in Tasks : Hold(t) \/ Refund(t) \/ Audit(t)
        \/ \E k \in Keys, a \in TopupAmounts : Topup(k, a)

Spec == Init /\ [][Next]_vars
=============================================================================
