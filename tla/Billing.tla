------------------------------- MODULE Billing -------------------------------
(***************************************************************************)
(* Partner billing (app/services/billing.py, app/repositories/             *)
(* billing_repo.py) at the level of SQL statements.  Any number of         *)
(* database sessions -- API handlers and Celery workers -- run reserve,    *)
(* refund, commit_charge_audit and topup concurrently under PostgreSQL's   *)
(* default isolation, READ COMMITTED:                                      *)
(*   - a SELECT sees what is committed, and the session's own writes;      *)
(*   - an UPDATE of a key's balance locks that row until the transaction   *)
(*     ends, and waits for the lock;                                       *)
(*   - the unique constraint (task_id, entry_type) fails an INSERT whose   *)
(*     row exists, and makes it wait for a row not yet committed.          *)
(* A call that returns without having written anything (402, no price,     *)
(* row already there) changes no variable, so stuttering stands for it.    *)
(***************************************************************************)
EXTENDS Integers, Sequences

CONSTANTS Keys,          \* API keys (partners)
          Tasks,         \* generation tasks
          KeyOf,         \* Task.api_key_id
          Price,         \* what pricing.price_for returned for the task
          TopupAmounts,  \* amounts an administrator may add
          Sessions,      \* database sessions
          MaxCredits,    \* the largest value of the Integer column
          MaxMoves,      \* bound: movements of a key after which no topup starts
          NoTask,        \* NULL task_id
          Free,          \* nobody holds the row lock
          NoRow,         \* a session outside a transaction has no row to write
          NoPrice        \* NULL price_credits / no adjust row

Types == {"hold", "refund", "topup", "adjust"}
Row == [type : Types, key : Keys, task : Tasks \cup {NoTask}, amount : Int, after : Int]

ASSUME BillingAssumption ==
    /\ KeyOf \in [Tasks -> Keys]
    /\ Price \in [Tasks -> Nat \ {0}]
    /\ TopupAmounts \subseteq Nat \ {0}
    /\ MaxCredits \in Nat
    /\ MaxMoves \in Nat
    /\ NoTask \notin Tasks
    /\ Free \notin Sessions
    /\ NoPrice \notin Int
    /\ NoRow \notin Row

VARIABLES balance,       \* ApiKey.balance_credits, as committed
          moves,         \* hold, refund and topup rows of each key, in commit order
          audit,         \* balance_after of the adjust row of each task, if any
          priceOf,       \* Task.price_credits, as committed
          lock,          \* which session's transaction has the key's row locked
          pc,            \* where each session is in its operation
          row,           \* the ledger row the session is about to write
          bal            \* the balance the session has written, not committed

vars == <<balance, moves, audit, priceOf, lock, pc, row, bal>>

Entry(type, k, t, amount) ==
    [type |-> type, key |-> k, task |-> t, amount |-> amount, after |-> 0]

(* ledger_exists: a committed row of that type for that task.              *)
Posted(type, t) ==
    \E i \in 1..Len(moves[KeyOf[t]]) :
        moves[KeyOf[t]][i].type = type /\ moves[KeyOf[t]][i].task = t

Init == /\ balance = [k \in Keys |-> 0]
        /\ moves   = [k \in Keys |-> <<>>]
        /\ audit   = [t \in Tasks |-> NoPrice]
        /\ priceOf = [t \in Tasks |-> NoPrice]
        /\ lock    = [k \in Keys |-> Free]
        /\ pc      = [s \in Sessions |-> "idle"]
        /\ row     = [s \in Sessions |-> NoRow]
        /\ bal     = [s \in Sessions |-> 0]

----------------------------------------------------------------------------
(* The session's transaction is over.                                      *)
Close(s) == /\ pc'  = [pc EXCEPT ![s] = "idle"]
            /\ row' = [row EXCEPT ![s] = NoRow]
            /\ bal' = [bal EXCEPT ![s] = 0]

UpdateUnlocked(s, k, amount) ==   \* mutant: read the balance, then write the sum
    /\ balance[k] + amount <= MaxCredits
    /\ lock' = [lock EXCEPT ![k] = s]
    /\ bal'  = [bal EXCEPT ![s] = balance[k] + amount]
    /\ pc'   = [pc EXCEPT ![s] = "updated"]
    /\ UNCHANGED <<balance, moves, audit, priceOf>>

(* UPDATE api_keys SET balance_credits = balance_credits + amount: waits   *)
(* for the row, then leaves the new value in the session's transaction.    *)
UpdateBalance(s, k, amount) ==
    /\ lock[k] = Free
    /\ balance[k] + amount <= MaxCredits
    /\ lock' = [lock EXCEPT ![k] = s]
    /\ bal'  = [bal EXCEPT ![s] = balance[k] + amount]
    /\ pc'   = [pc EXCEPT ![s] = "updated"]
    /\ UNCHANGED <<balance, moves, audit, priceOf>>

(* db.rollback(), or the transaction of a session that died: the lock is   *)
(* released and nothing of it is seen.                                     *)
Rollback(s) ==
    /\ lock' = [k \in Keys |-> IF lock[k] = s THEN Free ELSE lock[k]]
    /\ Close(s)
    /\ UNCHANGED <<balance, moves, audit, priceOf>>

DebitUnguarded(s, t) ==   \* mutant: UPDATE without balance >= amount in its WHERE
    /\ pc[s] = "idle"
    /\ UpdateBalance(s, KeyOf[t], -Price[t])
    /\ row' = [row EXCEPT ![s] = Entry("hold", KeyOf[t], t, -Price[t])]

(* reserve: try_debit, whose WHERE keeps the balance at or above zero.     *)
TryDebit(s, t) ==
    /\ pc[s] = "idle"
    /\ balance[KeyOf[t]] >= Price[t]
    /\ UpdateBalance(s, KeyOf[t], -Price[t])
    /\ row' = [row EXCEPT ![s] = Entry("hold", KeyOf[t], t, -Price[t])]

(* refund: nothing to do without a price or after an earlier refund.       *)
CheckRefund(s, t) ==
    /\ pc[s] = "idle"
    /\ priceOf[t] # NoPrice
    /\ ~Posted("refund", t)
    /\ pc' = [pc EXCEPT ![s] = "checked"]
    /\ row' = [row EXCEPT ![s] = Entry("refund", KeyOf[t], t, priceOf[t])]
    /\ UNCHANGED <<balance, moves, audit, priceOf, lock, bal>>

Credit(s) ==
    /\ pc[s] = "checked" /\ row[s].type = "refund"
    /\ UpdateBalance(s, row[s].key, row[s].amount)
    /\ UNCHANGED row

(* The sum does not fit the column: the UPDATE fails, the caller sees an   *)
(* exception, the session closes without a commit.                         *)
CreditOverflow(s) ==
    /\ pc[s] = "checked" /\ row[s].type = "refund"
    /\ lock[row[s].key] = Free
    /\ balance[row[s].key] + row[s].amount > MaxCredits
    /\ Rollback(s)

(* topup: amount > 0 and an existing key; one UPDATE.                      *)
Topup(s, k, a) ==
    /\ pc[s] = "idle"
    /\ Len(moves[k]) < MaxMoves
    /\ UpdateBalance(s, k, a)
    /\ row' = [row EXCEPT ![s] = Entry("topup", k, NoTask, a)]

AddLedgerNull(s) ==       \* mutant: no balance read, the column stays NULL
    /\ pc[s] = "updated"
    /\ row[s].task \in Tasks => ~Posted(row[s].type, row[s].task)
    /\ row' = [row EXCEPT ![s].after = NoPrice]
    /\ pc' = [pc EXCEPT ![s] = "inserted"]
    /\ UNCHANGED <<balance, moves, audit, priceOf, lock, bal>>

AddLedgerBefore(s) ==     \* mutant: the balance is read outside the transaction
    /\ pc[s] = "updated"
    /\ row[s].task \in Tasks => ~Posted(row[s].type, row[s].task)
    /\ row' = [row EXCEPT ![s].after = balance[row[s].key]]
    /\ pc' = [pc EXCEPT ![s] = "inserted"]
    /\ UNCHANGED <<balance, moves, audit, priceOf, lock, bal>>

AddLedgerTwice(s) ==      \* mutant: no unique constraint, only ledger_exists
    /\ pc[s] = "updated"
    /\ row' = [row EXCEPT ![s].after = bal[s]]
    /\ pc' = [pc EXCEPT ![s] = "inserted"]
    /\ UNCHANGED <<balance, moves, audit, priceOf, lock, bal>>

(* get_balance of the session's own locked row, then add_ledger, whose     *)
(* flush inserts the row and meets the unique constraint.                  *)
AddLedger(s) ==
    /\ pc[s] = "updated"
    /\ row[s].task \in Tasks => ~Posted(row[s].type, row[s].task)
    /\ row' = [row EXCEPT ![s].after = bal[s]]
    /\ pc' = [pc EXCEPT ![s] = "inserted"]
    /\ UNCHANGED <<balance, moves, audit, priceOf, lock, bal>>

RecordedKept(s) ==        \* mutant: IntegrityError ends in commit, not rollback
    /\ pc[s] = "updated"
    /\ row[s].task \in Tasks
    /\ Posted(row[s].type, row[s].task)
    /\ balance' = [balance EXCEPT ![row[s].key] = bal[s]]
    /\ lock' = [lock EXCEPT ![row[s].key] = Free]
    /\ Close(s)
    /\ UNCHANGED <<moves, audit, priceOf>>

RecordedOpen(s) ==        \* mutant: no rollback, the transaction stays open
    /\ pc[s] = "updated"
    /\ row[s].task \in Tasks
    /\ Posted(row[s].type, row[s].task)
    /\ Close(s)
    /\ UNCHANGED <<balance, moves, audit, priceOf, lock>>

(* IntegrityError: the row is already there; the UPDATE is undone with it. *)
AlreadyRecorded(s) ==
    /\ pc[s] = "updated"
    /\ row[s].task \in Tasks
    /\ Posted(row[s].type, row[s].task)
    /\ Rollback(s)

(* db.commit(): balance, ledger row and, for a hold, task.price_credits    *)
(* become visible together and the row is unlocked.                        *)
Commit(s) ==
    /\ pc[s] = "inserted" /\ row[s].type # "adjust"
    /\ balance' = [balance EXCEPT ![row[s].key] = bal[s]]
    /\ moves' = [moves EXCEPT ![row[s].key] = Append(@, row[s])]
    /\ priceOf' = IF row[s].type = "hold"
                  THEN [priceOf EXCEPT ![row[s].task] = -row[s].amount]
                  ELSE priceOf
    /\ lock' = [lock EXCEPT ![row[s].key] = Free]
    /\ Close(s)
    /\ UNCHANGED audit

----------------------------------------------------------------------------
CheckAuditFree(s, t) ==   \* mutant: a task without a price is not passed over
    /\ pc[s] = "idle"
    /\ audit[t] = NoPrice
    /\ pc' = [pc EXCEPT ![s] = "checked"]
    /\ row' = [row EXCEPT ![s] = Entry("adjust", KeyOf[t], t, 0)]
    /\ UNCHANGED <<balance, moves, audit, priceOf, lock, bal>>

(* commit_charge_audit: a zero row that records a final charge.  It reads  *)
(* the balance without locking the key.                                    *)
CheckAudit(s, t) ==
    /\ pc[s] = "idle"
    /\ priceOf[t] # NoPrice
    /\ audit[t] = NoPrice
    /\ pc' = [pc EXCEPT ![s] = "checked"]
    /\ row' = [row EXCEPT ![s] = Entry("adjust", KeyOf[t], t, 0)]
    /\ UNCHANGED <<balance, moves, audit, priceOf, lock, bal>>

ReadBalance(s) ==
    /\ pc[s] = "checked" /\ row[s].type = "adjust"
    /\ row' = [row EXCEPT ![s].after = balance[row[s].key]]
    /\ pc' = [pc EXCEPT ![s] = "read"]
    /\ UNCHANGED <<balance, moves, audit, priceOf, lock, bal>>

(* Another transaction has inserted the same adjust row and not ended.     *)
AuditPending(t) ==
    \E r \in Sessions : pc[r] = "inserted" /\ row[r].type = "adjust" /\ row[r].task = t

AddAudit(s) ==
    /\ pc[s] = "read"
    /\ ~AuditPending(row[s].task)
    /\ audit[row[s].task] = NoPrice
    /\ pc' = [pc EXCEPT ![s] = "inserted"]
    /\ UNCHANGED <<balance, moves, audit, priceOf, lock, row, bal>>

AuditRecorded(s) ==
    /\ pc[s] = "read"
    /\ audit[row[s].task] # NoPrice
    /\ Rollback(s)

CommitAudit(s) ==
    /\ pc[s] = "inserted" /\ row[s].type = "adjust"
    /\ audit' = [audit EXCEPT ![row[s].task] = row[s].after]
    /\ Close(s)
    /\ UNCHANGED <<balance, moves, priceOf, lock>>

----------------------------------------------------------------------------
(* The process or its connection dies in the middle of a transaction.      *)
Crash(s) == pc[s] # "idle" /\ Rollback(s)

(* The next statement of an operation that has begun.                      *)
Statement(s) ==
    \/ Credit(s) \/ CreditOverflow(s) \/ AddLedger(s) \/ AlreadyRecorded(s) \/ Commit(s)
    \/ ReadBalance(s) \/ AddAudit(s) \/ AuditRecorded(s) \/ CommitAudit(s)

Begin(s) ==
    \/ \E t \in Tasks : TryDebit(s, t) \/ CheckRefund(s, t) \/ CheckAudit(s, t)
    \/ \E k \in Keys, a \in TopupAmounts : Topup(s, k, a)

Next == \E s \in Sessions : Begin(s) \/ Statement(s) \/ Crash(s)

Spec == Init /\ [][Next]_vars

(* PostgreSQL queues the transactions that wait for a row, so one that     *)
(* waits is not overtaken for ever: strong fairness of each session.       *)
FairSpec == Spec /\ \A s \in Sessions : SF_vars(Statement(s))
----------------------------------------------------------------------------
(* Every variable keeps its type; a session's row is in the shape its      *)
(* place in the operation calls for.                                       *)
TypeOK ==
    /\ balance \in [Keys -> Int]
    /\ moves \in [Keys -> Seq(Row)]
    /\ audit \in [Tasks -> Int \cup {NoPrice}]
    /\ priceOf \in [Tasks -> Int \cup {NoPrice}]
    /\ lock \in [Keys -> Sessions \cup {Free}]
    /\ pc \in [Sessions -> {"idle", "checked", "read", "updated", "inserted"}]
    /\ row \in [Sessions -> Row \cup {NoRow}]
    /\ bal \in [Sessions -> Int]
    /\ \A s \in Sessions : pc[s] # "idle" => row[s] \in Row

(* No partner ever owes credits, and no balance leaves the column's range: *)
(* the guard of try_debit holds at the moment the row is locked, whatever  *)
(* other sessions spend or give back meanwhile.                            *)
BalanceInRange == \A k \in Keys : balance[k] \in 0..MaxCredits

(* The movements of a key account for its balance to the credit: each row  *)
(* shows the balance after it, which is the balance after the row before   *)
(* plus its own amount, and the last row shows the balance there is.       *)
After(k, i) == IF i = 0 THEN 0 ELSE moves[k][i].after
LedgerChain ==
    \A k \in Keys :
        /\ \A i \in 1..Len(moves[k]) : moves[k][i].after = After(k, i - 1) + moves[k][i].amount
        /\ balance[k] = After(k, Len(moves[k]))

(* A task is charged at most once, at the price kept in price_credits; it  *)
(* is given back at most once, after the charge, and exactly the charge.   *)
ChargedOnce ==
    \A k \in Keys : \A i \in 1..Len(moves[k]) :
        LET r == moves[k][i] IN
        /\ r.type = "hold" =>
               /\ priceOf[r.task] = -r.amount
               /\ \A j \in 1..(i - 1) : moves[k][j].task # r.task
        /\ r.type = "refund" =>
               /\ \E j \in 1..(i - 1) : /\ moves[k][j].type = "hold"
                                       /\ moves[k][j].task = r.task
                                       /\ moves[k][j].amount = -r.amount
               /\ \A j \in 1..(i - 1) : moves[k][j].type = "refund" => moves[k][j].task # r.task

(* An operation that has begun comes to an end: no deadlock of row locks   *)
(* and unique-index waits, no lock left behind by an error path.           *)
OperationsEnd == \A s \in Sessions : pc[s] # "idle" ~> pc[s] = "idle"

(* The statement-level system implements the atomic ledger.                *)
Phase == [t \in Tasks |-> IF Posted("refund", t) THEN "refunded"
                          ELSE IF Posted("hold", t) THEN "held" ELSE "none"]
L == INSTANCE Ledger WITH phase <- Phase,
                          audited <- [t \in Tasks |-> audit[t] # NoPrice]
LedgerSpec == L!Spec

(* What an audit row records is a charge that was made, and a balance that *)
(* the key had after it: other sessions may spend, add or give back        *)
(* credits between the look at the price, the look at the balance, which   *)
(* takes no lock, and the insert, and the task itself may be refunded.     *)
HadSince(t, b) ==
    \E i \in 1..Len(moves[KeyOf[t]]) :
        /\ b = After(KeyOf[t], i)
        /\ \E j \in 1..i : moves[KeyOf[t]][j].type = "hold" /\ moves[KeyOf[t]][j].task = t
AuditAfterCharge == \A t \in Tasks : audit[t] # NoPrice => HadSince(t, audit[t])
=============================================================================
