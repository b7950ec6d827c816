---------------------------- MODULE BillingProofs ----------------------------
(***************************************************************************)
(* Proofs about Billing, for every set of keys, tasks and sessions and     *)
(* every price: the balance stays in range, the ledger accounts for it,    *)
(* a task is charged and given back at most once, and the statements       *)
(* implement the atomic operations of Ledger; and about BillingReports:    *)
(* one ledger explains every report.                                       *)
(***************************************************************************)
EXTENDS BillingReports, Sums, TLAPS

(* A transaction that has updated or inserted a movement owns the row lock *)
(* of its key, so the balance it read is still the committed one.          *)
LockInv ==
    /\ \A k \in Keys : lock[k] # Free =>
          /\ pc[lock[k]] \in {"updated", "inserted"}
          /\ row[lock[k]].type # "adjust"
          /\ row[lock[k]].key = k
    /\ \A s \in Sessions :
          pc[s] \in {"updated", "inserted"} /\ row[s].type # "adjust" =>
             /\ lock[row[s].key] = s
             /\ bal[s] = balance[row[s].key] + row[s].amount
             /\ bal[s] \in 0..MaxCredits

(* What the row of a session in progress is, by its place.                 *)
RowOK(s) ==
    /\ pc[s] = "checked" => row[s].type \in {"refund", "adjust"}
    /\ pc[s] = "read" => row[s].type = "adjust"
    /\ pc[s] = "updated" => row[s].type # "adjust"
    /\ row[s].type # "topup" => row[s].task \in Tasks /\ row[s].key = KeyOf[row[s].task]
    /\ row[s].type = "topup" => row[s].task = NoTask
    /\ row[s].type = "hold" => row[s].amount = -Price[row[s].task]
    /\ row[s].type = "refund" =>
          priceOf[row[s].task] # NoPrice /\ row[s].amount = priceOf[row[s].task]
    /\ pc[s] = "inserted" /\ row[s].type # "adjust" =>
          /\ row[s].after = bal[s]
          /\ row[s].type # "topup" => ~Posted(row[s].type, row[s].task)
RowInv == \A s \in Sessions : pc[s] # "idle" => RowOK(s)

(* Where committed rows are, and that a price is kept only with its hold.  *)
MovesInv ==
    /\ \A k \in Keys : \A i \in 1..Len(moves[k]) :
          /\ moves[k][i].type \in {"hold", "refund", "topup"}
          /\ moves[k][i].type = "topup" => moves[k][i].task = NoTask
          /\ moves[k][i].type # "topup" =>
                moves[k][i].task \in Tasks /\ KeyOf[moves[k][i].task] = k
    /\ \A t \in Tasks : priceOf[t] # NoPrice =>
          \E i \in 1..Len(moves[KeyOf[t]]) :
             /\ moves[KeyOf[t]][i].type = "hold"
             /\ moves[KeyOf[t]][i].task = t
             /\ moves[KeyOf[t]][i].amount = -priceOf[t]
    /\ \A t \in Tasks : priceOf[t] # NoPrice => priceOf[t] \in Nat \ {0}

BillingInv == /\ TypeOK /\ LockInv /\ RowInv /\ MovesInv
              /\ BalanceInRange /\ LedgerChain /\ ChargedOnce

----------------------------------------------------------------------------
(* The initial state is typed.                                             *)
LEMMA TypeInit == Init => TypeOK
BY BillingAssumption DEF Init, TypeOK, Row

(* Every step keeps the types, action by action.                           *)
LEMMA TypeNext == ASSUME TypeOK, [Next]_vars PROVE TypeOK'
<1> USE BillingAssumption
<1>1. ASSUME NEW s \in Sessions, NEW k \in Keys, NEW a \in Int, UpdateBalance(s, k, a)
      PROVE  /\ balance' \in [Keys -> Int] /\ lock' \in [Keys -> Sessions \cup {Free}]
             /\ bal' \in [Sessions -> Int]
             /\ pc' \in [Sessions -> {"idle", "checked", "read", "updated", "inserted"}]
             /\ moves' \in [Keys -> Seq(Row)]
             /\ audit' \in [Tasks -> Int \cup {NoPrice}]
             /\ priceOf' \in [Tasks -> Int \cup {NoPrice}]
  BY <1>1 DEF TypeOK, UpdateBalance
<1>2. ASSUME NEW s \in Sessions, NEW t \in Tasks, TryDebit(s, t) PROVE TypeOK'
  <2>1. KeyOf[t] \in Keys /\ -Price[t] \in Int /\ UpdateBalance(s, KeyOf[t], -Price[t])
    BY <1>2 DEF TryDebit
  <2>2. row'[s] \in Row /\ row' \in [Sessions -> Row \cup {NoRow}]
    BY <1>2, <2>1 DEF TypeOK, TryDebit, Entry, Row, Types
  <2>3. \A r \in Sessions : pc'[r] # "idle" => row'[r] \in Row
    BY <1>2, <2>1, <2>2 DEF TypeOK, TryDebit, UpdateBalance
  <2> QED BY <1>1, <2>1, <2>2, <2>3 DEF TypeOK
<1>3. ASSUME NEW s \in Sessions, NEW t \in Tasks, CheckRefund(s, t) PROVE TypeOK'
  <2>1. Entry("refund", KeyOf[t], t, priceOf[t]) \in Row
    BY <1>3 DEF TypeOK, CheckRefund, Entry, Row, Types
  <2> QED BY <1>3, <2>1 DEF TypeOK, CheckRefund
<1>4. ASSUME NEW s \in Sessions, NEW t \in Tasks, CheckAudit(s, t) PROVE TypeOK'
  <2>1. Entry("adjust", KeyOf[t], t, 0) \in Row
    BY <1>4 DEF Entry, Row, Types
  <2> QED BY <1>4, <2>1 DEF TypeOK, CheckAudit
<1>5. ASSUME NEW s \in Sessions, NEW k \in Keys, NEW a \in TopupAmounts, Topup(s, k, a)
      PROVE TypeOK'
  <2>1. UpdateBalance(s, k, a) /\ a \in Int
    BY <1>5 DEF Topup
  <2>2. row'[s] \in Row /\ row' \in [Sessions -> Row \cup {NoRow}]
    BY <1>5, <2>1 DEF TypeOK, Topup, Entry, Row, Types
  <2>3. \A r \in Sessions : pc'[r] # "idle" => row'[r] \in Row
    BY <1>5, <2>1, <2>2 DEF TypeOK, Topup, UpdateBalance
  <2> QED BY <1>1, <2>1, <2>2, <2>3 DEF TypeOK
<1>6. ASSUME NEW s \in Sessions, Rollback(s) PROVE TypeOK'
  BY <1>6 DEF TypeOK, Rollback, Close
<1>7. ASSUME NEW s \in Sessions, Credit(s) PROVE TypeOK'
  <2>1. row[s].key \in Keys /\ row[s].amount \in Int
    BY <1>7 DEF TypeOK, Credit, Row
  <2>2. UpdateBalance(s, row[s].key, row[s].amount) /\ row' = row
    BY <1>7 DEF Credit
  <2>3. \A r \in Sessions : pc'[r] # "idle" => row'[r] \in Row
    BY <1>7, <2>2 DEF TypeOK, Credit, UpdateBalance
  <2> QED BY <1>1, <2>1, <2>2, <2>3 DEF TypeOK
<1>8. ASSUME NEW s \in Sessions, AddLedger(s) PROVE TypeOK'
  <2>1. row[s] \in Row /\ bal[s] \in Int
    BY <1>8 DEF TypeOK, AddLedger
  <2>2. [row[s] EXCEPT !.after = bal[s]] \in Row
    BY <2>1 DEF Row
  <2> QED BY <1>8, <2>2 DEF TypeOK, AddLedger
<1>9. ASSUME NEW s \in Sessions, ReadBalance(s) PROVE TypeOK'
  <2>1. row[s] \in Row
    BY <1>9 DEF TypeOK, ReadBalance
  <2>2. [row[s] EXCEPT !.after = balance[row[s].key]] \in Row
    BY <2>1 DEF Row, TypeOK
  <2> QED BY <1>9, <2>2 DEF TypeOK, ReadBalance
<1>10. ASSUME NEW s \in Sessions, AddAudit(s) PROVE TypeOK'
  BY <1>10 DEF TypeOK, AddAudit
<1>11. ASSUME NEW s \in Sessions, Commit(s) PROVE TypeOK'
  <2>1. /\ row[s] \in Row /\ bal[s] \in Int /\ row[s].key \in Keys /\ -row[s].amount \in Int
    BY <1>11 DEF TypeOK, Commit, Row
  <2>2. moves' \in [Keys -> Seq(Row)]
    <3>1. moves[row[s].key] \in Seq(Row)
      BY <2>1 DEF TypeOK
    <3>2. Append(moves[row[s].key], row[s]) \in Seq(Row)
      BY <3>1, <2>1
    <3> QED BY <1>11, <3>2 DEF TypeOK, Commit
  <2>3. priceOf' \in [Tasks -> Int \cup {NoPrice}]
    BY <1>11, <2>1 DEF TypeOK, Commit
  <2> QED BY <1>11, <2>1, <2>2, <2>3 DEF TypeOK, Commit, Close
<1>12. ASSUME NEW s \in Sessions, CommitAudit(s) PROVE TypeOK'
  <2>1. row[s].after \in Int
    BY <1>12 DEF TypeOK, CommitAudit, Row
  <2>2. audit' \in [Tasks -> Int \cup {NoPrice}]
    BY <1>12, <2>1 DEF TypeOK, CommitAudit
  <2>3. /\ pc' \in [Sessions -> {"idle", "checked", "read", "updated", "inserted"}]
        /\ row' \in [Sessions -> Row \cup {NoRow}] /\ bal' \in [Sessions -> Int]
        /\ \A r \in Sessions : pc'[r] # "idle" => row'[r] \in Row
    BY <1>12 DEF TypeOK, CommitAudit, Close
  <2> QED BY <1>12, <2>2, <2>3 DEF TypeOK, CommitAudit
<1>13. CASE UNCHANGED vars
  BY <1>13 DEF TypeOK, vars
<1> QED
  BY <1>2, <1>3, <1>4, <1>5, <1>6, <1>7, <1>8, <1>9, <1>10, <1>11, <1>12, <1>13
     DEF Next, Begin, Statement, Crash, CreditOverflow, AlreadyRecorded, AuditRecorded

(* Every variable keeps its type in every reachable state.                 *)
THEOREM TypeCorrect == Spec => []TypeOK
BY TypeInit, TypeNext, PTL DEF Spec

----------------------------------------------------------------------------
(* Only Commit touches committed money.                                    *)
LEMMA Quiet ==
    ASSUME BillingInv, UNCHANGED <<balance, moves, priceOf>>
    PROVE  MovesInv' /\ BalanceInRange' /\ LedgerChain' /\ ChargedOnce'
BY DEF BillingInv, MovesInv, BalanceInRange, LedgerChain, After, ChargedOnce

(* The row of a session another session's step does not touch.             *)
LEMMA RowFrame ==
    ASSUME NEW r, RowOK(r), pc'[r] = pc[r], row'[r] = row[r], bal'[r] = bal[r],
           UNCHANGED <<moves, priceOf>>
    PROVE  RowOK(r)'
BY DEF RowOK, Posted

(* The initial state satisfies the inductive invariant.                    *)
LEMMA InitInv == Init => BillingInv
<1> SUFFICES ASSUME Init PROVE BillingInv
  OBVIOUS
<1> USE BillingAssumption
<1>1. TypeOK
  BY TypeInit
<1>2. LockInv /\ RowInv
  BY DEF Init, LockInv, RowInv
<1>3. MovesInv /\ BalanceInRange /\ LedgerChain /\ ChargedOnce
  BY DEF Init, MovesInv, BalanceInRange, LedgerChain, After, ChargedOnce
<1> QED BY <1>1, <1>2, <1>3 DEF BillingInv

(* Locking a free row for a session that had no lock.                      *)
LEMMA UpdateLocks ==
    ASSUME BillingInv, NEW s \in Sessions, NEW k \in Keys, NEW a \in Int,
           UpdateBalance(s, k, a), pc[s] \in {"idle", "checked"}, balance[k] + a >= 0,
           row' \in [Sessions -> Row \cup {NoRow}],
           \A r \in Sessions \ {s} : row'[r] = row[r],
           row'[s].key = k, row'[s].amount = a, row'[s].type # "adjust"
    PROVE  LockInv'
<1> USE BillingAssumption DEF BillingInv, TypeOK
<1>1. /\ lock' = [lock EXCEPT ![k] = s] /\ lock[k] = Free /\ balance' = balance
      /\ pc' = [pc EXCEPT ![s] = "updated"]
      /\ bal' = [bal EXCEPT ![s] = balance[k] + a] /\ balance[k] + a <= MaxCredits
  BY DEF UpdateBalance
<1>2. \A j \in Keys : lock[j] # s
  <2> SUFFICES ASSUME NEW j \in Keys, lock[j] = s PROVE FALSE
    OBVIOUS
  <2>1. lock[j] # Free
    OBVIOUS
  <2>2. pc[s] \in {"updated", "inserted"}
    BY <2>1 DEF LockInv
  <2> QED BY <2>2
<1>3. ASSUME NEW j \in Keys, lock'[j] # Free
      PROVE  /\ pc'[lock'[j]] \in {"updated", "inserted"}
             /\ row'[lock'[j]].type # "adjust"
             /\ row'[lock'[j]].key = j
  <2>1. CASE j = k
    BY <1>1, <2>1
  <2>2. CASE j # k
    BY <1>1, <1>2, <1>3, <2>2 DEF LockInv
  <2> QED BY <2>1, <2>2
<1>4. ASSUME NEW r \in Sessions, pc'[r] \in {"updated", "inserted"}, row'[r].type # "adjust"
      PROVE  /\ lock'[row'[r].key] = r
             /\ bal'[r] = balance'[row'[r].key] + row'[r].amount
             /\ bal'[r] \in 0..MaxCredits
  <2>1. CASE r = s
    BY <1>1, <2>1
  <2>2. CASE r # s
    <3>1. /\ lock[row[r].key] = r /\ row'[r] = row[r] /\ row[r].key \in Keys
          /\ bal[r] = balance[row[r].key] + row[r].amount /\ bal[r] \in 0..MaxCredits
      BY <1>1, <1>4, <2>2 DEF LockInv, Row
    <3> QED BY <1>1, <2>2, <3>1
  <2> QED BY <2>1, <2>2
<1> QED BY <1>3, <1>4 DEF LockInv

(* Rolling back, and committing an audit row, leave every other session    *)
(* with the lock it had.                                                   *)
LEMMA RollbackInv ==
    ASSUME BillingInv, NEW s \in Sessions, Rollback(s)
    PROVE  LockInv' /\ RowInv'
<1> USE BillingAssumption DEF BillingInv, TypeOK, Rollback, Close
<1>1. LockInv'
  BY DEF LockInv, Row
<1>2. RowInv'
  BY RowFrame DEF RowInv
<1> QED BY <1>1, <1>2

(* Steps that begin or continue an operation without committing it.        *)
LEMMA DebitInv ==
    ASSUME BillingInv, NEW s \in Sessions, NEW t \in Tasks, TryDebit(s, t)
    PROVE  LockInv' /\ RowInv'
<1> USE BillingAssumption DEF BillingInv, TypeOK
<1>1. /\ UpdateBalance(s, KeyOf[t], -Price[t]) /\ KeyOf[t] \in Keys /\ Price[t] \in Nat
      /\ row' = [row EXCEPT ![s] = Entry("hold", KeyOf[t], t, -Price[t])]
      /\ pc[s] = "idle" /\ -Price[t] \in Int /\ balance[KeyOf[t]] + (-Price[t]) >= 0
  BY DEF TryDebit, BalanceInRange
<1>2. row' \in [Sessions -> Row \cup {NoRow}]
  BY <1>1 DEF Entry, Row, Types
<1>3. LockInv'
  <2>1. /\ \A r \in Sessions \ {s} : row'[r] = row[r]
        /\ row'[s].key = KeyOf[t] /\ row'[s].amount = -Price[t] /\ row'[s].type # "adjust"
    BY <1>1 DEF Entry
  <2> QED BY <1>1, <1>2, <2>1, UpdateLocks
<1>4. RowOK(s)'
  BY <1>1 DEF UpdateBalance, RowOK, Entry
<1>5. ASSUME NEW r \in Sessions, r # s, pc'[r] # "idle" PROVE RowOK(r)'
  BY <1>1, <1>5, RowFrame DEF UpdateBalance, RowInv
<1> QED BY <1>3, <1>4, <1>5 DEF RowInv

(* A topup locks the row and reads the balance it will write.              *)
LEMMA TopupInv ==
    ASSUME BillingInv, NEW s \in Sessions, NEW k \in Keys, NEW a \in TopupAmounts,
           Topup(s, k, a)
    PROVE  LockInv' /\ RowInv'
<1> USE BillingAssumption DEF BillingInv, TypeOK
<1>1. /\ UpdateBalance(s, k, a) /\ a \in Nat
      /\ row' = [row EXCEPT ![s] = Entry("topup", k, NoTask, a)]
      /\ pc[s] = "idle" /\ balance[k] + a >= 0
  BY DEF Topup, BalanceInRange
<1>2. row' \in [Sessions -> Row \cup {NoRow}]
  BY <1>1 DEF Entry, Row, Types
<1>3. LockInv'
  BY <1>1, <1>2, UpdateLocks DEF Entry
<1>4. RowOK(s)'
  BY <1>1 DEF UpdateBalance, RowOK, Entry
<1>5. ASSUME NEW r \in Sessions, r # s, pc'[r] # "idle" PROVE RowOK(r)'
  BY <1>1, <1>5, RowFrame DEF UpdateBalance, RowInv
<1> QED BY <1>3, <1>4, <1>5 DEF RowInv

(* A refund that reaches its UPDATE does the same.                         *)
LEMMA CreditInv ==
    ASSUME BillingInv, NEW s \in Sessions, Credit(s)
    PROVE  LockInv' /\ RowInv'
<1> USE BillingAssumption DEF BillingInv, TypeOK
<1>1. /\ UpdateBalance(s, row[s].key, row[s].amount) /\ row' = row
      /\ row[s] \in Row /\ row[s].key \in Keys /\ row[s].amount \in Int
      /\ pc[s] = "checked" /\ row[s].type = "refund"
  BY DEF Credit, Row
<1>2. row[s].amount \in Nat
  <2>1. RowOK(s)
    BY <1>1 DEF RowInv
  <2>2. row[s].task \in Tasks /\ priceOf[row[s].task] # NoPrice
        /\ row[s].amount = priceOf[row[s].task]
    BY <1>1, <2>1 DEF RowOK
  <2> QED BY <2>2 DEF MovesInv
<1>3. LockInv'
  <2>1. balance[row[s].key] + row[s].amount >= 0
    BY <1>1, <1>2 DEF BalanceInRange
  <2> QED BY <1>1, <1>2, <2>1, UpdateLocks
<1>4. RowOK(s)'
  BY <1>1 DEF UpdateBalance, RowInv, RowOK
<1>5. ASSUME NEW r \in Sessions, r # s, pc'[r] # "idle" PROVE RowOK(r)'
  BY <1>1, <1>5, RowFrame DEF UpdateBalance, RowInv
<1> QED BY <1>3, <1>4, <1>5 DEF RowInv

(* The inserted row shows the balance of its own transaction.              *)
LEMMA AddLedgerInv ==
    ASSUME BillingInv, NEW s \in Sessions, AddLedger(s)
    PROVE  LockInv' /\ RowInv'
<1> USE BillingAssumption DEF BillingInv, TypeOK
<1>1. /\ row' = [row EXCEPT ![s] = [row[s] EXCEPT !.after = bal[s]]]
      /\ pc' = [pc EXCEPT ![s] = "inserted"] /\ pc[s] = "updated"
      /\ UNCHANGED <<balance, moves, audit, priceOf, lock, bal>>
      /\ row[s].task \in Tasks => ~Posted(row[s].type, row[s].task)
      /\ row[s] \in Row
  BY DEF AddLedger
<1>2. /\ row'[s].type = row[s].type /\ row'[s].key = row[s].key /\ row'[s].task = row[s].task
      /\ row'[s].amount = row[s].amount /\ row'[s].after = bal[s]
  BY <1>1 DEF Row
<1>3. \A r \in Sessions \ {s} : row'[r] = row[r] /\ pc'[r] = pc[r]
  BY <1>1
<1>4. LockInv'
  <2>1. ASSUME NEW k \in Keys, lock'[k] # Free
        PROVE  /\ pc'[lock'[k]] \in {"updated", "inserted"}
               /\ row'[lock'[k]].type # "adjust" /\ row'[lock'[k]].key = k
    BY <1>1, <1>2, <1>3, <2>1 DEF LockInv
  <2>2. ASSUME NEW r \in Sessions, pc'[r] \in {"updated", "inserted"}, row'[r].type # "adjust"
        PROVE  /\ lock'[row'[r].key] = r
               /\ bal'[r] = balance'[row'[r].key] + row'[r].amount
               /\ bal'[r] \in 0..MaxCredits
    BY <1>1, <1>2, <1>3, <2>2 DEF LockInv
  <2> QED BY <2>1, <2>2 DEF LockInv
<1>5. RowOK(s)'
  <2>1. RowOK(s) /\ row[s].type # "adjust"
    BY <1>1 DEF RowInv, RowOK
  <2>2. row[s].type # "topup" => ~Posted(row[s].type, row[s].task)
    BY <1>1, <2>1 DEF RowOK
  <2> QED BY <1>1, <1>2, <2>1, <2>2 DEF RowOK, Posted
<1>6. ASSUME NEW r \in Sessions, r # s, pc'[r] # "idle" PROVE RowOK(r)'
  BY <1>1, <1>3, <1>6, RowFrame DEF RowInv
<1> QED BY <1>4, <1>5, <1>6 DEF RowInv

(* The checks of refund and commit_charge_audit lock nothing.              *)
LEMMA CheckInv ==
    ASSUME BillingInv, NEW s \in Sessions, NEW t \in Tasks,
           CheckRefund(s, t) \/ CheckAudit(s, t)
    PROVE  LockInv' /\ RowInv'
<1> USE BillingAssumption DEF BillingInv, TypeOK
<1>1. /\ pc[s] = "idle" /\ pc' = [pc EXCEPT ![s] = "checked"] /\ priceOf[t] # NoPrice
      /\ UNCHANGED <<balance, moves, audit, priceOf, lock, bal>>
      /\ \A r \in Sessions : r # s => row'[r] = row[r]
  BY DEF CheckRefund, CheckAudit
<1>2. \/ row'[s] = Entry("refund", KeyOf[t], t, priceOf[t])
      \/ row'[s] = Entry("adjust", KeyOf[t], t, 0)
  BY DEF CheckRefund, CheckAudit
<1>3. \A k \in Keys : lock[k] # s
  <2> SUFFICES ASSUME NEW k \in Keys, lock[k] = s PROVE FALSE
    OBVIOUS
  <2> QED BY <1>1 DEF LockInv
<1>4. LockInv'
  BY <1>1, <1>3 DEF LockInv
<1>5. RowOK(s)'
  BY <1>1, <1>2 DEF RowOK, Entry
<1>6. ASSUME NEW r \in Sessions, r # s, pc'[r] # "idle" PROVE RowOK(r)'
  BY <1>1, <1>6, RowFrame DEF RowInv
<1> QED BY <1>4, <1>5, <1>6 DEF RowInv

(* commit_charge_audit works without the lock and touches no movement.     *)
LEMMA AuditInv ==
    ASSUME BillingInv, NEW s \in Sessions, ReadBalance(s) \/ AddAudit(s) \/ CommitAudit(s)
    PROVE  LockInv' /\ RowInv'
<1> USE DEF BillingInv
<1>1. /\ pc[s] \in {"checked", "read", "inserted"} /\ row[s] \in Row
      /\ row[s].type = "adjust" /\ RowOK(s)
      /\ UNCHANGED <<balance, moves, priceOf, lock>>
      /\ \A r \in Sessions : r # s => pc'[r] = pc[r] /\ row'[r] = row[r] /\ bal'[r] = bal[r]
  BY DEF TypeOK, RowInv, RowOK, ReadBalance, AddAudit, CommitAudit, Close
<1>2. pc'[s] # "idle" => row'[s].type = "adjust" /\ row'[s].task = row[s].task
                         /\ row'[s].key = row[s].key /\ pc'[s] \in {"read", "inserted"}
  BY <1>1 DEF TypeOK, Row, ReadBalance, AddAudit, CommitAudit, Close
<1>3. \A k \in Keys : lock[k] # Free => lock[k] # s /\ lock[k] \in Sessions
  BY <1>1 DEF TypeOK, LockInv
<1>4. LockInv'
  <2>1. ASSUME NEW k \in Keys, lock'[k] # Free
        PROVE  /\ pc'[lock'[k]] \in {"updated", "inserted"}
               /\ row'[lock'[k]].type # "adjust" /\ row'[lock'[k]].key = k
    BY <1>1, <1>3, <2>1 DEF LockInv
  <2>2. ASSUME NEW r \in Sessions, pc'[r] \in {"updated", "inserted"}, row'[r].type # "adjust"
        PROVE  /\ lock'[row'[r].key] = r
               /\ bal'[r] = balance'[row'[r].key] + row'[r].amount
               /\ bal'[r] \in 0..MaxCredits
    <3>1. r # s
      BY <1>2, <2>2
    <3> QED BY <1>1, <2>2, <3>1 DEF LockInv
  <2> QED BY <2>1, <2>2 DEF LockInv
<1>5. pc'[s] # "idle" => RowOK(s)'
  BY <1>1, <1>2 DEF RowOK
<1>6. ASSUME NEW r \in Sessions, r # s, pc'[r] # "idle" PROVE RowOK(r)'
  BY <1>1, <1>6, RowFrame DEF RowInv
<1> QED BY <1>4, <1>5, <1>6 DEF RowInv

----------------------------------------------------------------------------
(* The step that moves committed money.                                    *)
LEMMA CommitInv ==
    ASSUME BillingInv, NEW s \in Sessions, Commit(s)
    PROVE  /\ LockInv' /\ RowInv' /\ MovesInv'
           /\ BalanceInRange' /\ LedgerChain' /\ ChargedOnce'
<1>0. TypeOK /\ LockInv /\ RowInv /\ MovesInv /\ BalanceInRange /\ LedgerChain /\ ChargedOnce
  BY DEF BillingInv
<1>a. PICK m \in Row : m = row[s]
  BY <1>0 DEF TypeOK, Commit
<1>b. PICK k \in Keys : k = m.key
  BY DEF Row
<1>c. moves[k] \in Seq(Row) /\ m.amount \in Int /\ bal[s] \in Int /\ balance[k] \in Int
  BY <1>0 DEF TypeOK, Row
<1>d. PICK n \in Nat : n = Len(moves[k])
  BY <1>c
<1>e. PICK t : t = m.task
  OBVIOUS
<1>1. /\ pc[s] = "inserted" /\ m.type # "adjust" /\ RowOK(s)
      /\ lock[k] = s /\ bal[s] = balance[k] + m.amount /\ bal[s] \in 0..MaxCredits
  BY <1>0, <1>a, <1>b DEF Commit, RowInv, LockInv
<1>2. /\ m.type \in {"hold", "refund", "topup"} /\ m.after = bal[s]
      /\ m.type # "topup" => t \in Tasks /\ KeyOf[t] = k /\ ~Posted(m.type, t)
      /\ m.type = "topup" => t = NoTask
      /\ m.type = "hold" => m.amount = -Price[t]
      /\ m.type = "refund" => priceOf[t] # NoPrice /\ m.amount = priceOf[t]
  BY <1>1, <1>a, <1>b, <1>e DEF RowOK, Row, Types
<1>3. /\ balance' = [balance EXCEPT ![k] = bal[s]]
      /\ moves' = [moves EXCEPT ![k] = Append(moves[k], m)]
      /\ lock' = [lock EXCEPT ![k] = Free]
      /\ pc' = [pc EXCEPT ![s] = "idle"] /\ bal' = [bal EXCEPT ![s] = 0]
      /\ row' = [row EXCEPT ![s] = NoRow]
      /\ priceOf' = IF m.type = "hold" THEN [priceOf EXCEPT ![t] = -m.amount] ELSE priceOf
  BY <1>a, <1>b, <1>e DEF Commit, Close
<1>4. /\ Len(moves'[k]) = n + 1 /\ moves'[k][n + 1] = m
      /\ \A i \in 1..n : moves'[k][i] = moves[k][i]
      /\ \A j \in Keys : j # k => moves'[j] = moves[j]
  <2>1. moves'[k] = Append(moves[k], m) /\ \A j \in Keys : j # k => moves'[j] = moves[j]
    BY <1>0, <1>3 DEF TypeOK
  <2> QED BY <1>c, <1>d, <2>1
<1>5. \A r \in Sessions : r # s /\ pc[r] \in {"updated", "inserted"} /\ row[r].type # "adjust"
                            => row[r].key # k
  BY <1>0, <1>1 DEF LockInv
<1>7. m.type = "hold" => /\ priceOf[t] = NoPrice
                         /\ \A i \in 1..n : moves[k][i].task # t
  <2> SUFFICES ASSUME m.type = "hold"
               PROVE  priceOf[t] = NoPrice /\ \A i \in 1..n : moves[k][i].task # t
    OBVIOUS
  <2>1. \A i \in 1..n : ~(moves[k][i].type = "hold" /\ moves[k][i].task = t)
    BY <1>2, <1>d DEF Posted
  <2>2. priceOf[t] = NoPrice
    BY <1>0, <1>2, <1>d, <2>1 DEF MovesInv
  <2>3. ASSUME NEW i \in 1..n, moves[k][i].task = t PROVE FALSE
    <3>1. moves[k][i].type = "refund"
      BY <1>0, <1>2, <1>d, <2>1, <2>3, BillingAssumption DEF MovesInv
    <3>2. PICK j \in 1..(i - 1) : moves[k][j].type = "hold" /\ moves[k][j].task = t
      BY <1>0, <1>d, <2>3, <3>1 DEF ChargedOnce
    <3> QED BY <2>1, <3>2
  <2> QED BY <2>2, <2>3
<1>8. LockInv'
  <2>1. ASSUME NEW j \in Keys, lock'[j] # Free
        PROVE  /\ pc'[lock'[j]] \in {"updated", "inserted"}
               /\ row'[lock'[j]].type # "adjust" /\ row'[lock'[j]].key = j
    <3>1. j # k /\ lock[j] # Free /\ lock'[j] = lock[j]
      BY <1>0, <1>3, <2>1 DEF TypeOK
    <3>2. lock[j] # s
      BY <1>0, <1>a, <1>b, <3>1 DEF LockInv
    <3> QED BY <1>0, <1>3, <3>1, <3>2 DEF LockInv, TypeOK
  <2>2. ASSUME NEW r \in Sessions, pc'[r] \in {"updated", "inserted"}, row'[r].type # "adjust"
        PROVE  /\ lock'[row'[r].key] = r
               /\ bal'[r] = balance'[row'[r].key] + row'[r].amount
               /\ bal'[r] \in 0..MaxCredits
    <3>1. r # s /\ pc'[r] = pc[r] /\ row'[r] = row[r] /\ bal'[r] = bal[r]
      BY <1>0, <1>3, <2>2 DEF TypeOK
    <3>2. row[r].key # k /\ row[r].key \in Keys
      BY <1>0, <1>5, <2>2, <3>1 DEF TypeOK, Row
    <3> QED BY <1>0, <1>3, <2>2, <3>1, <3>2 DEF LockInv, TypeOK
  <2> QED BY <2>1, <2>2 DEF LockInv
<1>9. RowInv'
  <2> SUFFICES ASSUME NEW r \in Sessions, pc'[r] # "idle" PROVE RowOK(r)'
    BY DEF RowInv
  <2>1. /\ r # s /\ pc'[r] = pc[r] /\ row'[r] = row[r] /\ bal'[r] = bal[r] /\ RowOK(r)
    BY <1>0, <1>3 DEF RowInv, TypeOK
  <2>2. row[r].type = "refund" =>
           priceOf'[row[r].task] # NoPrice /\ row[r].amount = priceOf'[row[r].task]
    BY <1>0, <1>3, <1>7, <2>1 DEF RowOK, TypeOK
  <2>3. pc[r] = "inserted" /\ row[r].type \notin {"adjust", "topup"} =>
           ~Posted(row[r].type, row[r].task)'
    <3> SUFFICES ASSUME pc[r] = "inserted", row[r].type \notin {"adjust", "topup"}
                 PROVE  ~Posted(row[r].type, row[r].task)'
      OBVIOUS
    <3>1. /\ row[r].key # k /\ row[r].task \in Tasks /\ row[r].key = KeyOf[row[r].task]
          /\ ~Posted(row[r].type, row[r].task)
      BY <1>5, <2>1 DEF RowOK
    <3>2. moves'[KeyOf[row[r].task]] = moves[KeyOf[row[r].task]]
      BY <1>4, <3>1, BillingAssumption
    <3> QED BY <2>1, <3>1, <3>2 DEF Posted
  <2> QED BY <2>1, <2>2, <2>3 DEF RowOK
<1>10. BalanceInRange' /\ LedgerChain'
  <2>1. BalanceInRange'
    BY <1>0, <1>1, <1>3 DEF BalanceInRange, TypeOK
  <2>2. ASSUME NEW j \in Keys, j # k
        PROVE  /\ \A i \in 1..Len(moves'[j]) :
                     moves'[j][i].after = After(j, i - 1)' + moves'[j][i].amount
               /\ balance'[j] = After(j, Len(moves[j]))' /\ Len(moves'[j]) = Len(moves[j])
    BY <1>0, <1>3, <1>4, <2>2 DEF LedgerChain, After, TypeOK
  <2>3. \A i \in 0..n : After(k, i)' = After(k, i)
    BY <1>4 DEF After
  <2>4. ASSUME NEW i \in 1..(n + 1)
        PROVE  moves'[k][i].after = After(k, i - 1)' + moves'[k][i].amount
    <3>1. CASE i = n + 1
      <4>1. balance[k] = After(k, n)
        BY <1>0, <1>d DEF LedgerChain
      <4> QED BY <1>1, <1>2, <1>4, <2>3, <3>1, <4>1
    <3>2. CASE i \in 1..n
      <4>1. moves[k][i].after = After(k, i - 1) + moves[k][i].amount
        BY <1>0, <1>d, <3>2 DEF LedgerChain
      <4>2. After(k, i - 1)' = After(k, i - 1)
        BY <2>3, <3>2
      <4> QED BY <1>4, <3>2, <4>1, <4>2
    <3> QED BY <3>1, <3>2
  <2>5. balance'[k] = After(k, n + 1)'
    <3>1. balance'[k] = bal[s]
      BY <1>0, <1>3 DEF TypeOK
    <3>2. After(k, n + 1)' = moves'[k][n + 1].after
      BY <1>d DEF After
    <3> QED BY <1>2, <1>4, <3>1, <3>2
  <2>6. ASSUME NEW j \in Keys
        PROVE  /\ \A i \in 1..Len(moves'[j]) :
                     moves'[j][i].after = After(j, i - 1)' + moves'[j][i].amount
               /\ balance'[j] = After(j, Len(moves[j]))'
    <3>1. CASE j = k
      BY <1>4, <2>4, <2>5, <3>1
    <3>2. CASE j # k
      BY <2>2, <3>2
    <3> QED BY <3>1, <3>2
  <2> QED BY <2>1, <2>6 DEF LedgerChain
<1>11. MovesInv'
  <2>1. ASSUME NEW j \in Keys, NEW i \in 1..Len(moves'[j])
        PROVE  /\ moves'[j][i].type \in {"hold", "refund", "topup"}
               /\ moves'[j][i].type = "topup" => moves'[j][i].task = NoTask
               /\ moves'[j][i].type # "topup" =>
                     moves'[j][i].task \in Tasks /\ KeyOf[moves'[j][i].task] = j
    <3>1. CASE j = k /\ i = n + 1
      BY <1>2, <1>4, <1>e, <3>1
    <3>2. CASE ~(j = k /\ i = n + 1)
      <4>1. i \in 1..Len(moves[j]) /\ moves'[j][i] = moves[j][i]
        BY <1>4, <1>d, <3>2
      <4> QED BY <1>0, <4>1 DEF MovesInv
    <3> QED BY <3>1, <3>2
  <2>2. ASSUME NEW u \in Tasks, priceOf'[u] # NoPrice
        PROVE  /\ \E i \in 1..Len(moves'[KeyOf[u]]) :
                     /\ moves'[KeyOf[u]][i].type = "hold"
                     /\ moves'[KeyOf[u]][i].task = u
                     /\ moves'[KeyOf[u]][i].amount = -priceOf'[u]
               /\ priceOf'[u] \in Nat \ {0}
    <3>1. CASE m.type = "hold" /\ u = t
      <4>1. KeyOf[u] = k /\ priceOf'[u] = Price[u] /\ m.amount = -Price[u] /\ m.task = u
        <5>1. KeyOf[u] = k /\ m.amount = -Price[u] /\ m.task = u
          BY <1>2, <1>e, <3>1
        <5>2. priceOf'[u] = -m.amount
          BY <1>0, <1>3, <3>1 DEF TypeOK
        <5>3. Price[u] \in Nat
          BY BillingAssumption
        <5> QED BY <5>1, <5>2, <5>3
      <4>2. Price[u] \in Nat \ {0}
        BY BillingAssumption
      <4>3. n + 1 \in 1..Len(moves'[KeyOf[u]])
        BY <1>4, <4>1
      <4> QED BY <1>4, <3>1, <4>1, <4>2, <4>3
    <3>2. CASE ~(m.type = "hold" /\ u = t)
      <4>1. priceOf'[u] = priceOf[u]
        BY <1>0, <1>3, <3>2 DEF TypeOK
      <4>2. PICK i \in 1..Len(moves[KeyOf[u]]) :
               /\ moves[KeyOf[u]][i].type = "hold" /\ moves[KeyOf[u]][i].task = u
               /\ moves[KeyOf[u]][i].amount = -priceOf[u]
        BY <1>0, <2>2, <4>1 DEF MovesInv
      <4>3. /\ i \in 1..Len(moves'[KeyOf[u]])
            /\ moves'[KeyOf[u]][i] = moves[KeyOf[u]][i]
        <5>1. CASE KeyOf[u] = k
          BY <1>4, <1>d, <4>2, <5>1
        <5>2. CASE KeyOf[u] # k
          BY <1>4, <4>2, <5>2, BillingAssumption
        <5> QED BY <5>1, <5>2
      <4>4. priceOf'[u] \in Nat \ {0}
        BY <1>0, <2>2, <4>1 DEF MovesInv
      <4> QED BY <4>1, <4>2, <4>3, <4>4
    <3> QED BY <3>1, <3>2
  <2> QED BY <2>1, <2>2 DEF MovesInv
<1>12. ChargedOnce'
  <2> SUFFICES ASSUME NEW j \in Keys, NEW i \in 1..Len(moves'[j])
               PROVE  LET r == moves'[j][i] IN
        /\ r.type = "hold" =>
               /\ priceOf'[r.task] = -r.amount
               /\ \A h \in 1..(i - 1) : moves'[j][h].task # r.task
        /\ r.type = "refund" =>
               /\ \E h \in 1..(i - 1) : /\ moves'[j][h].type = "hold"
                                       /\ moves'[j][h].task = r.task
                                       /\ moves'[j][h].amount = -r.amount
               /\ \A h \in 1..(i - 1) : moves'[j][h].type = "refund" => moves'[j][h].task # r.task
    BY DEF ChargedOnce
  <2>1. CASE j = k /\ i = n + 1
    <3>1. \A h \in 1..(i - 1) : moves'[j][h] = moves[k][h] /\ h \in 1..n
      BY <1>4, <2>1
    <3>2. CASE m.type = "hold"
      <4>1. priceOf'[t] = -m.amount
        BY <1>0, <1>2, <1>3, <3>2 DEF TypeOK
      <4> QED BY <1>4, <1>7, <1>e, <2>1, <3>1, <3>2, <4>1
    <3>3. CASE m.type = "refund"
      <4>1. PICK h \in 1..n : /\ moves[k][h].type = "hold" /\ moves[k][h].task = t
                              /\ moves[k][h].amount = -priceOf[t]
        BY <1>0, <1>2, <1>d, <3>3 DEF MovesInv
      <4>2. \A g \in 1..n : moves[k][g].type = "refund" => moves[k][g].task # t
        BY <1>2, <1>d, <3>3 DEF Posted
      <4>3. moves'[j][i] = m /\ h \in 1..(i - 1)
        BY <1>4, <2>1
      <4>4. /\ moves'[j][h].type = "hold" /\ moves'[j][h].task = m.task
            /\ moves'[j][h].amount = -m.amount
        BY <1>2, <1>4, <1>e, <2>1, <3>3, <4>1
      <4>5. \A g \in 1..(i - 1) : moves'[j][g].type = "refund" => moves'[j][g].task # m.task
        BY <1>e, <2>1, <3>1, <4>2
      <4> QED BY <3>3, <4>3, <4>4, <4>5
    <3> QED BY <1>2, <1>4, <2>1, <3>2, <3>3
  <2>2. CASE ~(j = k /\ i = n + 1)
    <3>1. /\ i \in 1..Len(moves[j]) /\ moves'[j][i] = moves[j][i]
          /\ \A h \in 1..(i - 1) : moves'[j][h] = moves[j][h]
      <4>1. CASE j = k
        BY <1>4, <1>d, <2>2, <4>1
      <4>2. CASE j # k
        BY <1>4, <4>2
      <4> QED BY <4>1, <4>2
    <3>2. moves[j][i].type = "hold" => priceOf'[moves[j][i].task] = priceOf[moves[j][i].task]
      <4> SUFFICES ASSUME moves[j][i].type = "hold", m.type = "hold", moves[j][i].task = t
                   PROVE  FALSE
        BY <1>0, <1>3 DEF TypeOK
      <4>1. j = k
        BY <1>0, <1>2, <3>1 DEF MovesInv
      <4> QED BY <1>7, <1>d, <3>1, <4>1
    <3>3. CASE moves[j][i].type = "hold"
      BY <1>0, <3>1, <3>2, <3>3 DEF ChargedOnce
    <3>4. CASE moves[j][i].type = "refund"
      <4>1. PICK h \in 1..(i - 1) : /\ moves[j][h].type = "hold"
                                    /\ moves[j][h].task = moves[j][i].task
                                    /\ moves[j][h].amount = -moves[j][i].amount
        BY <1>0, <3>1, <3>4 DEF ChargedOnce
      <4>2. \A g \in 1..(i - 1) : moves[j][g].type = "refund"
                                     => moves[j][g].task # moves[j][i].task
        BY <1>0, <3>1, <3>4 DEF ChargedOnce
      <4> QED BY <3>1, <3>4, <4>1, <4>2
    <3> QED BY <3>1, <3>3, <3>4
  <2> QED BY <2>1, <2>2
<1> QED BY <1>8, <1>9, <1>10, <1>11, <1>12

----------------------------------------------------------------------------
(* Every step keeps the inductive invariant.                               *)
LEMMA NextInv == ASSUME BillingInv, [Next]_vars PROVE BillingInv'
<1>0. TypeOK'
  BY TypeNext DEF BillingInv
<1>1. ASSUME NEW s \in Sessions, Begin(s) PROVE BillingInv'
  <2>1. CASE \E t \in Tasks : TryDebit(s, t)
    <3>1. LockInv' /\ RowInv'
      BY <2>1, DebitInv
    <3>2. UNCHANGED <<balance, moves, priceOf>>
      BY <2>1 DEF TryDebit, UpdateBalance
    <3> QED BY <1>0, <3>1, <3>2, Quiet DEF BillingInv
  <2>2. CASE \E t \in Tasks : CheckRefund(s, t) \/ CheckAudit(s, t)
    <3>1. LockInv' /\ RowInv'
      BY <2>2, CheckInv
    <3>2. UNCHANGED <<balance, moves, priceOf>>
      BY <2>2 DEF CheckRefund, CheckAudit
    <3> QED BY <1>0, <3>1, <3>2, Quiet DEF BillingInv
  <2>3. CASE \E k \in Keys, a \in TopupAmounts : Topup(s, k, a)
    <3>1. LockInv' /\ RowInv'
      BY <2>3, TopupInv
    <3>2. UNCHANGED <<balance, moves, priceOf>>
      BY <2>3 DEF Topup, UpdateBalance
    <3> QED BY <1>0, <3>1, <3>2, Quiet DEF BillingInv
  <2> QED BY <1>1, <2>1, <2>2, <2>3 DEF Begin
<1>2. ASSUME NEW s \in Sessions, Rollback(s) PROVE BillingInv'
  <2>1. LockInv' /\ RowInv'
    BY <1>2, RollbackInv
  <2>2. UNCHANGED <<balance, moves, priceOf>>
    BY <1>2 DEF Rollback
  <2> QED BY <1>0, <2>1, <2>2, Quiet DEF BillingInv
<1>3. ASSUME NEW s \in Sessions, Credit(s) PROVE BillingInv'
  <2>1. LockInv' /\ RowInv'
    BY <1>3, CreditInv
  <2>2. UNCHANGED <<balance, moves, priceOf>>
    BY <1>3 DEF Credit, UpdateBalance
  <2> QED BY <1>0, <2>1, <2>2, Quiet DEF BillingInv
<1>4. ASSUME NEW s \in Sessions, AddLedger(s) PROVE BillingInv'
  <2>1. LockInv' /\ RowInv'
    BY <1>4, AddLedgerInv
  <2>2. UNCHANGED <<balance, moves, priceOf>>
    BY <1>4 DEF AddLedger
  <2> QED BY <1>0, <2>1, <2>2, Quiet DEF BillingInv
<1>5. ASSUME NEW s \in Sessions, ReadBalance(s) \/ AddAudit(s) \/ CommitAudit(s)
      PROVE  BillingInv'
  <2>1. LockInv' /\ RowInv'
    BY <1>5, AuditInv
  <2>2. UNCHANGED <<balance, moves, priceOf>>
    BY <1>5 DEF ReadBalance, AddAudit, CommitAudit
  <2> QED BY <1>0, <2>1, <2>2, Quiet DEF BillingInv
<1>6. ASSUME NEW s \in Sessions, Commit(s) PROVE BillingInv'
  BY <1>0, <1>6, CommitInv DEF BillingInv
<1>7. CASE UNCHANGED vars
  <2>1. LockInv' /\ RowInv'
    BY <1>7 DEF vars, BillingInv, LockInv, RowInv, RowOK, Posted
  <2>2. UNCHANGED <<balance, moves, priceOf>>
    BY <1>7 DEF vars
  <2> QED BY <1>0, <2>1, <2>2, Quiet DEF BillingInv
<1> QED
  BY <1>1, <1>2, <1>3, <1>4, <1>5, <1>6, <1>7
     DEF Next, Statement, Crash, CreditOverflow, AlreadyRecorded, AuditRecorded

(* The strengthening that makes the properties below inductive holds in    *)
(* every reachable state.                                                  *)
THEOREM BillingInvHolds == Spec => []BillingInv
BY InitInv, NextInv, PTL DEF Spec

(* No partner owes credits and no balance leaves the column's range.       *)
THEOREM BalanceStaysInRange == Spec => []BalanceInRange
BY BillingInvHolds, PTL DEF BillingInv

(* The movements of each key account for its balance to the credit.        *)
THEOREM LedgerAccounts == Spec => []LedgerChain
BY BillingInvHolds, PTL DEF BillingInv

(* A task is charged at most once and given back at most once, in full.    *)
THEOREM ChargeIsOnce == Spec => []ChargedOnce
BY BillingInvHolds, PTL DEF BillingInv

----------------------------------------------------------------------------
(* Movements are only added.                                               *)
LEMMA MovesStay ==
    ASSUME BillingInv, [Next]_vars, NEW k \in Keys
    PROVE  /\ Len(moves[k]) \in Nat /\ Len(moves'[k]) \in Nat /\ Len(moves[k]) <= Len(moves'[k])
           /\ \A i \in 1..Len(moves[k]) : moves'[k][i] = moves[k][i]
<1>1. moves \in [Keys -> Seq(Row)] /\ row \in [Sessions -> Row \cup {NoRow}]
  BY DEF BillingInv, TypeOK
<1>2. CASE UNCHANGED moves
  BY <1>1, <1>2
<1>3. ASSUME NEW s \in Sessions, Commit(s)
      PROVE  /\ Len(moves'[k]) \in Nat /\ Len(moves[k]) <= Len(moves'[k])
             /\ \A i \in 1..Len(moves[k]) : moves'[k][i] = moves[k][i]
  <2>1. pc[s] # "idle" /\ row[s] \in Row
    BY <1>3 DEF Commit, BillingInv, TypeOK
  <2>2. moves' = [moves EXCEPT ![row[s].key] = Append(@, row[s])]
    BY <1>3 DEF Commit
  <2>3. CASE k # row[s].key
    BY <2>2, <2>3, <1>1
  <2>4. CASE k = row[s].key
    <3>1. moves[k] \in Seq(Row) /\ moves'[k] = Append(moves[k], row[s])
      BY <1>1, <2>2, <2>4
    <3> QED BY <2>1, <3>1
  <2> QED BY <2>3, <2>4
<1>4. UNCHANGED moves \/ \E s \in Sessions : Commit(s)
  BY DEF Next, vars, Begin, Statement, TryDebit, CheckRefund, CheckAudit, Topup, Credit,
         CreditOverflow, AddLedger, AlreadyRecorded, ReadBalance, AddAudit, AuditRecorded,
         CommitAudit, Crash, Rollback, UpdateBalance
<1> QED BY <1>1, <1>2, <1>3, <1>4

----------------------------------------------------------------------------
(* What a session's row says was decided when its operation began.         *)
LEMMA RowsStay ==
  ASSUME TypeOK, [Next]_vars, NEW r \in Sessions, pc'[r] # "idle"
  PROVE  \/ /\ pc[r] # "idle"
            /\ \A f \in {"type", "task", "amount"} : row'[r][f] = row[r][f]
         \/ \E t \in Tasks : TryDebit(r, t) \/ CheckRefund(r, t) \/ CheckAudit(r, t)
         \/ \E k \in Keys, a \in TopupAmounts : Topup(r, k, a)
<1> DEFINE Same == pc[r] # "idle" /\ \A f \in {"type", "task", "amount"} : row'[r][f] = row[r][f]
<1>0. /\ pc \in [Sessions -> {"idle", "checked", "read", "updated", "inserted"}]
      /\ row \in [Sessions -> Row \cup {NoRow}]
      /\ pc[r] # "idle" => row[r] \in Row
  BY DEF TypeOK
<1>1. ASSUME pc'[r] = pc[r], row'[r] = row[r] PROVE Same
  BY <1>1
<1>2. ASSUME NEW s \in Sessions, Close(s) PROVE Same
  <2>1. r # s /\ pc'[r] = pc[r] /\ row'[r] = row[r]
    BY <1>0, <1>2 DEF Close
  <2> QED BY <2>1, <1>1
<1>3. ASSUME NEW s \in Sessions, s # r, Begin(s) PROVE Same
  BY <1>0, <1>1, <1>3 DEF Begin, TryDebit, CheckRefund, CheckAudit, Topup, UpdateBalance
<1>4. ASSUME NEW s \in Sessions, Credit(s) \/ AddAudit(s) PROVE Same
  <2>1. row' = row /\ pc[s] # "idle" /\ \A q \in Sessions \ {s} : pc'[q] = pc[q]
    BY <1>0, <1>4 DEF Credit, AddAudit, UpdateBalance
  <2> QED BY <2>1
<1>5. ASSUME NEW s \in Sessions, NEW x, pc[s] # "idle",
             row' = [row EXCEPT ![s] = [row[s] EXCEPT !.after = x]],
             \A q \in Sessions \ {s} : pc'[q] = pc[q]
      PROVE  Same
  <2>1. CASE s = r
    <3>1. row'[r] = [row[r] EXCEPT !.after = x] /\ row[r] \in Row /\ pc[r] # "idle"
      BY <1>0, <1>5, <2>1
    <3> QED BY <3>1 DEF Row
  <2>2. CASE s # r
    BY <1>0, <1>1, <1>5, <2>2
  <2> QED BY <2>1, <2>2
<1>6. ASSUME NEW s \in Sessions, AddLedger(s) PROVE Same
  BY <1>0, <1>5, <1>6 DEF AddLedger
<1>7. ASSUME NEW s \in Sessions, ReadBalance(s) PROVE Same
  BY <1>0, <1>5, <1>7 DEF ReadBalance
<1>8. ASSUME UNCHANGED vars PROVE Same
  BY <1>1, <1>8 DEF vars
<1>9. ASSUME NEW s \in Sessions, Statement(s) \/ Crash(s) PROVE Same
  BY <1>2, <1>4, <1>6, <1>7, <1>9 DEF Statement, Crash, Rollback, CreditOverflow, AlreadyRecorded,
     Commit, AuditRecorded, CommitAudit
<1>10. CASE Begin(r)
  BY <1>10 DEF Begin
<1> HIDE DEF Same
<1>11. Same \/ Begin(r)
  BY <1>3, <1>8, <1>9 DEF Next
<1> QED BY <1>10, <1>11 DEF Same

(* What the implementation of the ledger needs beside: the price that is   *)
(* kept is the task's, topups are of amounts that may be added, and only a *)
(* charge that was made is audited.                                        *)
PricesInv == \A t \in Tasks : priceOf[t] # NoPrice => priceOf[t] = Price[t]
EntriesInv ==
    \A s \in Sessions : pc[s] # "idle" =>
       /\ row[s].type = "topup" => row[s].amount \in TopupAmounts
       /\ row[s].type = "adjust" => priceOf[row[s].task] # NoPrice

LEMMA PricesNext ==
  ASSUME BillingInv, PricesInv, EntriesInv, [Next]_vars
  PROVE  PricesInv' /\ EntriesInv'
<1> USE BillingAssumption
<1>0. TypeOK /\ RowInv
  BY DEF BillingInv
<1>1. ASSUME NEW t \in Tasks PROVE priceOf'[t] \in {priceOf[t], Price[t]}
  <2>1. ASSUME NEW s \in Sessions, Commit(s) PROVE priceOf'[t] \in {priceOf[t], Price[t]}
    <3>1. RowOK(s) /\ row[s] \in Row
      BY <1>0, <2>1 DEF Commit, RowInv, TypeOK
    <3>2. CASE row[s].type = "hold"
      <4>1. PICK u \in Tasks : u = row[s].task
        BY <3>1, <3>2 DEF RowOK
      <4>2. priceOf' = [priceOf EXCEPT ![u] = -row[s].amount] /\ row[s].amount = -Price[u]
        BY <2>1, <3>1, <3>2, <4>1 DEF Commit, RowOK
      <4>3. -(-Price[u]) = Price[u]
        OBVIOUS
      <4> QED BY <1>0, <4>2, <4>3 DEF TypeOK
    <3>3. CASE row[s].type # "hold"
      BY <2>1, <3>3 DEF Commit
    <3> QED BY <3>2, <3>3
  <2>2. UNCHANGED priceOf \/ \E s \in Sessions : Commit(s)
    BY DEF Next, vars, Begin, Statement, TryDebit, CheckRefund, CheckAudit, Topup, Credit,
           CreditOverflow, AddLedger, AlreadyRecorded, ReadBalance, AddAudit, AuditRecorded,
           CommitAudit, Crash, Rollback, UpdateBalance
  <2> QED BY <2>1, <2>2
<1>2. PricesInv'
  BY <1>1 DEF PricesInv
<1>3. \A t \in Tasks : priceOf[t] # NoPrice => priceOf'[t] # NoPrice
  BY <1>1
<1>4. ASSUME NEW r \in Sessions, pc'[r] # "idle"
      PROVE  /\ row'[r].type = "topup" => row'[r].amount \in TopupAmounts
             /\ row'[r].type = "adjust" => priceOf'[row'[r].task] # NoPrice
  <2>1. CASE pc[r] # "idle" /\ \A f \in {"type", "task", "amount"} : row'[r][f] = row[r][f]
    <3>1. /\ row'[r].type = row[r].type /\ row'[r].task = row[r].task
          /\ row'[r].amount = row[r].amount /\ pc[r] # "idle"
      BY <2>1
    <3>2. row[r].type = "adjust" => row[r].task \in Tasks
      BY <1>0, <3>1 DEF RowInv, RowOK
    <3> QED BY <1>3, <3>1, <3>2 DEF EntriesInv
  <2>2. ASSUME NEW t \in Tasks, TryDebit(r, t) \/ CheckRefund(r, t) \/ CheckAudit(r, t)
        PROVE  /\ row'[r].type = "topup" => row'[r].amount \in TopupAmounts
               /\ row'[r].type = "adjust" => priceOf'[row'[r].task] # NoPrice
    BY <1>0, <1>3, <2>2 DEF TypeOK, TryDebit, CheckRefund, CheckAudit, Entry
  <2>3. ASSUME NEW k \in Keys, NEW a \in TopupAmounts, Topup(r, k, a)
        PROVE  /\ row'[r].type = "topup" => row'[r].amount \in TopupAmounts
               /\ row'[r].type = "adjust" => priceOf'[row'[r].task] # NoPrice
    BY <1>0, <2>3 DEF TypeOK, Topup, Entry
  <2> QED BY <1>0, <1>4, <2>1, <2>2, <2>3, RowsStay
<1>5. EntriesInv'
  BY <1>4 DEF EntriesInv
<1> QED BY <1>2, <1>5

(* What a session has read for an audit row is a balance the key had after *)
(* the task was charged.                                                   *)
AuditRead ==
    \A s \in Sessions : pc[s] \in {"read", "inserted"} /\ row[s].type = "adjust" =>
        HadSince(row[s].task, row[s].after)

LEMMA HadStays ==
    ASSUME BillingInv, [Next]_vars, NEW t \in Tasks, NEW b, HadSince(t, b)
    PROVE  HadSince(t, b)'
<1>1. PICK k \in Keys : k = KeyOf[t]
  BY BillingAssumption
<1>2. /\ Len(moves[k]) \in Nat /\ Len(moves'[k]) \in Nat /\ Len(moves[k]) <= Len(moves'[k])
      /\ \A j \in 1..Len(moves[k]) : moves'[k][j] = moves[k][j]
  BY MovesStay
<1>3. PICK i \in 1..Len(moves[k]) :
         b = After(k, i) /\ \E j \in 1..i : moves[k][j].type = "hold" /\ moves[k][j].task = t
  BY <1>1 DEF HadSince
<1>4. i \in 1..Len(moves'[k]) /\ b = After(k, i)'
  BY <1>2, <1>3 DEF After
<1>5. \E j \in 1..i : moves'[k][j].type = "hold" /\ moves'[k][j].task = t
  BY <1>2, <1>3
<1> QED BY <1>1, <1>4, <1>5 DEF HadSince, After

LEMMA AuditNext ==
    ASSUME BillingInv, EntriesInv, AuditRead, AuditAfterCharge, [Next]_vars
    PROVE  AuditRead' /\ AuditAfterCharge'
<1> USE BillingAssumption
<1>0. /\ TypeOK /\ RowInv /\ LedgerChain
      /\ \A s \in Sessions : pc[s] # "idle" => row[s] \in Row
  BY DEF BillingInv, TypeOK
(* A session whose row stays, or which has just read the balance.          *)
<1>1. ASSUME NEW s \in Sessions, pc'[s] \in {"read", "inserted"}, row'[s].type = "adjust"
      PROVE  \/ /\ pc[s] \in {"read", "inserted"} /\ row[s].type = "adjust"
                /\ row'[s].task = row[s].task /\ row'[s].after = row[s].after
             \/ ReadBalance(s)
  <2>1. CASE UNCHANGED vars
    BY <1>1, <2>1 DEF vars
  <2>0. /\ pc \in [Sessions -> {"idle", "checked", "read", "updated", "inserted"}]
        /\ row \in [Sessions -> Row \cup {NoRow}]
    BY <1>0 DEF TypeOK
  <2>2. ASSUME NEW r \in Sessions, r # s, Begin(r) \/ Statement(r) \/ Crash(r)
        PROVE  pc'[s] = pc[s] /\ row'[s] = row[s]
    <3>1. CASE Begin(r)
      BY <2>0, <2>2, <3>1 DEF Begin, TryDebit, CheckRefund, CheckAudit, Topup, UpdateBalance
    <3>2. CASE Close(r)
      BY <2>0, <2>2, <3>2 DEF Close
    <3>3. CASE Credit(r) \/ ReadBalance(r) \/ AddAudit(r)
      BY <2>0, <2>2, <3>3 DEF Credit, UpdateBalance, ReadBalance, AddAudit
    <3>4. CASE AddLedger(r)
      BY <2>0, <2>2, <3>4 DEF AddLedger
    <3> QED
      BY <2>2, <3>1, <3>2, <3>3, <3>4 DEF Statement, CreditOverflow, AlreadyRecorded, Commit,
         AuditRecorded, CommitAudit, Crash, Rollback
  <2>3. CASE Begin(s)
    BY <1>0, <1>1, <2>3 DEF TypeOK, Begin, TryDebit, CheckRefund, CheckAudit, Topup, UpdateBalance
  <2>4. CASE Credit(s) \/ CreditOverflow(s) \/ AlreadyRecorded(s) \/ Commit(s) \/ AuditRecorded(s)
             \/ CommitAudit(s) \/ Crash(s)
    <3>1. CASE Credit(s)
      BY <2>0, <1>1, <3>1 DEF Credit, UpdateBalance
    <3>2. CASE Close(s)
      BY <2>0, <1>1, <3>2 DEF Close
    <3> QED
      BY <2>4, <3>1, <3>2 DEF CreditOverflow, AlreadyRecorded, Commit, AuditRecorded,
         CommitAudit, Crash, Rollback
  <2>5. CASE AddLedger(s)
    <3>1. pc[s] = "updated" /\ row' = [row EXCEPT ![s] = [row[s] EXCEPT !.after = bal[s]]]
      BY <2>5 DEF AddLedger
    <3>2. row[s] \in Row /\ row[s].type # "adjust"
      BY <1>0, <3>1 DEF RowInv, RowOK
    <3>3. row'[s].type = row[s].type
      BY <2>0, <3>1, <3>2 DEF Row
    <3> QED  BY <1>1, <3>2, <3>3
  <2>6. CASE AddAudit(s)
    BY <1>0, <1>1, <2>6 DEF AddAudit, TypeOK
  <2> QED  BY <2>1, <2>2, <2>3, <2>4, <2>5, <2>6, <1>1 DEF Next, Statement
<1>2. AuditRead'
  <2> SUFFICES ASSUME NEW s \in Sessions, pc'[s] \in {"read", "inserted"},
                      row'[s].type = "adjust"
               PROVE  HadSince(row[s].task, row[s].after)'
    BY DEF AuditRead
  <2>1. CASE /\ pc[s] \in {"read", "inserted"} /\ row[s].type = "adjust"
             /\ row'[s].task = row[s].task /\ row'[s].after = row[s].after
    <3>1. PICK t \in Tasks, b \in {row[s].after} : t = row[s].task
      BY <1>0, <2>1 DEF RowInv, RowOK
    <3>2. HadSince(t, b)'
      BY <2>1, <3>1, HadStays DEF AuditRead
    <3> QED BY <2>1, <3>1, <3>2 DEF HadSince, After
  <2>2. CASE ReadBalance(s)
    <3>1. /\ pc[s] = "checked" /\ row[s].type = "adjust" /\ moves' = moves
          /\ row' = [row EXCEPT ![s] = [row[s] EXCEPT !.after = balance[row[s].key]]]
      BY <2>2 DEF ReadBalance
    <3>2. row[s] \in Row /\ row'[s] = [row[s] EXCEPT !.after = balance[row[s].key]]
      BY <1>0, <3>1 DEF TypeOK
    <3>3. PICK t \in Tasks, k \in Keys :
             t = row[s].task /\ k = KeyOf[t] /\ k = row[s].key /\ priceOf[t] # NoPrice
      BY <1>0, <3>1 DEF RowInv, RowOK, EntriesInv
    <3>4. row'[s].task = t /\ row'[s].after = balance[k]
      BY <3>2, <3>3 DEF Row
    <3>5. PICK n : n = Len(moves[k])
      OBVIOUS
    <3>6. n \in Nat /\ balance[k] = After(k, n)
      BY <1>0, <3>5 DEF LedgerChain, TypeOK
    <3>7. \E j \in 1..n : moves[k][j].type = "hold" /\ moves[k][j].task = t
      <4>1. MovesInv
        BY <1>0 DEF BillingInv
      <4>2. \E j \in 1..Len(moves[KeyOf[t]]) :
               moves[KeyOf[t]][j].type = "hold" /\ moves[KeyOf[t]][j].task = t
        <5>1. priceOf[t] # NoPrice
          BY <3>3
        <5> QED BY <4>1, <5>1 DEF MovesInv
      <4> QED BY <3>3, <3>5, <4>2
    <3>8. n \in 1..Len(moves[k])
      BY <3>5, <3>6, <3>7
    <3>9. HadSince(t, balance[k])
      BY <3>3, <3>6, <3>7, <3>8 DEF HadSince
    <3>10. PICK b : b = balance[k]
      OBVIOUS
    <3>11. HadSince(t, b)'
      BY <3>1, <3>9, <3>10 DEF HadSince, After
    <3> QED BY <3>4, <3>10, <3>11 DEF HadSince, After
  <2> QED BY <1>1, <2>1, <2>2
<1>3. AuditAfterCharge'
  <2> SUFFICES ASSUME NEW t \in Tasks, audit'[t] # NoPrice
               PROVE  HadSince(t, audit[t])'
    BY DEF AuditAfterCharge
  <2>1. \/ audit'[t] = audit[t]
        \/ \E s \in Sessions : /\ pc[s] = "inserted" /\ row[s].type = "adjust"
                               /\ row[s].task = t /\ audit'[t] = row[s].after
    BY <1>0, SMTT(30) DEF TypeOK, Next, vars, Begin, Statement, TryDebit, CheckRefund, CheckAudit,
       Topup, Credit, CreditOverflow, AddLedger, AlreadyRecorded, Commit, ReadBalance, AddAudit,
       AuditRecorded, CommitAudit, Crash, Rollback, UpdateBalance
  <2>2. PICK b : b = audit'[t]
    OBVIOUS
  <2>3. HadSince(t, b)
    BY <2>1, <2>2 DEF AuditAfterCharge, AuditRead
  <2>4. HadSince(t, b)'
    BY <2>3, HadStays
  <2> QED BY <2>2, <2>4 DEF HadSince, After
<1> QED BY <1>2, <1>3

(* An audit row records a charge that was made, and a balance the key had  *)
(* after it.                                                               *)
THEOREM AuditsCharges == Spec => []AuditAfterCharge
<1>1. Init => AuditRead /\ AuditAfterCharge /\ PricesInv /\ EntriesInv
  BY DEF Init, AuditRead, AuditAfterCharge, PricesInv, EntriesInv
<1>2. /\ BillingInv /\ PricesInv /\ EntriesInv /\ [Next]_vars => PricesInv' /\ EntriesInv'
      /\ BillingInv /\ EntriesInv /\ AuditRead /\ AuditAfterCharge /\ [Next]_vars
            => AuditRead' /\ AuditAfterCharge'
  BY AuditNext, PricesNext
<1> QED BY <1>1, <1>2, BillingInvHolds, PTL DEF Spec

----------------------------------------------------------------------------
(* Begun operations, and the start, move no credits and record nothing.    *)
LEMMA LedgerStarts == Init => L!Init
<1> SUFFICES ASSUME Init PROVE L!Init
  OBVIOUS
<1>1. \A t \in Tasks : KeyOf[t] \in Keys /\ moves[KeyOf[t]] = <<>>
  BY BillingAssumption DEF Init
<1>2. Phase = [t \in Tasks |-> "none"]
  BY <1>1 DEF Phase, Posted
<1> QED BY <1>2 DEF Init, L!Init

(* A commit is the operation of the ledger that its row names.             *)
LEMMA CommitIsAtomic ==
  ASSUME BillingInv, PricesInv, EntriesInv, NEW s \in Sessions, Commit(s)
  PROVE  \/ \E t \in Tasks : L!Hold(t) \/ L!Refund(t)
         \/ \E k \in Keys, a \in TopupAmounts : L!Topup(k, a)
<1> USE BillingAssumption
<1> DEFINE m == row[s]
           k == m.key
           n == Len(moves[k])
           t == m.task
<1>0. TypeOK /\ LockInv /\ RowInv /\ MovesInv /\ BalanceInRange /\ ChargedOnce
  BY DEF BillingInv
<1>a. pc[s] = "inserted" /\ m \in Row /\ m.type # "adjust"
  BY <1>0 DEF Commit, TypeOK
<1>b. /\ k \in Keys /\ m.amount \in Int /\ moves[k] \in Seq(Row) /\ balance[k] \in Int
      /\ balance \in [Keys -> Int] /\ moves \in [Keys -> Seq(Row)]
  BY <1>0, <1>a DEF TypeOK, Row
<1>c. bal[s] \in Nat
  BY <1>0, <1>a DEF LockInv
<1>1. /\ pc[s] = "inserted" /\ m \in Row /\ m.type # "adjust" /\ k \in Keys /\ m.amount \in Int
      /\ moves[k] \in Seq(Row) /\ n \in Nat /\ bal[s] \in Int /\ balance[k] \in Int
      /\ balance \in [Keys -> Int] /\ moves \in [Keys -> Seq(Row)] /\ bal[s] \in Nat
  BY <1>a, <1>b, <1>c
<1>2. RowOK(s)
  BY <1>0, <1>1 DEF RowInv
<1>3. /\ balance' = [balance EXCEPT ![k] = bal[s]] /\ bal[s] = balance[k] + m.amount
      /\ moves' = [moves EXCEPT ![k] = Append(moves[k], m)] /\ audit' = audit
  BY <1>0, <1>1 DEF Commit, LockInv
<1>4. /\ Len(moves'[k]) = n + 1 /\ moves'[k][n + 1] = m
      /\ \A i \in 1..n : moves'[k][i] = moves[k][i]
      /\ \A j \in Keys \ {k} : moves'[j] = moves[j]
  BY <1>1, <1>3
<1> HIDE DEF m, k, n, t
<1>5. ASSUME NEW type \in {"hold", "refund"}, NEW u \in Tasks
      PROVE  Posted(type, u)' <=> (Posted(type, u) \/ (m.type = type /\ t = u))
  <2>1. CASE KeyOf[u] = k
    <3>1. Posted(type, u) <=> \E i \in 1..n : moves[k][i].type = type /\ moves[k][i].task = u
      BY <2>1 DEF Posted, n
    <3>2. Posted(type, u)' <=>
            \E i \in 1..(n + 1) : moves'[k][i].type = type /\ moves'[k][i].task = u
      BY <1>4, <2>1 DEF Posted
    <3>3. 1..(n + 1) = (1..n) \cup {n + 1}
      BY <1>1
    <3> QED BY <1>4, <3>1, <3>2, <3>3 DEF t
  <2>2. CASE KeyOf[u] # k
    <3>1. ~(m.type = type /\ t = u)
      BY <1>2, <2>2 DEF RowOK, m, k, t
    <3>2. moves'[KeyOf[u]] = moves[KeyOf[u]]
      BY <1>4, <2>2
    <3> QED BY <3>1, <3>2 DEF Posted
  <2> QED BY <2>1, <2>2
<1>6. ASSUME NEW u \in Tasks, Posted("refund", u) PROVE Posted("hold", u)
  <2>1. KeyOf[u] \in Keys /\ moves[KeyOf[u]] \in Seq(Row)
    BY <1>1
  <2>2. PICK i \in 1..Len(moves[KeyOf[u]]) :
           moves[KeyOf[u]][i].type = "refund" /\ moves[KeyOf[u]][i].task = u
    BY <1>6 DEF Posted
  <2>3. PICK j \in 1..(i - 1) : moves[KeyOf[u]][j].type = "hold" /\ moves[KeyOf[u]][j].task = u
    BY <1>0, <2>1, <2>2 DEF ChargedOnce
  <2>4. j \in 1..Len(moves[KeyOf[u]])
    BY <2>1, <2>2, <2>3
  <2> QED BY <2>3, <2>4 DEF Posted
<1>8. CASE m.type = "hold"
  <2>1. /\ t \in Tasks /\ KeyOf[t] = k /\ m.amount = -Price[t] /\ ~Posted("hold", t)
        /\ Price[t] \in Nat
    BY <1>1, <1>2, <1>8 DEF RowOK, m, k, t
  <2>2. Phase[t] = "none" /\ balance[k] >= Price[t] /\ bal[s] = balance[k] - Price[t]
    BY <1>1, <1>3, <1>6, <2>1 DEF Phase
  <2>3. Phase' = [Phase EXCEPT ![t] = "held"]
    <3>1. ASSUME NEW u \in Tasks
          PROVE  Phase'[u] = IF u = t THEN "held" ELSE Phase[u]
      BY <1>5, <1>6, <1>8, <2>1 DEF Phase
    <3> QED BY <2>1, <3>1 DEF Phase
  <2>4. L!Hold(t)
    BY <1>3, <2>1, <2>2, <2>3 DEF L!Hold
  <2> QED BY <2>1, <2>4
<1>9. CASE m.type = "refund"
  <2>1. /\ t \in Tasks /\ KeyOf[t] = k /\ m.amount = Price[t] /\ ~Posted("refund", t)
        /\ priceOf[t] # NoPrice
    BY <1>1, <1>2, <1>9 DEF RowOK, PricesInv, m, k, t
  <2>2. Posted("hold", t)
    BY <1>0, <2>1 DEF MovesInv, Posted
  <2>3. Phase[t] = "held" /\ bal[s] = balance[k] + Price[t]
    BY <1>3, <2>1, <2>2 DEF Phase
  <2>4. Phase' = [Phase EXCEPT ![t] = "refunded"]
    <3>1. ASSUME NEW u \in Tasks
          PROVE  Phase'[u] = IF u = t THEN "refunded" ELSE Phase[u]
      BY <1>5, <1>9, <2>1 DEF Phase
    <3> QED BY <2>1, <3>1 DEF Phase
  <2>5. L!Refund(t)
    BY <1>3, <2>1, <2>3, <2>4 DEF L!Refund
  <2> QED BY <2>1, <2>5
<1>10. CASE m.type = "topup"
  <2>1. m.amount \in TopupAmounts
    BY <1>1, <1>10 DEF EntriesInv, m
  <2>2. Phase' = Phase
    BY <1>5, <1>10 DEF Phase
  <2>3. L!Topup(k, m.amount)
    BY <1>1, <1>3, <2>2 DEF L!Topup
  <2> QED BY <1>1, <2>1, <2>3
<1>11. m.type \in {"hold", "refund", "topup"}
  BY <1>1 DEF Row, Types
<1> QED BY <1>8, <1>9, <1>10, <1>11

(* Every step of the database is an operation of the ledger, or none.      *)
LEMMA LedgerSteps ==
  ASSUME BillingInv, PricesInv, EntriesInv, [Next]_vars
  PROVE  [L!Next]_(L!vars)
<1> USE BillingAssumption
<1>1. CASE UNCHANGED <<balance, moves, audit>>
  <2>1. Phase' = Phase
    BY <1>1 DEF Phase, Posted
  <2> QED BY <1>1, <2>1 DEF L!vars
<1>2. ASSUME NEW s \in Sessions, Commit(s) PROVE L!Next
  BY <1>2, CommitIsAtomic DEF L!Next
<1>3. ASSUME NEW s \in Sessions, CommitAudit(s) PROVE [L!Next]_(L!vars)
  <2>1. /\ pc[s] = "inserted" /\ row[s].type = "adjust" /\ row[s] \in Row
        /\ TypeOK /\ RowInv /\ MovesInv
    BY <1>3 DEF CommitAudit, BillingInv, TypeOK
  <2>2. PICK t \in Tasks : t = row[s].task
    BY <2>1 DEF RowInv, RowOK
  <2>3. /\ audit' = [audit EXCEPT ![t] = row[s].after] /\ row[s].after \in Int
        /\ UNCHANGED <<balance, moves>>
    BY <1>3, <2>1, <2>2 DEF CommitAudit, Row
  <2>4. Posted("hold", t)
    BY <2>1, <2>2, SMTT(30) DEF EntriesInv, MovesInv, Posted
  <2>5. Phase' = Phase /\ Phase[t] # "none"
    BY <2>3, <2>4 DEF Phase, Posted
  <2>6. audit'[t] # NoPrice /\ \A u \in Tasks \ {t} : audit'[u] = audit[u]
    BY <2>1, <2>3 DEF TypeOK
  <2>7. CASE audit[t] # NoPrice
    <3>1. [u \in Tasks |-> audit'[u] # NoPrice] = [u \in Tasks |-> audit[u] # NoPrice]
      <4>1. ASSUME NEW u \in Tasks PROVE (audit'[u] # NoPrice) = (audit[u] # NoPrice)
        BY Zenon, <2>6, <2>7
      <4> QED BY Zenon, <4>1
    <3> QED BY <2>3, <2>5, <3>1 DEF L!vars
  <2>8. CASE audit[t] = NoPrice
    <3> DEFINE A == [u \in Tasks |-> audit[u] # NoPrice]
    <3>1. [u \in Tasks |-> audit'[u] # NoPrice] = [A EXCEPT ![t] = TRUE]
      <4>1. ASSUME NEW u \in Tasks
            PROVE  (audit'[u] # NoPrice) = [A EXCEPT ![t] = TRUE][u]
        BY Zenon, <2>6
      <4> QED BY Zenon, <4>1
    <3>2. ~A[t]
      BY <2>8
    <3> QED BY <2>3, <2>5, <3>1, <3>2 DEF L!Next, L!Audit
  <2> QED BY <2>7, <2>8
<1>4. \/ UNCHANGED <<balance, moves, audit>>
      \/ \E s \in Sessions : Commit(s) \/ CommitAudit(s)
  BY DEF Next, vars, Begin, Statement, TryDebit, CheckRefund, CheckAudit, Topup, Credit,
         CreditOverflow, AddLedger, AlreadyRecorded, ReadBalance, AddAudit, AuditRecorded,
         Crash, Rollback, UpdateBalance
<1> QED BY <1>1, <1>2, <1>3, <1>4

(* The statements of concurrent sessions amount to whole operations of the *)
(* ledger, one after another, whatever their interleaving and whichever of *)
(* them dies on the way.                                                   *)
THEOREM ImplementsLedger == Spec => LedgerSpec
<1>1. Init => PricesInv /\ EntriesInv
  BY DEF Init, PricesInv, EntriesInv
<1>2. BillingInv /\ PricesInv /\ EntriesInv /\ [Next]_vars => PricesInv' /\ EntriesInv'
  BY PricesNext
<1>3. BillingInv /\ PricesInv /\ EntriesInv /\ [Next]_vars => [L!Next]_(L!vars)
  BY LedgerSteps
<1> QED
  BY <1>1, <1>2, <1>3, LedgerStarts, BillingInvHolds, PTL DEF Spec, LedgerSpec, L!Spec

----------------------------------------------------------------------------
(* The rows of a type among the first n of a period, and what they add to. *)
First(k, m, p, n, type) == {i \in RowsOf(k, p, n) : m[i].type = type}
AmountsOf(m) == [i \in 1..Len(m) |-> m[i].amount]
SumOf(k, m, p, n, type) == SumFunctionOnSet(AmountsOf(m), First(k, m, p, n, type))
BalanceAfter(m, i) == IF i = 0 THEN 0 ELSE m[i].after

LEMMA RowTypes ==
  ASSUME NEW m \in Seq(Row), NEW i \in 1..Len(m)
  PROVE  m[i] \in Row /\ m[i].amount \in Int /\ m[i].after \in Int
<1>1. m[i] \in Row
  OBVIOUS
<1> QED BY <1>1 DEF Row

LEMMA SumStep ==
  ASSUME NEW k, NEW m \in Seq(Row), NEW n \in 0..(Len(m) - 1), NEW type
  PROVE  /\ SumOf(k, m, Always, n, type) \in Int
         /\ SumOf(k, m, Always, n + 1, type) =
              IF m[n + 1].type = type
              THEN m[n + 1].amount + SumOf(k, m, Always, n, type) ELSE SumOf(k, m, Always, n, type)
<1> DEFINE S == First(k, m, Always, n, type)
           f == AmountsOf(m)
<1>1. n \in Nat /\ Len(m) \in Nat /\ n + 1 \in 1..Len(m) /\ \A i \in 1..n : i \in 1..Len(m)
  OBVIOUS
<1>2. \A i \in 1..Len(m) : f[i] = m[i].amount /\ f[i] \in Int
  BY RowTypes DEF AmountsOf
<1>3. IsFiniteSet(S) /\ S \subseteq 1..n /\ n + 1 \notin S
  <2>1. IsFiniteSet(1..n)
    BY <1>1, FS_Interval
  <2>2. S \subseteq 1..n
    BY DEF First, RowsOf
  <2>3. n + 1 \notin 1..n
    BY <1>1
  <2> QED BY <2>1, <2>2, <2>3, FS_Subset
<1>4. \A i \in S : f[i] \in Int
  BY <1>1, <1>2, <1>3
<1>5. First(k, m, Always, n + 1, type) = IF m[n + 1].type = type THEN S \cup {n + 1} ELSE S
  <2>1. \A i : i \in 1..(n + 1) <=> i \in 1..n \/ i = n + 1
    BY <1>1
  <2>2. \A d : Within(Always, d)
    BY DEF Within, Always
  <2> QED BY <2>1, <2>2 DEF First, RowsOf
<1> HIDE DEF S, f
<1>6. SumFunctionOnSet(f, S) \in Int
  BY <1>3, <1>4, SumInt
<1>7. SumFunctionOnSet(f, S \cup {n + 1}) = f[n + 1] + SumFunctionOnSet(f, S)
  BY <1>1, <1>2, <1>3, <1>4, SumAdd
<1> QED BY <1>1, <1>2, <1>5, <1>6, <1>7 DEF SumOf, S, f

(* The first n movements add up to the balance after them.                 *)
LEMMA Telescope ==
  ASSUME NEW k, NEW m \in Seq(Row),
         \A i \in 1..Len(m) : /\ m[i].after = BalanceAfter(m, i - 1) + m[i].amount
                              /\ m[i].type \in {"hold", "refund", "topup"},
         NEW n \in 0..Len(m)
  PROVE  SumOf(k, m, Always, n, "topup") + SumOf(k, m, Always, n, "hold")
            + SumOf(k, m, Always, n, "refund") = BalanceAfter(m, n)
<1> DEFINE Part(l, type) == SumOf(k, m, Always, l, type)
           All(l) == Part(l, "topup") + Part(l, "hold") + Part(l, "refund")
           T == {l \in Nat : l <= Len(m) => All(l) = BalanceAfter(m, l)}
<1>1. 0 \in T
  <2>1. \A type : First(k, m, Always, 0, type) = {}
    BY DEF First, RowsOf
  <2>2. \A type : Part(0, type) = 0
    BY <2>1, SumEmpty DEF SumOf
  <2> QED BY <2>2 DEF BalanceAfter
<1>2. ASSUME NEW l \in Nat, l \in T PROVE l + 1 \in T
  <2> SUFFICES ASSUME l + 1 <= Len(m) PROVE All(l + 1) = BalanceAfter(m, l + 1)
    OBVIOUS
  <2>1. l \in 0..(Len(m) - 1) /\ All(l) = BalanceAfter(m, l) /\ l + 1 \in 1..Len(m)
    BY <1>2
  <2>2. /\ m[l + 1].amount \in Int /\ m[l + 1].type \in {"hold", "refund", "topup"}
        /\ BalanceAfter(m, l + 1) = BalanceAfter(m, l) + m[l + 1].amount
    <3>1. (l + 1) - 1 = l /\ l + 1 # 0
      OBVIOUS
    <3>2. m[l + 1].amount \in Int
      BY <2>1, RowTypes
    <3>3. BalanceAfter(m, l + 1) = m[l + 1].after
      BY <3>1 DEF BalanceAfter
    <3>4. /\ m[l + 1].after = BalanceAfter(m, (l + 1) - 1) + m[l + 1].amount
          /\ m[l + 1].type \in {"hold", "refund", "topup"}
      BY <2>1
    <3> QED BY <3>1, <3>2, <3>3, <3>4
  <2>3. /\ Part(l, "topup") \in Int /\ Part(l, "hold") \in Int /\ Part(l, "refund") \in Int
        /\ \A type : Part(l + 1, type) = IF m[l + 1].type = type THEN m[l + 1].amount + Part(l, type)
                                         ELSE Part(l, type)
    BY <2>1, SumStep
  <2> HIDE DEF Part
  <2>4. All(l + 1) = m[l + 1].amount + All(l)
    <3>1. CASE m[l + 1].type = "topup"
      <4>1. /\ Part(l + 1, "topup") = m[l + 1].amount + Part(l, "topup")
            /\ Part(l + 1, "hold") = Part(l, "hold") /\ Part(l + 1, "refund") = Part(l, "refund")
        BY <2>3, <3>1
      <4> QED BY <2>2, <2>3, <4>1
    <3>2. CASE m[l + 1].type = "hold"
      <4>1. /\ Part(l + 1, "hold") = m[l + 1].amount + Part(l, "hold")
            /\ Part(l + 1, "topup") = Part(l, "topup") /\ Part(l + 1, "refund") = Part(l, "refund")
        BY <2>3, <3>2
      <4> QED BY <2>2, <2>3, <4>1
    <3>3. CASE m[l + 1].type = "refund"
      <4>1. /\ Part(l + 1, "refund") = m[l + 1].amount + Part(l, "refund")
            /\ Part(l + 1, "topup") = Part(l, "topup") /\ Part(l + 1, "hold") = Part(l, "hold")
        BY <2>3, <3>3
      <4> QED BY <2>2, <2>3, <4>1
    <3> QED BY <2>2, <3>1, <3>2, <3>3
  <2>5. All(l) \in Int
    BY <2>3
  <2> HIDE DEF All
  <2> QED BY <2>1, <2>2, <2>4, <2>5
<1> HIDE DEF T
<1>3. Nat \subseteq T
  BY <1>1, <1>2, NatSetInduction
<1> QED BY <1>3 DEF T

----------------------------------------------------------------------------
(* Topups add credits.                                                     *)
TopupsInv ==
    \A k \in Keys : \A i \in 1..Len(moves[k]) :
        moves[k][i].type = "topup" => moves[k][i].amount \in TopupAmounts

LEMMA TopupsNext ==
  ASSUME BillingInv, EntriesInv, TopupsInv, [Next]_vars
  PROVE  TopupsInv'
<1>1. CASE UNCHANGED moves
  BY <1>1 DEF TopupsInv
<1>2. ASSUME NEW s \in Sessions, Commit(s) PROVE TopupsInv'
  <2>1. pc[s] # "idle" /\ row[s] \in Row /\ moves \in [Keys -> Seq(Row)]
    BY <1>2 DEF Commit, BillingInv, TypeOK
  <2>2. moves' = [moves EXCEPT ![row[s].key] = Append(@, row[s])]
    BY <1>2 DEF Commit
  <2>3. row[s].type = "topup" => row[s].amount \in TopupAmounts
    BY <2>1 DEF EntriesInv
  <2> SUFFICES ASSUME NEW k \in Keys, NEW i \in 1..Len(moves'[k]), moves'[k][i].type = "topup"
               PROVE  moves'[k][i].amount \in TopupAmounts
    BY DEF TopupsInv
  <2>4. CASE k # row[s].key
    BY <2>1, <2>2, <2>4 DEF TopupsInv
  <2>5. CASE k = row[s].key
    <3>1. moves[k] \in Seq(Row) /\ moves'[k] = Append(moves[k], row[s])
      BY <2>1, <2>2, <2>5
    <3>2. (i \in 1..Len(moves[k]) /\ moves'[k][i] = moves[k][i]) \/ moves'[k][i] = row[s]
      BY <2>1, <3>1
    <3> QED BY <2>3, <3>2 DEF TopupsInv
  <2> QED BY <2>4, <2>5
<1>3. UNCHANGED moves \/ \E s \in Sessions : Commit(s)
  BY DEF Next, vars, Begin, Statement, TryDebit, CheckRefund, CheckAudit, Topup, Credit,
         CreditOverflow, AddLedger, AlreadyRecorded, ReadBalance, AddAudit, AuditRecorded,
         CommitAudit, Crash, Rollback, UpdateBalance
<1> QED BY <1>1, <1>2, <1>3

(* The ledger behind the reports, and what a report in progress has of it. *)
LedgerInv == BillingInv /\ PricesInv /\ EntriesInv /\ TopupsInv

Summaries == [charged : Nat, topups : Nat, spent : Int]
Entries == [rows : SUBSET Nat, adjusts : 0..Limit]
Kinds == {"none", "admin", "usage"}
AllReports == [kind : Kinds, key : Keys, period : Periods \cup {Always},
               balance : 0..MaxCredits, entries : Entries, summary : Summaries]

Progress ==
    /\ report.kind = "admin" =>
         /\ report.period = Always
         /\ rpc = "summary" => \E n \in 0..Len(moves[report.key]) : Balances(n)
         /\ rpc = "entries" =>
              \E n \in 0..Len(moves[report.key]) : SummaryAt(n) /\ Balances(n)
    /\ report.kind = "usage" /\ rpc = "summary" =>
         \E m \in 0..Len(moves[report.key]) : Lists(m)
    /\ rpc = "balance" => report.kind = "admin"
    /\ rpc # "idle" => report.kind # "none"
ReportInv == /\ report \in AllReports /\ ReportTypeOK
             /\ Progress /\ Explained

(* While the ledger goes on, what a report shows stays explained.          *)
LEMMA Movements ==
  ASSUME LedgerInv, ReportInv, [Next]_vars, UNCHANGED rvars
  PROVE  ReportInv'
<1>1. report' = report /\ rpc' = rpc /\ reports' = reports /\ report \in AllReports
  BY DEF rvars, ReportInv
<1>2. PICK k \in Keys, p \in {report.period} : k = report.key
  BY <1>1 DEF AllReports
<1>3. /\ Len(moves[k]) \in Nat /\ Len(moves'[k]) \in Nat /\ Len(moves[k]) <= Len(moves'[k])
      /\ \A i \in 1..Len(moves[k]) : moves'[k][i] = moves[k][i]
  BY MovesStay DEF LedgerInv
<1>4. \A n : Lists(n)' <=> Lists(n)
  BY <1>1 DEF Lists
<1>5. ASSUME NEW n \in 0..Len(moves[k])
      PROVE  /\ n \in 0..Len(moves'[k])
             /\ Balances(n) => Balances(n)'
             /\ SummaryAt(n) => SummaryAt(n)'
  <2>1. \A i \in 0..n : After(k, i)' = After(k, i)
    BY <1>3 DEF After
  <2>2. Balances(n) => Balances(n)'
    BY <1>1, <1>2, <2>1 DEF Balances, After
  <2>3. RowsOf(k, p, n) \subseteq 1..Len(moves[k]) /\ n \in 0..n
    BY <1>3 DEF RowsOf
  <2>4. {i \in RowsOf(k, p, n) : moves'[k][i].type = "hold"}
          = {i \in RowsOf(k, p, n) : moves[k][i].type = "hold"}
    BY <1>3, <2>3
  <2>5. SummaryAt(n) => SummaryAt(n)'
    BY <1>1, <1>2, <2>1, <2>3, <2>4 DEF SummaryAt, After
  <2> QED BY <1>3, <2>2, <2>5
<1>6. ReportTypeOK'
  <2>1. Rows(k, p) \subseteq Rows(k, p)'
    BY <1>3 DEF Rows, RowsOf
  <2>2. report.entries.rows \subseteq Rows(report.key, report.period)'
    BY <1>1, <1>2, <2>1 DEF ReportInv, ReportTypeOK, Rows
  <2> QED BY <1>1, <2>2 DEF ReportInv, ReportTypeOK
<1>7. Progress'
  BY <1>1, <1>2, <1>4, <1>5 DEF ReportInv, Progress
<1>8. Explained'
  <2> SUFFICES ASSUME rpc = "idle", report.kind # "none" PROVE Explained'
    BY <1>1 DEF Explained
  <2>1. PICK n \in 0..Len(moves[k]) :
           /\ SummaryAt(n)
           /\ report.kind = "admin" =>
                Balances(n) /\ \E m \in n..Len(moves[k]) : Lists(m)
           /\ report.kind = "usage" => \E m \in 0..n : Lists(m)
    BY <1>2 DEF ReportInv, Explained
  <2>2. n \in 0..Len(moves'[k]) /\ SummaryAt(n)' /\ (report.kind = "admin" => Balances(n)')
    BY <1>5, <2>1
  <2>3. report.kind = "admin" => \E m \in n..Len(moves'[k]) : Lists(m)'
    BY <1>3, <1>4, <2>1
  <2>4. report.kind = "usage" => \E m \in 0..n : Lists(m)'
    BY <1>4, <2>1
  <2> QED BY <1>1, <1>2, <2>2, <2>3, <2>4 DEF Explained
<1> QED BY <1>1, <1>6, <1>7, <1>8 DEF ReportInv, AllReports

(* What a SELECT of the summary finds: the movements so far add up.        *)
LEMMA SumTypes ==
  ASSUME NEW k, NEW m \in Seq(Row), NEW p, NEW type
  PROVE  /\ IsFiniteSet(First(k, m, p, Len(m), type))
         /\ SumOf(k, m, p, Len(m), type) \in Int
         /\ (\A i \in 1..Len(m) : m[i].type = type => m[i].amount \in Nat) =>
              SumOf(k, m, p, Len(m), type) \in Nat
<1> DEFINE S == First(k, m, p, Len(m), type)
           f == AmountsOf(m)
<1>1. S \subseteq 1..Len(m) /\ \A i \in S : m[i].type = type
  BY DEF First, RowsOf
<1>2. IsFiniteSet(S)
  <2>1. IsFiniteSet(1..Len(m))
    BY FS_Interval
  <2> QED BY <1>1, <2>1, FS_Subset
<1>3. \A i \in S : f[i] = m[i].amount /\ f[i] \in Int
  <2> SUFFICES ASSUME NEW i \in S PROVE f[i] = m[i].amount /\ f[i] \in Int
    OBVIOUS
  <2>1. i \in 1..Len(m)
    BY <1>1
  <2> QED BY <2>1, RowTypes DEF AmountsOf
<1> HIDE DEF S, f
<1>4. SumFunctionOnSet(f, S) \in Int
  BY <1>2, <1>3, SumInt
<1>5. (\A i \in 1..Len(m) : m[i].type = type => m[i].amount \in Nat) =>
        SumFunctionOnSet(f, S) \in Nat
  <2> SUFFICES ASSUME \A i \in 1..Len(m) : m[i].type = type => m[i].amount \in Nat
               PROVE  SumFunctionOnSet(f, S) \in Nat
    OBVIOUS
  <2>1. \A i \in S : f[i] \in Nat
    BY <1>1, <1>3
  <2> QED BY <1>2, <2>1, SumNat
<1> QED BY <1>2, <1>4, <1>5 DEF SumOf, S, f

LEMMA SummaryIs ==
  ASSUME LedgerInv, NEW k \in Keys, NEW p, NEW s \in UsageSummary(k, p)
  PROVE  /\ s \in Summaries
         /\ p = Always => s.topups - s.spent = After(k, Len(moves[k]))
         /\ s.charged = Cardinality({i \in RowsOf(k, p, Len(moves[k])) : moves[k][i].type = "hold"})
<1>1. PICK m : m = moves[k]
  OBVIOUS
<1>2. m \in Seq(Row) /\ Len(m) \in Nat
  BY <1>1 DEF LedgerInv, BillingInv, TypeOK
<1>3. PICK top, held, back :
         top = SumOf(k, m, p, Len(m), "topup") /\ held = SumOf(k, m, p, Len(m), "hold")
         /\ back = SumOf(k, m, p, Len(m), "refund")
  OBVIOUS
<1>4. PICK c : c = Cardinality(First(k, m, p, Len(m), "hold"))
  OBVIOUS
<1>5. \A type : OfType(k, p, type) = First(k, m, p, Len(m), type)
  BY <1>1 DEF OfType, Rows, First
<1>6. \A type : Sum(k, OfType(k, p, type)) = SumOf(k, m, p, Len(m), type)
  BY <1>1, <1>5 DEF Sum, SumOf, Amounts, AmountsOf
<1>7. s = [charged |-> c, topups |-> top, spent |-> Spent(held, back)]
  BY <1>3, <1>4, <1>5, <1>6 DEF UsageSummary
<1>8. top \in Nat /\ held \in Int /\ back \in Int
  <2>1. \A i \in 1..Len(m) : m[i].type = "topup" => m[i].amount \in Nat
    BY <1>1, BillingAssumption DEF LedgerInv, TopupsInv
  <2> QED BY <1>2, <1>3, <2>1, SumTypes
<1>9. c \in Nat
  BY <1>2, <1>4, SumTypes, FS_CardinalityType
<1>10. \A i : BalanceAfter(m, i) = After(k, i)
  BY <1>1 DEF BalanceAfter, After
<1>11. p = Always => top + held + back = After(k, Len(m))
  <2>1. \A i \in 1..Len(m) : /\ m[i].after = BalanceAfter(m, i - 1) + m[i].amount
                             /\ m[i].type \in {"hold", "refund", "topup"}
    BY <1>1, <1>10 DEF LedgerInv, BillingInv, LedgerChain, MovesInv
  <2>2. Len(m) \in 0..Len(m)
    BY <1>2
  <2>3. p = Always => top + held + back = BalanceAfter(m, Len(m))
    BY <1>2, <1>3, <2>1, <2>2, Telescope
  <2> QED BY <1>10, <2>3
<1>12. Spent(held, back) \in Int /\ top - Spent(held, back) = top + held + back
  BY <1>8 DEF Spent
<1>13. s \in Summaries /\ s.topups = top /\ s.spent = Spent(held, back) /\ s.charged = c
  BY <1>7, <1>8, <1>9, <1>12 DEF Summaries
<1>14. {i \in RowsOf(k, p, Len(m)) : m[i].type = "hold"} = First(k, m, p, Len(m), "hold")
  BY DEF First
<1> QED BY <1>1, <1>4, <1>11, <1>12, <1>13, <1>14

(* The steps of a report.                                                  *)
LEMMA Asking ==
  ASSUME LedgerInv, ReportInv, AdminView \/ GetUsage
  PROVE  ReportInv'
<1> USE BillingAssumption, ReportsAssumption
<1>1. PICK k \in Keys, kind \in {"admin", "usage"}, p \in Periods \cup {Always} :
         /\ report' = New(kind, k, p) /\ reports < MaxReports /\ reports' = reports + 1
         /\ rpc' = (IF kind = "admin" THEN "balance" ELSE "entries")
         /\ kind = "admin" => p = Always
  BY DEF AdminView, GetUsage, Request
<1>2. /\ report'.kind = kind /\ report'.key = k /\ report'.period = p /\ report'.balance = 0
      /\ report'.entries = [rows |-> {}, adjusts |-> 0]
      /\ report'.summary = [charged |-> 0, topups |-> 0, spent |-> 0]
  BY <1>1 DEF New
<1>3. report' \in AllReports
  <2>1. [charged |-> 0, topups |-> 0, spent |-> 0] \in Summaries /\ 0 \in 0..MaxCredits
    BY DEF Summaries
  <2>2. [rows |-> {}, adjusts |-> 0] \in Entries
    BY DEF Entries
  <2> QED BY <1>1, <2>1, <2>2 DEF New, AllReports, Kinds
<1>4. reports' \in 0..MaxReports /\ rpc' \in {"balance", "entries"}
  BY <1>1 DEF ReportInv, ReportTypeOK
<1>5. ReportTypeOK'
  BY <1>2, <1>3, <1>4 DEF ReportTypeOK, AllReports, Summaries, Kinds
<1>6. Progress' /\ Explained'
  BY <1>1, <1>2, <1>4 DEF Progress, Explained
<1> QED BY <1>3, <1>5, <1>6 DEF ReportInv, AllReports, Kinds, Summaries

LEMMA ReadingBalance ==
  ASSUME LedgerInv, ReportInv, SelectBalance
  PROVE  ReportInv'
<1>1. /\ report' = [report EXCEPT !.balance = balance[report.key]]
      /\ rpc = "balance" /\ rpc' = "summary" /\ UNCHANGED <<vars, reports>>
      /\ report \in AllReports /\ report.kind = "admin"
  BY DEF SelectBalance, Select, ReportInv, Progress
<1>2. PICK k \in Keys : k = report.key
  BY <1>1 DEF AllReports
<1>3. balance[k] \in 0..MaxCredits /\ moves' = moves /\ reports' = reports
      /\ Len(moves[k]) \in Nat /\ balance[k] = After(k, Len(moves[k]))
  BY <1>1 DEF LedgerInv, BillingInv, TypeOK, BalanceInRange, LedgerChain, vars
<1>4. /\ report'.kind = report.kind /\ report'.key = k /\ report'.period = report.period
      /\ report'.balance = balance[k] /\ report'.entries = report.entries
      /\ report'.summary = report.summary /\ report' \in AllReports
  BY <1>1, <1>2, <1>3 DEF AllReports
<1>5. ReportTypeOK'
  BY <1>1, <1>2, <1>3, <1>4 DEF ReportInv, ReportTypeOK, Rows
<1>6. Balances(Len(moves[k]))'
  BY <1>3, <1>4 DEF Balances, After
<1>7. Progress' /\ Explained'
  BY <1>1, <1>2, <1>3, <1>4, <1>6 DEF ReportInv, Progress, Explained, Balances
<1> QED BY <1>4, <1>5, <1>7 DEF ReportInv, AllReports

LEMMA ReadingSummary ==
  ASSUME LedgerInv, ReportInv, SelectSummary
  PROVE  ReportInv'
<1> USE BillingAssumption, ReportsAssumption
<1>1. PICK k \in Keys, p \in {report.period} : k = report.key
  BY DEF ReportInv, AllReports
<1>2. PICK s \in UsageSummary(k, p) : report' = [report EXCEPT !.summary = s]
  BY <1>1 DEF SelectSummary, Select
<1>3. /\ rpc = "summary" /\ rpc' = (IF report.kind = "admin" THEN "entries" ELSE "idle")
      /\ moves' = moves /\ reports' = reports /\ report \in AllReports
      /\ report.kind \in {"admin", "usage"}
  BY DEF SelectSummary, Select, vars, ReportInv, Progress, AllReports, Kinds
<1>4. PICK n : n = Len(moves[k])
  OBVIOUS
<1>5. /\ s \in Summaries /\ n \in Nat
      /\ p = Always => s.topups - s.spent = After(k, n)
      /\ s.charged = Cardinality({i \in RowsOf(k, p, n) : moves[k][i].type = "hold"})
  <2>1. n \in Nat
    BY <1>4 DEF LedgerInv, BillingInv, TypeOK
  <2> QED BY <1>4, <2>1, SummaryIs
<1>6. /\ report'.kind = report.kind /\ report'.key = k /\ report'.period = p
      /\ report'.balance = report.balance /\ report'.entries = report.entries
      /\ report'.summary = s /\ report' \in AllReports
  BY <1>1, <1>2, <1>3, <1>5 DEF AllReports
<1>7. ReportTypeOK'
  BY <1>1, <1>3, <1>6 DEF ReportInv, ReportTypeOK, Rows, AllReports, Summaries
<1>8. SummaryAt(n)' /\ n \in 0..Len(moves'[k])
  BY <1>3, <1>4, <1>5, <1>6 DEF SummaryAt, After
<1>9. report.kind = "admin" => Balances(n)'
  <2> SUFFICES ASSUME report.kind = "admin" PROVE Balances(n)'
    OBVIOUS
  <2>1. PICK l \in 0..n : Balances(l)
    BY <1>1, <1>3, <1>4 DEF ReportInv, Progress
  <2>2. PICK m \in 0..l : report.balance = After(k, m)
    BY <1>1, <2>1 DEF Balances
  <2>3. m \in 0..n
    BY <1>5, <2>1, <2>2
  <2> QED BY <1>3, <1>6, <2>2, <2>3 DEF Balances, After
<1>10. report.kind = "usage" => \E m \in 0..n : Lists(m)'
  BY <1>1, <1>3, <1>4, <1>6 DEF ReportInv, Progress, Lists
<1>11. Progress'
  BY <1>1, <1>3, <1>6, <1>8, <1>9 DEF ReportInv, Progress
<1>12. Explained'
  BY <1>3, <1>6, <1>8, <1>10 DEF Explained
<1> QED BY <1>6, <1>7, <1>11, <1>12 DEF ReportInv, AllReports

LEMMA ReadingEntries ==
  ASSUME LedgerInv, ReportInv, SelectEntries
  PROVE  ReportInv'
<1> USE BillingAssumption, ReportsAssumption
<1>1. PICK k \in Keys, p \in {report.period} : k = report.key
  BY DEF ReportInv, AllReports
<1>2. PICK e \in ListLedger(k, p) : report' = [report EXCEPT !.entries = e]
  BY <1>1 DEF SelectEntries, Select
<1>3. /\ rpc = "entries" /\ rpc' = (IF report.kind = "admin" THEN "idle" ELSE "summary")
      /\ moves' = moves /\ reports' = reports /\ report \in AllReports
      /\ report.kind \in {"admin", "usage"}
  BY DEF SelectEntries, Select, vars, ReportInv, Progress, AllReports, Kinds
<1>4. PICK n : n = Len(moves[k])
  OBVIOUS
<1>5. n \in Nat
  BY <1>4 DEF LedgerInv, BillingInv, TypeOK
<1>6. /\ e \in [rows : SUBSET Rows(k, p), adjusts : 0..Limit]
      /\ e.rows \in Newest(k, RowsOf(k, p, n), Limit - e.adjusts)
  BY <1>2, <1>4 DEF ListLedger, Rows
<1>7. e \in Entries
  <2>1. Rows(k, p) \subseteq Nat
    BY <1>4, <1>5 DEF Rows, RowsOf
  <2>2. e.rows \subseteq Nat /\ e.adjusts \in 0..Limit /\ e = [rows |-> e.rows, adjusts |-> e.adjusts]
    BY <1>6, <2>1
  <2> QED BY <2>2 DEF Entries
<1>8. /\ report'.kind = report.kind /\ report'.key = k /\ report'.period = p
      /\ report'.balance = report.balance /\ report'.entries = e
      /\ report'.summary = report.summary /\ report' \in AllReports
  BY <1>1, <1>2, <1>3, <1>7 DEF AllReports
<1>9. ReportTypeOK'
  <2>1. e.rows \subseteq Rows(k, p) /\ e.adjusts \in 0..Limit
    BY <1>6
  <2> QED BY <1>1, <1>3, <1>8, <2>1 DEF ReportInv, ReportTypeOK, Rows
<1>10. Lists(n)'
  BY <1>6, <1>8 DEF Lists
<1>11. Progress'
  BY <1>1, <1>3, <1>4, <1>5, <1>8, <1>10 DEF ReportInv, Progress
<1>12. Explained'
  <2> SUFFICES ASSUME report.kind = "admin" PROVE Explained'
    BY <1>3, <1>8 DEF Explained
  <2>1. PICK l \in 0..n : SummaryAt(l) /\ Balances(l)
    BY <1>1, <1>3, <1>4 DEF ReportInv, Progress
  <2>2. SummaryAt(l)'
    BY <1>1, <1>3, <1>8, <2>1 DEF SummaryAt, After
  <2>3. Balances(l)'
    BY <1>1, <1>3, <1>8, <2>1 DEF Balances, After
  <2>4. n \in l..Len(moves'[k]) /\ l \in 0..Len(moves'[k])
    BY <1>3, <1>4, <1>5
  <2> QED BY <1>8, <1>10, <2>2, <2>3, <2>4 DEF Explained
<1> QED BY <1>8, <1>9, <1>11, <1>12 DEF ReportInv, AllReports

LEMMA ReportsInit == Init /\ ReportInit => LedgerInv /\ ReportInv
<1> SUFFICES ASSUME Init, ReportInit PROVE LedgerInv /\ ReportInv
  OBVIOUS
<1> USE BillingAssumption, ReportsAssumption
<1>1. LedgerInv
  <2>1. PricesInv /\ EntriesInv /\ TopupsInv
    BY DEF Init, PricesInv, EntriesInv, TopupsInv
  <2> QED BY <2>1, InitInv DEF LedgerInv
<1>2. PICK k \in Keys : report = New("none", k, Always)
  BY DEF ReportInit
<1>3. /\ report.kind = "none" /\ report.key = k /\ report.period = Always
      /\ report.balance = 0 /\ report.entries = [rows |-> {}, adjusts |-> 0] /\ rpc = "idle" /\ reports = 0
      /\ report.summary = [charged |-> 0, topups |-> 0, spent |-> 0]
  BY <1>2 DEF New, ReportInit
<1>4. report \in AllReports
  <2>1. [charged |-> 0, topups |-> 0, spent |-> 0] \in Summaries /\ 0 \in 0..MaxCredits
    BY DEF Summaries
  <2>2. [rows |-> {}, adjusts |-> 0] \in Entries
    BY DEF Entries
  <2> QED BY <1>2, <2>1, <2>2 DEF New, AllReports, Kinds
<1>5. ReportTypeOK
  BY <1>3, <1>4 DEF ReportTypeOK, AllReports, Summaries, Kinds
<1>6. Progress /\ Explained
  BY <1>3 DEF Progress, Explained
<1> QED BY <1>1, <1>4, <1>5, <1>6 DEF ReportInv

LEMMA ReportsNext ==
  ASSUME LedgerInv, ReportInv, [ReportNext]_<<vars, rvars>>
  PROVE  LedgerInv' /\ ReportInv'
<1>1. [Next]_vars
  BY DEF ReportNext, AdminView, GetUsage, Request, SelectBalance, SelectSummary, SelectEntries,
     Select
<1>2. LedgerInv'
  BY <1>1, NextInv, PricesNext, TopupsNext DEF LedgerInv
<1>3. ReportInv'
  <2>1. CASE [Next]_vars /\ UNCHANGED rvars
    BY <2>1, Movements
  <2>2. CASE AdminView \/ GetUsage
    BY <2>2, Asking
  <2> QED BY <2>1, <2>2, ReadingBalance, ReadingSummary, ReadingEntries DEF ReportNext
<1> QED BY <1>2, <1>3

(* Every variable keeps its type, whatever the movements add up to.        *)
THEOREM ReportTypesCorrect == ReportSpec => []ReportTypeOK
<1>1. LedgerInv /\ ReportInv /\ [ReportNext]_<<vars, rvars>> => LedgerInv' /\ ReportInv'
  BY ReportsNext
<1>2. ReportInv => ReportTypeOK
  BY DEF ReportInv
<1> QED BY <1>1, <1>2, ReportsInit, PTL DEF ReportSpec

(* The parts of a report are read at different moments, while credits go   *)
(* on moving, and yet one ledger explains what they say together.          *)
THEOREM ReportsExplained == ReportSpec => []Explained
<1>1. LedgerInv /\ ReportInv /\ [ReportNext]_<<vars, rvars>> => LedgerInv' /\ ReportInv'
  BY ReportsNext
<1>2. ReportInv => Explained
  BY DEF ReportInv
<1> QED BY <1>1, <1>2, ReportsInit, PTL DEF ReportSpec
=============================================================================
