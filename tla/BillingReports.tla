---------------------------- MODULE BillingReports ----------------------------
(***************************************************************************)
(* The reports of partner billing (get_usage and admin_view in             *)
(* app/api/routes/billing.py), made while sessions go on moving credits.   *)
(* A report is two or three SELECTs, each of which sees what is committed  *)
(* when it runs.  Movements are committed in the order of Billing's moves, *)
(* but dated (created_at) by the clock of the host that wrote them, and    *)
(* the hosts' clocks differ: dates follow no order.  A period is two       *)
(* dates, of which either may be left out.                                 *)
(* Adjust rows move nothing but take up places of the list.                *)
(***************************************************************************)
EXTENDS Billing, FiniteSetsExt

CONSTANTS CreatedAt(_, _), \* the date of a key's i-th movement
          Limit,         \* the most rows that list_ledger returns
          Periods,       \* pairs <<from, to>> that may be asked for
          NoDate,        \* no from, or no to
          MaxReports     \* bound: reports (they disturb nothing, so one will do)

Dates == Nat \cup {NoDate}

ASSUME ReportsAssumption ==
    /\ Limit \in Nat /\ MaxReports \in Nat
    /\ NoDate \notin Nat
    /\ Periods \subseteq Dates \X Dates

VARIABLES report,        \* the report being made, or the last one made
          rpc,           \* its next SELECT
          reports        \* how many reports there have been

rvars == <<report, rpc, reports>>

Always == <<NoDate, NoDate>>

Within(p, d) == (p[1] # NoDate => p[1] <= d) /\ (p[2] # NoDate => d <= p[2])

(* The rows of a period among the first n movements, and among all.        *)
RowsOf(k, p, n) == {i \in 1..n : Within(p, CreatedAt(k, i))}
Rows(k, p) == RowsOf(k, p, Len(moves[k]))
OfType(k, p, type) == {i \in Rows(k, p) : moves[k][i].type = type}
Amounts(k) == [i \in 1..Len(moves[k]) |-> moves[k][i].amount]
Sum(k, is) == SumFunctionOnSet(Amounts(k), is)

(* order_by(created_at.desc()).limit(limit), in any order of equal dates,  *)
(* with as many adjust rows among the newest as there may be.              *)
Newest(k, rows, c) ==
    {new \in SUBSET rows : /\ Cardinality(new) <= c
                           /\ new # rows => Cardinality(new) = c
                           /\ \A i \in new, j \in rows \ new : CreatedAt(k, j) <= CreatedAt(k, i)}
ListLedger(k, p) ==
    LET Adjusts == {t \in Tasks : KeyOf[t] = k /\ audit[t] # NoPrice}
    IN  {e \in [rows : SUBSET Rows(k, p), adjusts : 0..Limit] :
           /\ e.adjusts <= Cardinality(Adjusts)
           /\ e.rows \in Newest(k, Rows(k, p), Limit - e.adjusts)}

SpentGross(hold, refund) == -hold   \* mutant: refunds are not taken off
Spent(hold, refund) == -hold - refund

UsageSummaryNull(k, p) ==           \* mutant: a type without rows has no sum
    LET holds == OfType(k, p, "hold") IN
    {[charged |-> Cardinality(holds),
      topups  |-> Sum(k, OfType(k, p, "topup")),
      spent   |-> IF holds = {} THEN NoPrice
                  ELSE Spent(Sum(k, holds), Sum(k, OfType(k, p, "refund")))]}

(* Counts and sums by type; what was spent is what was held, less refunds. *)
UsageSummary(k, p) ==
    {[charged |-> Cardinality(OfType(k, p, "hold")),
      topups  |-> Sum(k, OfType(k, p, "topup")),
      spent   |-> Spent(Sum(k, OfType(k, p, "hold")), Sum(k, OfType(k, p, "refund")))]}

New(kind, k, p) ==
    [kind |-> kind, key |-> k, period |-> p, balance |-> 0,
     entries |-> [rows |-> {}, adjusts |-> 0],
     summary |-> [charged |-> 0, topups |-> 0, spent |-> 0]]

ReportInit == /\ \E k \in Keys : report = New("none", k, Always)
              /\ rpc = "idle" /\ reports = 0

----------------------------------------------------------------------------
(* One SELECT: the result, and the next one.                               *)
Select(l, field, results, next) ==
    /\ rpc = l
    /\ \E r \in results : report' = [report EXCEPT ![field] = r]
    /\ rpc' = next
    /\ UNCHANGED <<vars, reports>>

Request(r, first) ==
    /\ rpc = "idle" /\ reports < MaxReports
    /\ reports' = reports + 1
    /\ report' = r
    /\ rpc' = first
    /\ UNCHANGED vars

(* admin_view: the balance, then the summary, then the newest rows.        *)
AdminView == \E k \in Keys : Request(New("admin", k, Always), "balance")

(* get_usage: the newest rows of a period, then its summary.               *)
GetUsage ==
    \E k \in Keys, p \in Periods : Request(New("usage", k, p), "entries")

SelectBalance == Select("balance", "balance", {balance[report.key]}, "summary")

SelectSummary ==
    Select("summary", "summary", UsageSummary(report.key, report.period),
           IF report.kind = "admin" THEN "entries" ELSE "idle")

SelectEntries ==
    Select("entries", "entries", ListLedger(report.key, report.period),
           IF report.kind = "admin" THEN "idle" ELSE "summary")

ReportNext ==
    \/ Next /\ UNCHANGED rvars
    \/ AdminView \/ GetUsage \/ SelectBalance \/ SelectSummary \/ SelectEntries

ReportSpec == Init /\ ReportInit /\ [][ReportNext]_<<vars, rvars>>
----------------------------------------------------------------------------
(* Every variable keeps its type.                                          *)
ReportTypeOK ==
    /\ report.kind \in {"none", "admin", "usage"} /\ report.key \in Keys
    /\ report.period \in Periods \cup {Always}
    /\ report.balance \in 0..MaxCredits
    /\ report.entries.rows \subseteq Rows(report.key, report.period)
    /\ report.entries.adjusts \in 0..Limit
    /\ report.summary \in [charged : Nat, topups : Nat, spent : Int]
    /\ rpc \in {"idle", "balance", "summary", "entries"}
    /\ reports \in 0..MaxReports

(* What a report says can be explained by one ledger.  Its summary is that *)
(* of the first n movements, for some n: without a period they add up to   *)
(* the balance after them, and of a period, whose rows are those that the  *)
(* hosts' clocks put there, the charges are counted.  The balance an       *)
(* administrator sees is one the key had no later, and the list is of no   *)
(* earlier moment; a partner's list is of no later one.  So the parts of a *)
(* report may be of different moments, but only in the order of the        *)
(* SELECTs.                                                                *)
SummaryAt(n) ==
    LET k == report.key
        p == report.period
        s == report.summary
    IN  /\ p = Always => s.topups - s.spent = After(k, n)
        /\ s.charged = Cardinality({i \in RowsOf(k, p, n) : moves[k][i].type = "hold"})
Balances(n) == \E m \in 0..n : report.balance = After(report.key, m)
Lists(n) == report.entries.rows \in Newest(report.key, RowsOf(report.key, report.period, n),
                                           Limit - report.entries.adjusts)
Explained ==
    rpc = "idle" /\ report.kind # "none" =>
      \E n \in 0..Len(moves[report.key]) :
        /\ SummaryAt(n)
        /\ report.kind = "admin" =>
             Balances(n) /\ \E m \in n..Len(moves[report.key]) : Lists(m)
        /\ report.kind = "usage" => \E m \in 0..n : Lists(m)
=============================================================================
