--------------------------- MODULE CallbackDelivery ---------------------------
(***************************************************************************)
(* The calls one run of process_generation makes to the source             *)
(* (app/services/callback_service.py), against the clock of its two time   *)
(* limits: a call that reports the result, a call that reports a failure,  *)
(* or the second after the first was cut off.  A call is tried again by    *)
(* tenacity, which also catches the exception of the soft limit when it is *)
(* raised inside an attempt, but not when it is raised in the wait between *)
(* two of them.  The row of webhooks is inserted before the first attempt  *)
(* and closed after the last; each commit may fail, or be cut off before   *)
(* or after it took effect.                                                *)
(***************************************************************************)
EXTENDS Integers, FiniteSetsExt, Functions

CONSTANTS MaxAttempts,   \* CALLBACK_MAX_RETRIES
          Soft, Hard,    \* TASK_SOFT_TIMEOUT and TASK_HARD_TIMEOUT, in seconds
          Ends,          \* when the generation may end or fail, in seconds
          Durations,     \* bound: how long one POST may take; the timeout of
                         \* httpx limits each of its phases, not their sum
          Saving,        \* bound: how long the statements before the first and
                         \* after the last attempt may take
          None

ASSUME DeliveryAssumption ==
    /\ MaxAttempts \in Nat \ {0}
    /\ Soft \in Nat /\ Hard \in Nat /\ Soft < Hard
    /\ Ends \subseteq 0..Soft
    /\ \A S \in {Durations, Saving} : S \subseteq Nat /\ IsFiniteSet(S) /\ S # {}
    /\ None \notin {"completed", "failed", "pending", "delivered", "over",
                    "limit", "error", "unparsed"}

Calls == {"completed", "failed"}

VARIABLES clock,         \* seconds since the run began
          limit,         \* whether the soft limit's exception has been raised
          valid,         \* whether httpx can parse the callback URL
          call,          \* the call in progress, if any
          pc,            \* where it is
          hook,          \* the call's row in webhooks: status and attempts
          tries,         \* attempts["n"] of each call
          begun,         \* history: when it began
          posted,        \* history: seconds it spent in POSTs
          accepted,      \* history: how many of its POSTs the source accepted
          cut            \* history: what it was left for before its end, if so

vars == <<clock, limit, valid, call, pc, hook, tries, begun, posted, accepted, cut>>

Init == /\ clock = 0 /\ limit = FALSE /\ valid \in BOOLEAN
        /\ call = None /\ pc = "idle"
        /\ hook = [c \in Calls |-> [status |-> None, attempts |-> 0]]
        /\ tries = [c \in Calls |-> 0]
        /\ begun = [c \in Calls |-> 0]
        /\ posted = [c \in Calls |-> 0]
        /\ accepted = [c \in Calls |-> 0]
        /\ cut = [c \in Calls |-> None]

----------------------------------------------------------------------------
(* The soft limit strikes once, in whatever lasts until then; the hard     *)
(* limit ends the process.                                                 *)
Strikes(end) == ~limit /\ end >= Soft
KillsNever(end) == FALSE               \* mutant: no hard limit
Kills(end) == ~Strikes(end) /\ end >= Hard

Killed == /\ pc' = "killed"
          /\ clock' = Hard
          /\ cut' = [cut EXCEPT ![call] = "limit"]
          /\ UNCHANGED <<limit, call, begun>>

Open(c, t) == /\ call' = c
              /\ pc' = "insert"
              /\ begun' = [begun EXCEPT ![c] = t]

(* An exception leaves send_callback.  While a result is reported it fails *)
(* the run: for good at the soft limit, else unless the task is retried.   *)
(* While a failure is reported nothing catches it.                         *)
Escape(t, error) ==
    /\ clock' = t
    /\ cut' = [cut EXCEPT ![call] = error]
    /\ \/ call = "completed" /\ Open("failed", t)
       \/ /\ call = "failed" \/ error # "limit"
          /\ pc' = "over"
          /\ UNCHANGED <<call, begun>>

(* The generation ends with a result, or the task has failed for good.     *)
Report(c, t) == /\ pc = "idle"
                /\ clock' = t
                /\ limit' = (t = Soft)
                /\ Open(c, t)
                /\ UNCHANGED <<valid, hook, tries, posted, accepted, cut>>
Complete == \E t \in Ends \ {Soft} : Report("completed", t)
Fail == \E t \in Ends : Report("failed", t)

----------------------------------------------------------------------------
(* A commit that brings the rows of webhooks to h.  It takes effect or     *)
(* not, whether the call goes on after it, to place l, or an error or a    *)
(* limit ends it.                                                          *)
Commit(h, l) ==
    \E d \in Saving, took \in BOOLEAN :
        /\ hook' = IF took THEN h ELSE hook
        /\ \/ Strikes(clock + d) /\ limit' = TRUE /\ Escape(Soft, "limit")
           \/ Kills(clock + d) /\ Killed
           \/ /\ ~Strikes(clock + d) /\ ~Kills(clock + d)
              /\ UNCHANGED limit
              /\ \/ Escape(clock + d, "error")
                 \/ /\ took
                    /\ clock' = clock + d /\ pc' = l
                    /\ UNCHANGED <<call, begun, cut>>

(* send_callback inserts the row before the first attempt; the report of a *)
(* failure has the statements of the error handler before it.              *)
Insert == /\ pc = "insert"
          /\ Commit([hook EXCEPT ![call].status = "pending"], "post")
          /\ UNCHANGED <<valid, tries, posted, accepted>>

(* What a POST may come to.  Any answer but a 2xx is an HTTPError.         *)
Outcomes == IF valid THEN {"answered", "unanswered", "refused"} ELSE {"unparsed"}
ResultUnraised(o) == IF o = "unparsed" THEN o   \* mutant: no raise_for_status
                     ELSE IF o = "unanswered" THEN "error" ELSE "ok"
Result(o) == CASE o = "answered" -> "ok"
               [] o \in {"unanswered", "refused"} -> "error"
               [] o = "unparsed" -> "unparsed"

(* After an attempt: stop_after_attempt, and reraise after the last.       *)
Attempted(t, result) ==
    LET last == tries[call] + 1 = MaxAttempts
        Goto(l) == /\ clock' = t /\ pc' = l
                   /\ UNCHANGED <<call, begun, cut>>
    IN  \/ result = "ok" /\ Goto("delivered")
        \/ result # "ok" /\ ~last /\ Goto("wait")
        \/ result = "error" /\ last /\ Goto("failed")
        \/ result \notin {"ok", "error"} /\ last /\ Escape(t, result)

(* _post_once                                                              *)
Post ==
    /\ pc = "post"
    /\ tries' = [tries EXCEPT ![call] = @ + 1]
    /\ \E d \in Durations, o \in Outcomes :
         /\ accepted' = IF o \in {"answered", "unanswered"}
                        THEN [accepted EXCEPT ![call] = @ + 1] ELSE accepted
         /\ \/ Strikes(clock + d) /\ limit' = TRUE /\ Attempted(Soft, "limit")
            \/ Kills(clock + d) /\ Killed
            \/ /\ ~Strikes(clock + d) /\ ~Kills(clock + d)
               /\ Attempted(clock + d, Result(o))
               /\ UNCHANGED limit
    /\ posted' = [posted EXCEPT ![call] = @ + (clock' - clock)]
    /\ UNCHANGED <<valid, hook>>

(* wait_exponential                                                        *)
WaitMinute(k) == 60                    \* mutant: the longest wait every time
Wait(k) == Max({2, Min({60, 2^(k - 1)})})

Sleep ==
    /\ pc = "wait"
    /\ LET end == clock + Wait(tries[call])
       IN  \/ Strikes(end) /\ limit' = TRUE /\ Escape(Soft, "limit")
           \/ Kills(end) /\ Killed
           \/ /\ ~Strikes(end) /\ ~Kills(end)
              /\ clock' = end
              /\ pc' = "post"
              /\ UNCHANGED <<limit, call, begun, cut>>
    /\ UNCHANGED <<valid, hook, tries, posted, accepted>>

TaskRows == {c \in Calls : hook[c].status = "pending"}  \* mutant: every open row of the task
Row == {call}

(* _finalize, and the run is over.                                         *)
Finalize ==
    /\ pc \in {"delivered", "failed"}
    /\ Commit([c \in Calls |-> IF c \in Row THEN [status |-> pc, attempts |-> tries[call]]
                                            ELSE hook[c]],
              "over")
    /\ UNCHANGED <<valid, tries, posted, accepted>>

Next == Complete \/ Fail \/ Insert \/ Post \/ Sleep \/ Finalize

(* Time passes: the generation ends or is cut off, an attempt, a wait or a *)
(* commit lasts as long as it may, and no longer than a limit allows.      *)
Spec == Init /\ [][Next]_vars /\ WF_vars(Next)
----------------------------------------------------------------------------
(* Every variable keeps its type, and no run outlives the hard limit.      *)
TypeOK ==
    /\ clock \in 0..Hard
    /\ limit \in BOOLEAN /\ valid \in BOOLEAN
    /\ call \in Calls \cup {None}
    /\ pc \in {"idle", "insert", "post", "wait", "delivered", "failed", "over", "killed"}
    /\ hook \in [Calls -> [status : {None, "pending", "delivered", "failed"},
                           attempts : 0..MaxAttempts]]
    /\ tries \in [Calls -> 0..MaxAttempts]
    /\ begun \in [Calls -> 0..Hard]
    /\ posted \in [Calls -> Nat]
    /\ accepted \in [Calls -> 0..MaxAttempts]
    /\ cut \in [Calls -> {None, "limit", "error", "unparsed"}]

(* The rows of webhooks can be trusted, whatever was cut off meanwhile:    *)
(* delivered means that the source accepted the call, failed that every    *)
(* attempt was used, and a row left pending that its call was ended by an  *)
(* exception or by the hard limit.                                         *)
HookHonest ==
    \A c \in Calls :
        /\ hook[c].status = "delivered" => accepted[c] > 0
        /\ hook[c].status = "failed" => hook[c].attempts = MaxAttempts
        /\ hook[c].status \in {"delivered", "failed"} => hook[c].attempts = tries[c]
        /\ hook[c].status = "pending" =>
              cut[c] # None \/ (call = c /\ pc \notin {"over", "killed"})

(* A call that a limit cuts off began too late or spent too long in its    *)
(* POSTs: the waits between the attempts, 16 seconds with five of them,    *)
(* and the two commits take no more than their share of the time before    *)
(* the limit.                                                              *)
Pause(k) == IF k <= 6 THEN <<2, 2, 4, 8, 16, 32>>[k] ELSE 60
Pauses == SumFunctionOnSet([k \in 1..(MaxAttempts - 1) |-> Pause(k)], 1..(MaxAttempts - 1))
Undisturbed ==
    \A c \in Calls :
        cut[c] = "limit" => begun[c] + posted[c] + Pauses + 2 * Max(Saving) >= Soft

(* Whatever is cut off, the run keeps what module Reporting promises of    *)
(* its two reports, and comes to its end.                                  *)
Promise == INSTANCE Reporting
             WITH current <- IF pc \in {"over", "killed"} THEN "over" ELSE call,
                  row <- [c \in Calls |-> hook[c].status],
                  told <- [c \in Calls |-> accepted[c] > 0]
ReportsKept == Promise!Spec
=============================================================================
