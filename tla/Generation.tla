----------------------------- MODULE Generation -----------------------------
(***************************************************************************)
(* The life of a generation task, from POST /generate to the callback:     *)
(* the API handler (app/services/task_service.py), the Celery broker and   *)
(* the workers (app/queues/tasks.py), with the faults the deployment is    *)
(* built for -- lost workers, time limits, redelivery, failing database    *)
(* calls.  One step is one committed transaction or one external call, so  *)
(* that handlers and workers interleave between commits.                   *)
(*                                                                         *)
(* The billing calls are atomic here; module Billing shows that they are,  *)
(* whatever their statements interleave with.  A POST creates at most one  *)
(* task, so a task is named by the POST that created it.                   *)
(***************************************************************************)
EXTENDS Integers, Sequences, FiniteSets, SequencesExt, Functions

CONSTANTS Posts,         \* POST /generate requests, and the tasks they create
          Workers,       \* Celery worker processes (prefetch 1: one task each)
          Keys,          \* API keys
          KeyOf,         \* the key each request is authenticated with
          ReqOf,         \* the request_id of each request, or NoReq
          Price,         \* what pricing.price_for returns for it
          Callbacks,     \* the requests with a callback_url
          Credits,       \* the balance of each key when the requests arrive
          MaxRetries,    \* TASK_MAX_RETRIES
          Faults,        \* the kinds of fault that may happen
          MaxFaults,     \* bound: how many of them
          NoReq,         \* no request_id in the body
          NoMsg          \* a worker with nothing to do

FaultKinds == {"api", "crash", "redeliver", "soft", "hard", "db", "escape",
               "swallow", "callback"}

ASSUME GenerationAssumption ==
    /\ KeyOf \in [Posts -> Keys]
    /\ Price \in [Posts -> Nat \ {0}]
    /\ Credits \in [Keys -> Nat]
    /\ Callbacks \subseteq Posts
    /\ IsFiniteSet(Posts) /\ IsFiniteSet(Workers)
    /\ MaxRetries \in Nat
    /\ MaxFaults \in Nat
    /\ Faults \subseteq FaultKinds

Messages == [task : Posts, retries : 0..MaxRetries]

OtherAnswers == {"none", "rejected", "insufficient_balance", "error"}

ASSUME NameAssumption == NoMsg \notin Messages /\ Posts \cap OtherAnswers = {}

VARIABLES apc,           \* where the handler of each POST is
          answer,        \* what it answered: a task, or why there is none
          status,        \* Task.status
          balance,       \* ApiKey.balance_credits
          charge,        \* the task's hold and refund rows
          audited,       \* the task's adjust row
          results,       \* how many Generation rows the task has
          delivered,     \* the callbacks the source received, in order
          queue,         \* how many copies of each message the broker holds
          wpc,           \* where each worker is in process_generation
          wmsg,          \* the message it works on
          wretry,        \* whether the error it handles may be retried
          wown,          \* whether its delivery is still its own to acknowledge
          runs,          \* history: how many runs of the task got as far as its
                         \* generation, the calls cut short by a fault included
          returned,      \* history: how often the broker gave out a message of the
                         \* task again, after a lost worker or a timeout
          faults,        \* how many faults have struck each task
          dropped        \* history: the steps of each task a fault dropped for good

money == <<balance, charge>>
db == <<status, money, audited, results>>
api == <<apc, answer>>
worker == <<wpc, wmsg, wretry, wown>>
struck == <<returned, faults, dropped>>
past == <<runs, struck>>
vars == <<api, db, delivered, queue, worker, past>>

Init == /\ apc = [p \in Posts |-> "new"]
        /\ answer = [p \in Posts |-> "none"]
        /\ status = [t \in Posts |-> "absent"]
        /\ balance = Credits
        /\ charge = [t \in Posts |-> "none"]
        /\ audited = [t \in Posts |-> FALSE]
        /\ results = [t \in Posts |-> 0]
        /\ delivered = [t \in Posts |-> <<>>]
        /\ queue = [m \in Messages |-> 0]
        /\ wpc = [w \in Workers |-> "idle"]
        /\ wmsg = [w \in Workers |-> NoMsg]
        /\ wretry = [w \in Workers |-> FALSE]
        /\ wown = [w \in Workers |-> FALSE]
        /\ runs = [t \in Posts |-> 0]
        /\ returned = [t \in Posts |-> 0]
        /\ faults = [t \in Posts |-> 0]
        /\ dropped = [t \in Posts |-> {}]

Fault(kind, t) ==
    /\ kind \in Faults
    /\ SumFunction(faults) < MaxFaults
    /\ faults' = [faults EXCEPT ![t] = @ + 1]

Drops(t, steps) == dropped' = [dropped EXCEPT ![t] = @ \cup steps]

Publish(m) == queue' = [queue EXCEPT ![m] = @ + 1]

----------------------------------------------------------------------------
(* POST /generate: create_task                                             *)

Answer(p, a) == /\ apc' = [apc EXCEPT ![p] = "done"]
                /\ answer' = [answer EXCEPT ![p] = a]

(* get_by_request_id: the tasks this POST may be a repetition of.          *)
SameRequest(p) ==
    {t \in Posts : /\ ReqOf[p] # NoReq /\ ReqOf[t] = ReqOf[p]
                   /\ KeyOf[t] = KeyOf[p] /\ status[t] # "absent"}

ReturnExisting(p) ==
    /\ apc[p] = "new"
    /\ \E t \in SameRequest(p) : Answer(p, t)
    /\ UNCHANGED <<db, delivered, queue, worker, past>>

NoneExisting(p) ==
    /\ apc[p] = "new"
    /\ SameRequest(p) = {}
    /\ apc' = [apc EXCEPT ![p] = "checked"]
    /\ UNCHANGED <<answer, db, delivered, queue, worker, past>>

(* An unknown mode or one of another type (before the lookup), or no price *)
(* (after it): the request is refused and no task exists.                  *)
Reject(p) ==
    /\ apc[p] \in {"new", "checked"}
    /\ Answer(p, "rejected")
    /\ UNCHANGED <<db, delivered, queue, worker, past>>

(* task_repo.create commits the task before anything is charged.           *)
CreateTask(p) ==
    /\ apc[p] = "checked"
    /\ status' = [status EXCEPT ![p] = "queued"]
    /\ apc' = [apc EXCEPT ![p] = "created"]
    /\ UNCHANGED <<answer, money, audited, results, delivered, queue, worker, past>>

Reserve(p) ==
    /\ apc[p] = "created"
    /\ balance[KeyOf[p]] >= Price[p]
    /\ balance' = [balance EXCEPT ![KeyOf[p]] = @ - Price[p]]
    /\ charge' = [charge EXCEPT ![p] = "held"]
    /\ apc' = [apc EXCEPT ![p] = "reserved"]
    /\ UNCHANGED <<answer, status, audited, results, delivered, queue, worker, past>>

(* 402: the task stays behind as failed and is never queued.               *)
Refuse(p) ==
    /\ apc[p] = "created"
    /\ balance[KeyOf[p]] < Price[p]
    /\ status' = [status EXCEPT ![p] = "failed"]
    /\ Answer(p, "insufficient_balance")
    /\ UNCHANGED <<money, audited, results, delivered, queue, worker, past>>

ChargedOrNot(p) == apc[p] \in {"created", "reserved"}  \* mutant: queued before it is paid
Charged(p) == apc[p] = "reserved"

Enqueue(p) ==
    /\ Charged(p)
    /\ Publish([task |-> p, retries |-> 0])
    /\ Answer(p, p)
    /\ UNCHANGED <<db, delivered, worker, past>>

(* The API process dies, or a database or broker call fails: what was      *)
(* committed or published stays, nothing undoes or completes it.           *)
HandlerFails(p) ==
    /\ apc[p] \in {"checked", "created", "reserved"}
    /\ Fault("api", p)
    /\ Answer(p, "error")
    /\ \/ UNCHANGED queue /\ Drops(p, {"run"})
       \/ /\ apc[p] = "reserved" /\ Publish([task |-> p, retries |-> 0])
          /\ UNCHANGED dropped
    /\ UNCHANGED <<db, delivered, worker, runs, returned>>

Handle(p) == \/ ReturnExisting(p) \/ NoneExisting(p) \/ Reject(p) \/ CreateTask(p)
             \/ Reserve(p) \/ Refuse(p) \/ Enqueue(p)

----------------------------------------------------------------------------
(* The broker and a worker.                                                *)

Task(w) == wmsg[w].task
Goto(w, l) == wpc' = [wpc EXCEPT ![w] = l]
Step(w, from, to) == wpc[w] = from /\ Goto(w, to) /\ UNCHANGED <<wmsg, wown>>

HoldsFirst(m) == queue[m] > 0 /\ m.retries = 0  \* mutant: retries go to a queue
                                                \* nobody consumes
Holds(m) == queue[m] > 0

(* A delivered message stays unacknowledged until the task function ends   *)
(* (acks_late).                                                            *)
Deliver(w) ==
    /\ wpc[w] = "idle"
    /\ \E m \in Messages :
          /\ Holds(m)
          /\ queue' = [queue EXCEPT ![m] = @ - 1]
          /\ wmsg' = [wmsg EXCEPT ![w] = m]
    /\ wown' = [wown EXCEPT ![w] = TRUE]
    /\ Goto(w, "loaded")
    /\ UNCHANGED <<api, db, delivered, wretry, past>>

Release(w) == /\ Goto(w, "idle")
              /\ wmsg' = [wmsg EXCEPT ![w] = NoMsg]
              /\ wretry' = [wretry EXCEPT ![w] = FALSE]
              /\ wown' = [wown EXCEPT ![w] = FALSE]

Ack(w) ==
    /\ wpc[w] = "finished"
    /\ Release(w)
    /\ UNCHANGED <<api, db, delivered, queue, past>>

(* process_generation does not look at the status it overwrites.  The call *)
(* of the provider counts from here, so that one that is cut short counts. *)
MarkProcessing(w) ==
    /\ Step(w, "loaded", "generating")
    /\ status' = [status EXCEPT ![Task(w)] = "processing"]
    /\ runs' = [runs EXCEPT ![Task(w)] = @ + 1]
    /\ UNCHANGED <<api, money, audited, results, delivered, queue, wretry, struck>>

(* The safety check, the mode, the prompt, provider.generate and the       *)
(* storage: they succeed, or raise an error that may be retried or not     *)
(* (SafetyBlocked and ValidationAppError may not).                         *)
Generate(w) ==
    /\ \/ Step(w, "generating", "saved") /\ UNCHANGED wretry
       \/ /\ Step(w, "generating", "failing")
          /\ \E again \in BOOLEAN : wretry' = [wretry EXCEPT ![w] = again]
    /\ UNCHANGED <<api, db, delivered, queue, past>>

WithoutResult(t) == results   \* mutant: the Generation row is not committed
WithResult(t) == [results EXCEPT ![t] = @ + 1]

RecordGeneration(w) ==
    /\ Step(w, "saved", "recorded")
    /\ results' = WithResult(Task(w))
    /\ UNCHANGED <<api, status, money, audited, delivered, queue, wretry, past>>

MarkCompleted(w) ==
    /\ Step(w, "recorded", "completed")
    /\ status' = [status EXCEPT ![Task(w)] = "completed"]
    /\ UNCHANGED <<api, money, audited, results, delivered, queue, wretry, past>>

(* commit_charge_audit                                                     *)
Audit(w) ==
    /\ Step(w, "completed", "audited")
    /\ audited' = [audited EXCEPT ![Task(w)] = @ \/ charge[Task(w)] # "none"]
    /\ UNCHANGED <<api, status, money, results, delivered, queue, wretry, past>>

Send(t, outcome) ==
    delivered' = IF t \in Callbacks THEN [delivered EXCEPT ![t] = Append(@, outcome)]
                                    ELSE delivered

(* send_callback: delivered, or given up after CALLBACK_MAX_RETRIES.       *)
Callback(w, from, outcome) ==
    /\ Step(w, from, "finished")
    /\ Send(Task(w), outcome)
    /\ UNCHANGED <<api, db, queue, wretry, past>>

CallbackLost(w, from) ==
    /\ Step(w, from, "finished")
    /\ Task(w) \in Callbacks
    /\ Fault("callback", Task(w)) /\ Drops(Task(w), {"callback"})
    /\ UNCHANGED <<api, db, delivered, queue, wretry, runs, returned>>

SuccessCallback(w) == Callback(w, "audited", "completed")

----------------------------------------------------------------------------
(* _fail_or_retry and _dead_letter                                         *)

MayRetry(w) == wretry[w] /\ wmsg[w].retries < MaxRetries

SameAttempt(m) == m           \* mutant: the new message does not count the attempt
NextAttempt(m) == [m EXCEPT !.retries = @ + 1]

RetryAsFailed(w) ==           \* mutant: the task is marked failed before each retry
    /\ MayRetry(w) /\ Step(w, "failing", "finished")
    /\ status' = [status EXCEPT ![Task(w)] = "failed"]
    /\ Publish(NextAttempt(wmsg[w]))
    /\ UNCHANGED <<api, money, audited, results, delivered, wretry, past>>

(* self.retry publishes a new message, then the old one is acknowledged.   *)
Retry(w) ==
    /\ MayRetry(w) /\ Step(w, "failing", "finished")
    /\ Publish(NextAttempt(wmsg[w]))
    /\ UNCHANGED <<api, db, delivered, wretry, past>>

DeadLetter == "dead_letter"   \* mutant: a status the API does not know
Failed == "failed"

MarkFailed(w) ==
    /\ ~MayRetry(w) /\ Step(w, "failing", "failed")
    /\ status' = [status EXCEPT ![Task(w)] = Failed]
    /\ UNCHANGED <<api, money, audited, results, delivered, queue, wretry, past>>

NotRefundable(t) == FALSE     \* mutant: the worker runs with BILLING_ENABLED off
Chargeable(t) == TRUE         \* mutant: neither ledger_exists nor the constraint
Refundable(t) == charge[t] = "held"

(* billing.refund: once, and only of what was charged.                     *)
Refund(w) ==
    /\ Step(w, "failed", "refunded")
    /\ IF Refundable(Task(w))
       THEN /\ charge' = [charge EXCEPT ![Task(w)] = "refunded"]
            /\ balance' = [balance EXCEPT ![KeyOf[Task(w)]] = @ + Price[Task(w)]]
       ELSE UNCHANGED money
    /\ UNCHANGED <<api, status, audited, results, delivered, queue, wretry, past>>

FailedCallback(w) == Callback(w, "refunded", "failed")

----------------------------------------------------------------------------
(* Faults of a worker.                                                     *)

Return(w) == /\ Publish(wmsg[w])
             /\ returned' = [returned EXCEPT ![Task(w)] = @ + 1]

Forgets(w) ==                 \* mutant: acknowledged on delivery, not after the run
    UNCHANGED <<queue, returned>>
PutsBack(w) == IF wown[w] THEN Return(w) ELSE UNCHANGED <<queue, returned>>

(* The process is lost; reject_on_worker_lost puts the message back, unless *)
(* the broker has given it to another worker: then the run just ends.      *)
Crash(w) ==
    /\ wpc[w] # "idle"
    /\ Fault("crash", Task(w))
    /\ PutsBack(w)
    /\ IF wown[w] THEN UNCHANGED dropped ELSE Drops(Task(w), {"run"})
    /\ Release(w)
    /\ UNCHANGED <<api, db, delivered, runs>>

(* The visibility timeout passes: the broker gives the message to another  *)
(* worker while this one goes on.                                          *)
Redeliver(w) ==
    /\ wpc[w] # "idle" /\ wown[w]
    /\ Fault("redeliver", Task(w))
    /\ Return(w)
    /\ wown' = [wown EXCEPT ![w] = FALSE]
    /\ UNCHANGED <<api, db, delivered, wpc, wmsg, wretry, runs, dropped>>

(* The try block of process_generation, where an exception is handled.     *)
Guarded == {"loaded", "generating", "saved", "recorded", "completed", "audited"}

(* An exception interrupts the try block; during the success callback, it  *)
(* may come after the source has received it.                              *)
Interrupt(w, again) ==
    /\ \E from \in Guarded : Step(w, from, "failing")
    /\ wretry' = [wretry EXCEPT ![w] = again]
    /\ \/ UNCHANGED delivered
       \/ wpc[w] = "audited" /\ Send(Task(w), "completed")
    /\ UNCHANGED <<api, db, queue, runs, returned, dropped>>

(* SoftTimeLimitExceeded is not retried; any other exception, of the       *)
(* database or of send_callback, is.                                       *)
SoftLimit(w) == Interrupt(w, FALSE) /\ Fault("soft", Task(w))
Raise(w) == Interrupt(w, TRUE) /\ Fault("db", Task(w))

(* An error of the audit or of the refund is logged and forgotten; that of *)
(* the refund may leave a session that refuses the next statement, which   *)
(* asks for the callback's URL.                                            *)
Swallow(w) ==
    /\ wpc[w] \in {"completed", "failed"} /\ Fault("swallow", Task(w))
    /\ \/ Step(w, "completed", "audited") /\ UNCHANGED <<wretry, dropped>>
       \/ Step(w, "failed", "refunded") /\ Drops(Task(w), {"refund"}) /\ UNCHANGED wretry
       \/ wpc[w] = "failed" /\ Release(w) /\ Drops(Task(w), {"refund", "callback"})
    /\ UNCHANGED <<api, db, delivered, queue, runs, returned>>

(* The run ends where it is, and its message counts as acknowledged.       *)
Abandon(w, kind) ==
    /\ Fault(kind, Task(w)) /\ Drops(Task(w), {"run"})
    /\ Release(w)
    /\ UNCHANGED <<api, db, delivered, queue, runs, returned>>

(* The hard time limit kills a run wherever it is.                         *)
HardLimit(w) == wpc[w] \notin {"idle", "finished"} /\ Abandon(w, "hard")

(* An exception outside the try block -- where the task is loaded, or in   *)
(* the handlers themselves: the first statement of _fail_or_retry, the     *)
(* commit of the dead-letter event, send_callback -- leaves the task       *)
(* function.                                                               *)
Escape(w) ==
    wpc[w] \in {"loaded", "failing", "failed", "refunded"} /\ Abandon(w, "escape")

----------------------------------------------------------------------------
Work(w) ==
    \/ MarkProcessing(w) \/ Generate(w) \/ RecordGeneration(w) \/ MarkCompleted(w)
    \/ Audit(w) \/ SuccessCallback(w) \/ Retry(w) \/ MarkFailed(w) \/ Refund(w)
    \/ FailedCallback(w) \/ Ack(w)

WorkerFault(w) ==
    \/ Crash(w) \/ Redeliver(w) \/ SoftLimit(w) \/ Raise(w) \/ Swallow(w)
    \/ HardLimit(w) \/ Escape(w)
    \/ CallbackLost(w, "audited") \/ CallbackLost(w, "refunded")

Next == \/ \E p \in Posts : Handle(p) \/ HandlerFails(p)
        \/ \E w \in Workers : Deliver(w) \/ Work(w) \/ WorkerFault(w)

Spec == Init /\ [][Next]_vars

(* Handlers run to their end; a worker that has a task goes on with it     *)
(* (the hard time limit bounds every run), and an idle worker takes what   *)
(* is queued.                                                              *)
FairSpec == /\ Spec
            /\ \A p \in Posts : WF_vars(Handle(p))
            /\ \A w \in Workers : WF_vars(Deliver(w)) /\ WF_vars(Work(w))
----------------------------------------------------------------------------
(* Every variable keeps its type.                                          *)
TypeOK ==
    /\ apc \in [Posts -> {"new", "checked", "created", "reserved", "done"}]
    /\ answer \in [Posts -> Posts \cup OtherAnswers]
    /\ status \in [Posts -> {"absent", "queued", "processing", "completed", "failed"}]
    /\ balance \in [Keys -> Int]
    /\ charge \in [Posts -> {"none", "held", "refunded"}]
    /\ audited \in [Posts -> BOOLEAN]
    /\ results \in [Posts -> Nat]
    /\ delivered \in [Posts -> Seq({"completed", "failed"})]
    /\ queue \in [Messages -> Nat]
    /\ wpc \in [Workers -> Guarded \cup {"idle", "failing", "failed", "refunded", "finished"}]
    /\ wmsg \in [Workers -> Messages \cup {NoMsg}]
    /\ wretry \in [Workers -> BOOLEAN]
    /\ wown \in [Workers -> BOOLEAN]
    /\ runs \in [Posts -> Nat] /\ returned \in [Posts -> Nat] /\ faults \in [Posts -> Nat]
    /\ dropped \in [Posts -> SUBSET {"run", "refund", "callback"}]

Queued(t) == \E r \in 0..MaxRetries : queue[[task |-> t, retries |-> r]] > 0
Running(t) == \E w \in Workers : wpc[w] # "idle" /\ wmsg[w].task = t

(* The source was given the task, and the service is done with it: nothing *)
(* will happen to it any more.                                             *)
Accepted(t) == \E p \in Posts : answer[p] = t
AtRest(t) == Accepted(t) /\ apc[t] = "done" /\ ~Queued(t) /\ ~Running(t)

(* No work without payment: a task the broker or a worker has, or that has *)
(* a result, has been charged, whichever handler or worker died meanwhile; *)
(* a request refused for lack of credits is never worked on.               *)
PaidBeforeWork ==
    \A t \in Posts : Queued(t) \/ Running(t) \/ results[t] > 0 => charge[t] # "none"

(* Credits are neither lost nor made: a key has what it started with, less *)
(* the price of each task charged to it and not given back.                *)
Standing(k) == {t \in Posts : KeyOf[t] = k /\ charge[t] = "held"}
MoneyMatches ==
    \A k \in Keys :
        /\ balance[k] >= 0
        /\ balance[k] = Credits[k] - SumFunctionOnSet(Price, Standing(k))

(* Retries are bounded: a message the handler has queued, or the broker    *)
(* given out again, is good for one call of the provider and for           *)
(* TASK_MAX_RETRIES more, calls cut short included; no other fault -- a    *)
(* limit, an error of the database, a callback that fails -- adds to them. *)
AttemptsBounded == \A t \in Posts : runs[t] <= (MaxRetries + 1) * (1 + returned[t])

(* The source is never told of a result that was not recorded, and no      *)
(* charge is recorded as final without one.                                *)
CallbackBacked ==
    \A t \in Posts : "completed" \in ToSet(delivered[t]) \/ audited[t] => results[t] > 0

(* The contract with the source, for a task that only its generation has   *)
(* failed, whatever faults strike others: at rest it has either one        *)
(* result, one completed callback and a charge recorded as final, or none, *)
(* one failed callback and its credits back.  The third case is a task     *)
(* that was refused for lack of credits after a repetition of its request  *)
(* had been answered with it.                                              *)
Told(t, outcome) == delivered[t] = IF t \in Callbacks THEN <<outcome>> ELSE <<>>
Settled ==
    \A t \in Posts : faults[t] = 0 /\ AtRest(t) =>
        \/ /\ status[t] = "completed" /\ charge[t] = "held" /\ audited[t]
           /\ results[t] = 1 /\ Told(t, "completed")
        \/ /\ status[t] = "failed" /\ charge[t] = "refunded" /\ ~audited[t]
           /\ results[t] = 0 /\ Told(t, "failed")
        \/ /\ status[t] = "failed" /\ charge[t] = "none" /\ runs[t] = 0
           /\ delivered[t] = <<>> /\ answer[t] = "insufficient_balance"

(* What GET /tasks has once shown as the end of a task stays its end,      *)
(* unless a fault has struck this task.                                    *)
EndIsFinal ==
    [][\A t \in Posts : faults[t] = 0 /\ status[t] \in {"completed", "failed"}
          => status'[t] = status[t]]_vars

(* Of all faults only those that end a run leave a task half done: a       *)
(* handler that fails before it has queued the task, a run that ends while *)
(* its message is acknowledged or is another's.  In spite of lost workers, *)
(* redelivery, the soft limit and failing statements, any other task at    *)
(* rest has ended, with its result or with its credits back, and the       *)
(* source has been told of the end it shows (possibly of an earlier one,   *)
(* too); a lost callback or a refund that failed takes nothing but itself. *)
Recovered ==
    \A t \in Posts : AtRest(t) /\ "run" \notin dropped[t] =>
        /\ status[t] \in {"completed", "failed"}
        /\ status[t] = "completed" => results[t] > 0
        /\ status[t] = "failed" /\ "refund" \notin dropped[t] => charge[t] # "held"
        /\ t \in Callbacks /\ charge[t] # "none" /\ "callback" \notin dropped[t] =>
              status[t] \in ToSet(delivered[t])

(* Every task the source was given comes to rest.                          *)
AcceptedTasksEnd == \A t \in Posts : Accepted(t) ~> AtRest(t)

(* What the documentation says and the code does not keep:                 *)
(* billing.py:3-5 -- a charge either stands, with its audit row, or is     *)
(* given back.                                                             *)
StandsOrRefunded ==
    \A t \in Posts : ~(charge[t] = "refunded" /\ (audited[t] \/ status[t] = "completed"))

(* VIDEO_API_INTEGRATION.md:207 -- a repeated request_id is not charged    *)
(* twice.                                                                  *)
RepeatNotCharged ==
    \A p, q \in Posts :
        p # q /\ ReqOf[p] # NoReq /\ ReqOf[p] = ReqOf[q] /\ KeyOf[p] = KeyOf[q]
            => ~(charge[p] = "held" /\ charge[q] = "held")
=============================================================================
