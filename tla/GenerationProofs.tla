--------------------------- MODULE GenerationProofs ---------------------------
(***************************************************************************)
(* Proofs about Generation, for any requests, workers, prices and faults.  *)
(***************************************************************************)
EXTENDS Generation, Sums, TLAPS

(* A worker that is not idle has a message.                                *)
HasMessage == \A w \in Workers : wpc[w] # "idle" => wmsg[w] \in Messages

TypeInv == TypeOK /\ HasMessage

----------------------------------------------------------------------------
(* Publishing adds a copy of a message.                                    *)
LEMMA PublishType ==
  ASSUME TypeInv, NEW m \in Messages, Publish(m)
  PROVE  queue' \in [Messages -> Nat]
BY DEF TypeInv, TypeOK, Publish

(* Giving a message out again adds a copy of it.                           *)
LEMMA ReturnType ==
  ASSUME TypeInv, NEW w \in Workers, wmsg[w] \in Messages, Task(w) \in Posts, Return(w)
  PROVE  queue' \in [Messages -> Nat] /\ returned' \in [Posts -> Nat]
BY PublishType DEF TypeInv, TypeOK, Return

(* A callback adds an outcome to those delivered.                          *)
LEMMA SendType ==
  ASSUME TypeInv, NEW t \in Posts, NEW o \in {"completed", "failed"}, Send(t, o)
  PROVE  delivered' \in [Posts -> Seq({"completed", "failed"})]
<1>1. Append(delivered[t], o) \in Seq({"completed", "failed"})
  BY DEF TypeInv, TypeOK
<1> QED BY <1>1 DEF TypeInv, TypeOK, Send

Places == Guarded \cup {"idle", "failing", "failed", "refunded", "finished"}

(* A step of a worker keeps its message, which names a task.               *)
LEMMA StepType ==
  ASSUME TypeInv, NEW w \in Workers, NEW from, from # "idle", NEW to \in Places,
         Step(w, from, to)
  PROVE  /\ wpc' \in [Workers -> Places]
         /\ wmsg' \in [Workers -> Messages \cup {NoMsg}]
         /\ wown' \in [Workers -> BOOLEAN]
         /\ HasMessage'
         /\ wmsg[w] \in Messages /\ Task(w) \in Posts
<1>1. wpc' \in [Workers -> Places] /\ HasMessage' /\ wmsg[w] \in Messages
  BY DEF TypeInv, TypeOK, HasMessage, Step, Goto, Places
<1>2. Task(w) \in Posts
  BY <1>1 DEF Task, Messages
<1> QED BY <1>1, <1>2 DEF TypeInv, TypeOK, Step

(* A worker that is released has no message.                               *)
LEMMA ReleaseType ==
  ASSUME TypeInv, NEW w \in Workers, Release(w)
  PROVE  /\ wpc' \in [Workers -> Places]
         /\ wmsg' \in [Workers -> Messages \cup {NoMsg}]
         /\ wretry' \in [Workers -> BOOLEAN]
         /\ wown' \in [Workers -> BOOLEAN]
         /\ HasMessage'
BY DEF TypeInv, TypeOK, HasMessage, Release, Goto, Places

(* A fault is counted.                                                     *)
LEMMA FaultType ==
  ASSUME TypeInv, NEW kind, NEW t \in Posts, Fault(kind, t)
  PROVE  faults' \in [Posts -> Nat]
<1>1. faults' = [faults EXCEPT ![t] = @ + 1]
  BY DEF Fault
<1> QED BY <1>1 DEF TypeInv, TypeOK

(* What a fault drops is a set of steps.                                   *)
LEMMA DropsType ==
  ASSUME TypeInv, NEW t \in Posts, NEW steps \in SUBSET {"run", "refund", "callback"},
         Drops(t, steps)
  PROVE  dropped' \in [Posts -> SUBSET {"run", "refund", "callback"}]
BY DEF TypeInv, TypeOK, Drops

(* The task of a message, and the messages of a retry and of a request.    *)
LEMMA MessageFields ==
  /\ \A m \in Messages : m.task \in Posts /\ m.retries \in 0..MaxRetries
  /\ \A t \in Posts : /\ [task |-> t, retries |-> 0] \in Messages
                      /\ \A r \in 0..MaxRetries : [task |-> t, retries |-> r] \in Messages
  /\ \A m \in Messages : m.retries < MaxRetries => NextAttempt(m) \in Messages
BY GenerationAssumption DEF Messages, NextAttempt

(* The first state is well typed.                                          *)
LEMMA TypeInit == Init => TypeInv
BY GenerationAssumption DEF Init, TypeInv, TypeOK, HasMessage, Guarded, OtherAnswers

(* So is what a handler makes of one,                                      *)
LEMMA TypeHandler ==
  ASSUME TypeInv, NEW p \in Posts, Handle(p) \/ HandlerFails(p)
  PROVE  TypeInv'
<1> USE GenerationAssumption
<1>1. CASE ReturnExisting(p)
  <2>1. PICK t \in Posts : Answer(p, t)
    BY <1>1 DEF ReturnExisting, SameRequest
  <2>2. /\ apc' \in [Posts -> {"new", "checked", "created", "reserved", "done"}]
        /\ answer' \in [Posts -> Posts \cup OtherAnswers]
    BY <2>1 DEF Answer, TypeInv, TypeOK
  <2>3. UNCHANGED <<db, delivered, queue, worker, past>>
    BY <1>1 DEF ReturnExisting
  <2> QED BY <2>2, <2>3 DEF TypeInv, TypeOK, HasMessage, db, money, worker, past, struck
<1>2. CASE NoneExisting(p)
  BY <1>2 DEF TypeInv, TypeOK, HasMessage, NoneExisting, db, money, worker, past, struck
<1>3. CASE Reject(p)
  BY <1>3 DEF TypeInv, TypeOK, HasMessage, Reject, Answer, OtherAnswers, db, money,
     worker, past, struck
<1>4. CASE CreateTask(p)
  BY <1>4 DEF TypeInv, TypeOK, HasMessage, CreateTask, money, worker, past, struck
<1>5. CASE Reserve(p)
  <2>1. balance' = [balance EXCEPT ![KeyOf[p]] = @ - Price[p]] /\ KeyOf[p] \in Keys /\ Price[p] \in Int
    BY <1>5 DEF Reserve
  <2>2. balance' \in [Keys -> Int]
    BY <2>1 DEF TypeInv, TypeOK
  <2>3. /\ apc' \in [Posts -> {"new", "checked", "created", "reserved", "done"}]
        /\ charge' \in [Posts -> {"none", "held", "refunded"}]
    BY <1>5 DEF TypeInv, TypeOK, Reserve
  <2> QED BY <1>5, <2>2, <2>3 DEF TypeInv, TypeOK, HasMessage, Reserve, worker, past, struck
<1>6. CASE Refuse(p)
  BY <1>6 DEF TypeInv, TypeOK, HasMessage, Refuse, Answer, OtherAnswers, money, worker,
     past, struck
<1>7. CASE Enqueue(p)
  <2>1. UNCHANGED <<db, delivered, worker, past>>
    BY <1>7 DEF Enqueue
  <2>2. queue' \in [Messages -> Nat]
    BY <1>7, MessageFields DEF Enqueue, Publish, TypeInv, TypeOK
  <2>3. apc' = [apc EXCEPT ![p] = "done"] /\ answer' = [answer EXCEPT ![p] = p]
    BY <1>7 DEF Enqueue, Answer
  <2> QED BY <2>1, <2>2, <2>3 DEF TypeInv, TypeOK, HasMessage, db, money, worker, past, struck
<1>8. CASE HandlerFails(p)
  <2>1. faults' \in [Posts -> Nat]
    BY <1>8, FaultType DEF HandlerFails
  <2>2. queue' \in [Messages -> Nat]
    BY <1>8, PublishType, MessageFields DEF HandlerFails, TypeInv, TypeOK
  <2>3. dropped' \in [Posts -> SUBSET {"run", "refund", "callback"}]
    BY <1>8, FaultType, DropsType DEF HandlerFails, TypeInv, TypeOK
  <2> QED BY <1>8, <2>1, <2>2, <2>3 DEF TypeInv, TypeOK, HasMessage, HandlerFails,
     Answer, OtherAnswers, db, money, worker
<1> QED BY <1>1, <1>2, <1>3, <1>4, <1>5, <1>6, <1>7, <1>8 DEF Handle

(* a worker,                                                               *)
LEMMA TypeWork ==
  ASSUME TypeInv, NEW w \in Workers, Deliver(w) \/ Work(w)
  PROVE  TypeInv'
<1> USE GenerationAssumption DEF Places, Guarded
<1>1. CASE Deliver(w)
  <2>1. PICK m \in Messages : /\ queue[m] > 0 /\ queue' = [queue EXCEPT ![m] = @ - 1]
                              /\ wmsg' = [wmsg EXCEPT ![w] = m]
    BY <1>1 DEF Deliver, Holds
  <2>2. queue' \in [Messages -> Nat]
    BY <2>1 DEF TypeInv, TypeOK
  <2>3. /\ wpc' \in [Workers -> Places] /\ wmsg' \in [Workers -> Messages \cup {NoMsg}]
        /\ HasMessage'
    BY <1>1, <2>1 DEF Deliver, Goto, TypeInv, TypeOK, HasMessage
  <2>4. wown' \in [Workers -> BOOLEAN]
    BY <1>1 DEF Deliver, TypeInv, TypeOK
  <2> QED BY <1>1, <2>2, <2>3, <2>4 DEF Deliver, TypeInv, TypeOK, api, db, money, past, struck
<1>2. CASE MarkProcessing(w)
  <2>1. Step(w, "loaded", "generating")
    BY <1>2 DEF MarkProcessing
  <2>2. runs' \in [Posts -> Nat]
    <3>1. Task(w) \in Posts /\ runs' = [runs EXCEPT ![Task(w)] = @ + 1]
      BY <1>2, <2>1, StepType DEF MarkProcessing
    <3> QED BY <3>1 DEF TypeInv, TypeOK
  <2> QED BY <1>2, <2>1, <2>2, StepType DEF MarkProcessing, TypeInv, TypeOK, api, money, struck
<1>3. CASE Generate(w)
  <2>1. PICK to \in {"saved", "failing"} : Step(w, "generating", to)
    BY <1>3 DEF Generate
  <2>2. /\ wpc' \in [Workers -> Places] /\ wmsg' \in [Workers -> Messages \cup {NoMsg}]
        /\ wown' \in [Workers -> BOOLEAN] /\ HasMessage' /\ Task(w) \in Posts
    BY <2>1, StepType
  <2>3. wretry' \in [Workers -> BOOLEAN]
    BY <1>3 DEF Generate, TypeInv, TypeOK
  <2> QED BY <1>3, <2>2, <2>3 DEF Generate, TypeInv, TypeOK, api, db, money, past, struck
<1>4. CASE RecordGeneration(w)
  <2>1. Step(w, "saved", "recorded")
    BY <1>4 DEF RecordGeneration
  <2>2. /\ wpc' \in [Workers -> Places] /\ wmsg' \in [Workers -> Messages \cup {NoMsg}]
        /\ wown' \in [Workers -> BOOLEAN] /\ HasMessage' /\ Task(w) \in Posts
    BY <2>1, StepType DEF Places
  <2>3. results' \in [Posts -> Nat]
    BY <1>4, <2>2 DEF RecordGeneration, WithResult, TypeInv, TypeOK
  <2>4. UNCHANGED <<api, status, money, audited, delivered, queue, wretry, past>>
    BY <1>4 DEF RecordGeneration
  <2> QED BY <2>2, <2>3, <2>4 DEF TypeInv, TypeOK, api, money, past, struck
<1>5. CASE MarkCompleted(w)
  <2>1. Step(w, "recorded", "completed")
    BY <1>5 DEF MarkCompleted
  <2> QED BY <1>5, <2>1, StepType DEF MarkCompleted, TypeInv, TypeOK, api, money, past, struck
<1>6. CASE Audit(w)
  <2>1. Step(w, "completed", "audited")
    BY <1>6 DEF Audit
  <2>2. audited' \in [Posts -> BOOLEAN]
    BY <1>6 DEF Audit, TypeInv, TypeOK
  <2> QED BY <1>6, <2>1, <2>2, StepType DEF Audit, TypeInv, TypeOK, api, money, past, struck
<1>7. CASE SuccessCallback(w) \/ FailedCallback(w)
  <2>1. PICK from \in {"audited", "refunded"}, o \in {"completed", "failed"} :
            Step(w, from, "finished") /\ Send(Task(w), o)
    BY <1>7 DEF SuccessCallback, FailedCallback, Callback
  <2>2. /\ wpc' \in [Workers -> Places] /\ wmsg' \in [Workers -> Messages \cup {NoMsg}]
        /\ wown' \in [Workers -> BOOLEAN] /\ HasMessage' /\ Task(w) \in Posts
    BY <2>1, StepType
  <2>3. delivered' \in [Posts -> Seq({"completed", "failed"})]
    BY <2>1, <2>2, SendType
  <2> QED BY <1>7, <2>2, <2>3 DEF SuccessCallback, FailedCallback, Callback, TypeInv,
     TypeOK, api, db, money, past, struck
<1>8. CASE Retry(w)
  <2>1. Step(w, "failing", "finished") /\ MayRetry(w) /\ Publish(NextAttempt(wmsg[w]))
    BY <1>8 DEF Retry
  <2>2. wmsg[w] \in Messages
    BY <2>1, StepType
  <2>3. queue' \in [Messages -> Nat]
    BY <2>1, <2>2, MessageFields, PublishType DEF MayRetry
  <2> QED BY <1>8, <2>1, <2>3, StepType DEF Retry, TypeInv, TypeOK, api, db, money, past, struck
<1>9. CASE MarkFailed(w)
  <2>1. Step(w, "failing", "failed")
    BY <1>9 DEF MarkFailed
  <2> QED BY <1>9, <2>1, StepType DEF MarkFailed, Failed, TypeInv, TypeOK, api, money,
     past, struck
<1>10. CASE Refund(w)
  <2>1. Step(w, "failed", "refunded")
    BY <1>10 DEF Refund
  <2>2. Task(w) \in Posts /\ KeyOf[Task(w)] \in Keys /\ Price[Task(w)] \in Int
    BY <2>1, StepType
  <2>3. balance' \in [Keys -> Int] /\ charge' \in [Posts -> {"none", "held", "refunded"}]
    <3>1. CASE Refundable(Task(w))
      <4>1. balance' = [balance EXCEPT ![KeyOf[Task(w)]] = @ + Price[Task(w)]]
        BY <1>10, <3>1 DEF Refund
      <4>2. charge' = [charge EXCEPT ![Task(w)] = "refunded"]
        BY <1>10, <3>1 DEF Refund
      <4>3. balance' \in [Keys -> Int]
        BY <4>1, <2>2 DEF TypeInv, TypeOK
      <4> QED BY <4>2, <4>3, <2>2 DEF TypeInv, TypeOK
    <3>2. CASE ~Refundable(Task(w))
      <4>1. UNCHANGED <<balance, charge>>
        BY <1>10, <3>2 DEF Refund, money
      <4> QED BY <4>1 DEF TypeInv, TypeOK
    <3> QED BY <3>1, <3>2
  <2> QED BY <1>10, <2>1, <2>3, StepType DEF Refund, TypeInv, TypeOK, api, past, struck
<1>11. CASE Ack(w)
  <2>1. Release(w)
    BY <1>11 DEF Ack
  <2> QED BY <1>11, <2>1, ReleaseType DEF Ack, TypeInv, TypeOK, api, db, money, past, struck
<1> QED BY <1>1, <1>2, <1>3, <1>4, <1>5, <1>6, <1>7, <1>8, <1>9, <1>10, <1>11 DEF Work

(* a fault of a worker,                                                    *)
LEMMA TypeFault ==
  ASSUME TypeInv, NEW w \in Workers, WorkerFault(w)
  PROVE  TypeInv'
<1> USE GenerationAssumption DEF Places, Guarded
<1>1. \A l : wpc[w] = l /\ l # "idle" => wmsg[w] \in Messages /\ Task(w) \in Posts
  BY MessageFields DEF TypeInv, HasMessage, Task
<1>2. CASE Crash(w)
  <2>1. wmsg[w] \in Messages /\ Task(w) \in Posts /\ Release(w)
    BY <1>1, <1>2 DEF Crash
  <2>2. queue' \in [Messages -> Nat] /\ returned' \in [Posts -> Nat]
    BY <1>2, <2>1, ReturnType DEF Crash, PutsBack, TypeInv, TypeOK
  <2>3. faults' \in [Posts -> Nat] /\ dropped' \in [Posts -> SUBSET {"run", "refund", "callback"}]
    BY <1>2, <2>1, FaultType, DropsType DEF Crash, TypeInv, TypeOK
  <2> QED BY <1>2, <2>1, <2>2, <2>3, ReleaseType DEF Crash, TypeInv, TypeOK, api, db,
     money
<1>3. CASE Redeliver(w)
  <2>1. wmsg[w] \in Messages /\ Task(w) \in Posts
    BY <1>1, <1>3 DEF Redeliver
  <2>2. queue' \in [Messages -> Nat] /\ returned' \in [Posts -> Nat] /\ faults' \in [Posts -> Nat]
    BY <1>3, <2>1, ReturnType, FaultType DEF Redeliver
  <2>3. wown' \in [Workers -> BOOLEAN]
    BY <1>3 DEF Redeliver, TypeInv, TypeOK
  <2> QED BY <1>3, <2>2, <2>3 DEF Redeliver, TypeInv, TypeOK, HasMessage, api, db, money
<1>4. ASSUME NEW again \in BOOLEAN, NEW kind, Interrupt(w, again), Fault(kind, Task(w))
      PROVE  TypeInv'
  <2>1. PICK from \in Guarded : Step(w, from, "failing")
    BY <1>4 DEF Interrupt
  <2>2. /\ wpc' \in [Workers -> Places] /\ wmsg' \in [Workers -> Messages \cup {NoMsg}]
        /\ wown' \in [Workers -> BOOLEAN] /\ HasMessage' /\ Task(w) \in Posts
    BY <2>1, StepType
  <2>3. delivered' \in [Posts -> Seq({"completed", "failed"})]
    BY <1>4, <2>2, SendType DEF Interrupt, TypeInv, TypeOK
  <2>4. wretry' \in [Workers -> BOOLEAN]
    BY <1>4 DEF Interrupt, TypeInv, TypeOK
  <2>5. faults' \in [Posts -> Nat]
    BY <1>4, <2>2, FaultType
  <2> QED BY <1>4, <2>2, <2>3, <2>4, <2>5 DEF Interrupt, TypeInv, TypeOK, api, db, money
<1>5. CASE Swallow(w)
  <2>1. wmsg[w] \in Messages /\ Task(w) \in Posts
    BY <1>1, <1>5 DEF Swallow
  <2>2. faults' \in [Posts -> Nat] /\ dropped' \in [Posts -> SUBSET {"run", "refund", "callback"}]
    BY <1>5, <2>1, FaultType, DropsType DEF Swallow, TypeInv, TypeOK
  <2>3. /\ wpc' \in [Workers -> Places] /\ wmsg' \in [Workers -> Messages \cup {NoMsg}]
        /\ wown' \in [Workers -> BOOLEAN] /\ wretry' \in [Workers -> BOOLEAN] /\ HasMessage'
    <3>1. CASE Step(w, "completed", "audited") /\ UNCHANGED wretry
      BY <3>1, StepType DEF TypeInv, TypeOK
    <3>2. CASE Step(w, "failed", "refunded") /\ UNCHANGED wretry
      BY <3>2, StepType DEF TypeInv, TypeOK
    <3>3. CASE Release(w)
      BY <3>3, ReleaseType
    <3> QED BY <1>5, <3>1, <3>2, <3>3 DEF Swallow
  <2> QED BY <1>5, <2>2, <2>3 DEF Swallow, TypeInv, TypeOK, api, db, money
<1>6. ASSUME NEW kind, wpc[w] # "idle", Abandon(w, kind)
      PROVE  TypeInv'
  <2>1. Task(w) \in Posts /\ Release(w)
    BY <1>1, <1>6 DEF Abandon
  <2>2. faults' \in [Posts -> Nat] /\ dropped' \in [Posts -> SUBSET {"run", "refund", "callback"}]
    BY <1>6, <2>1, FaultType, DropsType DEF Abandon
  <2> QED BY <1>6, <2>1, <2>2, ReleaseType DEF Abandon, TypeInv, TypeOK, api, db, money
<1>7. ASSUME NEW from \in {"audited", "refunded"}, CallbackLost(w, from) PROVE TypeInv'
  <2>1. Step(w, from, "finished")
    BY <1>7 DEF CallbackLost
  <2>2. faults' \in [Posts -> Nat] /\ dropped' \in [Posts -> SUBSET {"run", "refund", "callback"}]
    BY <1>7, <2>1, StepType, FaultType, DropsType DEF CallbackLost
  <2> QED BY <1>7, <2>1, <2>2, StepType DEF CallbackLost, TypeInv, TypeOK, api, db, money
<1> QED BY <1>2, <1>3, <1>4, <1>5, <1>6, <1>7 DEF WorkerFault, SoftLimit, Raise,
   HardLimit, Escape

(* and any step.                                                           *)
LEMMA TypeNext == TypeInv /\ [Next]_vars => TypeInv'
<1> SUFFICES ASSUME TypeInv, [Next]_vars PROVE TypeInv'
  OBVIOUS
<1>1. CASE UNCHANGED vars
  BY <1>1 DEF TypeInv, TypeOK, HasMessage, vars, api, db, money, worker, past, struck
<1>2. CASE Next
  BY <1>2, TypeHandler, TypeWork, TypeFault DEF Next
<1> QED BY <1>1, <1>2

(* Every variable keeps its type.                                          *)
THEOREM TypeInvHolds == Spec => []TypeInv
BY TypeInit, TypeNext, PTL DEF Spec

(* Every variable keeps its type.                                          *)
THEOREM TypeCorrect == Spec => []TypeOK
<1>1. TypeInv => TypeOK
  BY DEF TypeInv
<1> QED BY <1>1, TypeInvHolds, PTL

(* What the steps of a handler, of a worker and of its faults leave alone. *)
LEMMA HandlerKeeps ==
  \A p \in Posts : Handle(p) \/ HandlerFails(p) =>
     UNCHANGED <<delivered, worker, audited, results, runs, returned>>
BY DEF Handle, HandlerFails, ReturnExisting, NoneExisting, Reject, CreateTask, Reserve,
   Refuse, Enqueue, db, past, struck

(* A worker leaves the handlers and the account of faults alone,           *)
LEMMA WorkKeeps ==
  \A w \in Workers : Deliver(w) \/ Work(w) => UNCHANGED <<api, struck>>
BY DEF Deliver, Work, MarkProcessing, Generate, RecordGeneration, MarkCompleted, Audit,
   Ack, SuccessCallback, FailedCallback, Callback, MarkFailed, Refund, Retry, past, struck

(* a fault the database and the calls of the provider.                     *)
LEMMA FaultKeeps ==
  \A w \in Workers : WorkerFault(w) => UNCHANGED <<api, db, runs>>
BY DEF WorkerFault, Crash, Redeliver, SoftLimit, Raise, Interrupt, Swallow, HardLimit,
   Escape, Abandon, CallbackLost

(* A handler that is done takes no step.                                   *)
LEMMA HandlerOpen ==
  \A p \in Posts : Handle(p) \/ HandlerFails(p) => apc[p] # "done"
BY DEF Handle, HandlerFails, ReturnExisting, NoneExisting, Reject, CreateTask, Reserve,
   Refuse, Enqueue, Charged

(* A task's copies in the broker, and the workers that have it.            *)
Copies(t, r) == queue[[task |-> t, retries |-> r]]
On(w, t) == wpc[w] # "idle" /\ Task(w) = t

(* Nothing of task t changes.                                              *)
SameRow(t) ==
  /\ apc'[t] = apc[t] /\ answer'[t] = answer[t]
  /\ status'[t] = status[t] /\ charge'[t] = charge[t]
  /\ audited'[t] = audited[t] /\ results'[t] = results[t]
  /\ delivered'[t] = delivered[t]
  /\ runs'[t] = runs[t] /\ returned'[t] = returned[t]
  /\ faults'[t] = faults[t] /\ dropped'[t] = dropped[t]
SameCopies(t) == \A r \in 0..MaxRetries : Copies(t, r)' = Copies(t, r)
SameWorkers(t) ==
  \A w \in Workers :
     \/ ~On(w, t) /\ ~On(w, t)'
     \/ /\ On(w, t) /\ On(w, t)' /\ wpc'[w] = wpc[w] /\ wmsg'[w] = wmsg[w]
        /\ wretry'[w] = wretry[w] /\ wown'[w] = wown[w]
Same(t) == SameRow(t) /\ SameCopies(t) /\ SameWorkers(t)

(* A message published leaves those of other tasks as they are.            *)
LEMMA PublishOthers ==
  ASSUME TypeInv, NEW m \in Messages, UNCHANGED queue \/ Publish(m),
         NEW t \in Posts, m.task # t
  PROVE  SameCopies(t)
<1> SUFFICES ASSUME NEW r \in 0..MaxRetries PROVE Copies(t, r)' = Copies(t, r)
  BY DEF SameCopies
<1>1. [task |-> t, retries |-> r].task = t
  OBVIOUS
<1>2. [task |-> t, retries |-> r] \in Messages
  BY DEF Messages
<1> QED BY <1>1, <1>2 DEF Copies, Publish, TypeInv, TypeOK

(* A handler touches its own task only.                                    *)
LEMMA HandlerFrame ==
  ASSUME TypeInv, NEW p \in Posts, NEW t \in Posts, p # t, Handle(p) \/ HandlerFails(p)
  PROVE  Same(t)
<1> USE DEF Same, SameRow, SameCopies, SameWorkers, On, Copies, TypeInv, TypeOK, Answer, Task
<1>1. CASE ReturnExisting(p) \/ NoneExisting(p) \/ Reject(p) \/ CreateTask(p) \/ Reserve(p) \/ Refuse(p)
  BY <1>1 DEF ReturnExisting, NoneExisting, Reject, CreateTask, Reserve, Refuse, db,
     money, worker, past, struck
<1>2. CASE Enqueue(p)
  <2>1. SameCopies(t)
    <3>1. Publish([task |-> p, retries |-> 0])
      BY <1>2 DEF Enqueue
    <3>2. [task |-> p, retries |-> 0] \in Messages /\ [task |-> p, retries |-> 0].task # t
      BY MessageFields
    <3> QED BY ONLY <3>1, <3>2, TypeInv, t \in Posts, PublishOthers
  <2> QED BY <1>2, <2>1 DEF Enqueue, db, money, worker, past, struck
<1>3. CASE HandlerFails(p)
  <2>1. SameCopies(t)
    <3>1. UNCHANGED queue \/ Publish([task |-> p, retries |-> 0])
      BY <1>3 DEF HandlerFails
    <3>2. [task |-> p, retries |-> 0] \in Messages /\ [task |-> p, retries |-> 0].task # t
      BY MessageFields
    <3> QED BY ONLY <3>1, <3>2, TypeInv, t \in Posts, PublishOthers
  <2> QED BY <1>3, <2>1 DEF HandlerFails, Fault, Drops, db, money, worker
<1> QED BY <1>1, <1>2, <1>3 DEF Handle

(* A worker touches the task of its message only,                          *)
LEMMA WorkFrame ==
  ASSUME TypeInv, NEW w \in Workers, NEW t \in Posts, wpc[w] # "idle", Task(w) # t, Work(w)
  PROVE  Same(t)
<1>0. wmsg[w] \in Messages /\ Task(w) \in Posts
  BY MessageFields DEF TypeInv, HasMessage, Task
<1> USE <1>0 DEF Same, SameRow, SameWorkers, On, TypeInv, TypeOK, Step, Goto, Task
<1>1. CASE MarkProcessing(w) \/ Generate(w) \/ RecordGeneration(w) \/ MarkCompleted(w) \/ Audit(w) \/ MarkFailed(w)
  BY <1>1, SMTT(30) DEF MarkProcessing, Generate, RecordGeneration, WithResult,
     MarkCompleted, Audit, MarkFailed, SameCopies, Copies, api, money, db, past, struck
<1>2. CASE SuccessCallback(w) \/ FailedCallback(w)
  <2>1. PICK from, o : Step(w, from, "finished") /\ Send(Task(w), o)
    BY <1>2 DEF SuccessCallback, FailedCallback, Callback
  <2>2. UNCHANGED <<api, db, queue, wretry, past>>
    BY <1>2 DEF SuccessCallback, FailedCallback, Callback
  <2>3. delivered'[t] = delivered[t]
    BY <2>1 DEF Send
  <2>4. SameRow(t) /\ SameCopies(t)
    BY <2>2, <2>3 DEF SameCopies, Copies, api, money, db, past, struck
  <2>5. SameWorkers(t)
    BY <2>1, <2>2
  <2> QED BY <2>4, <2>5
<1>3. CASE Refund(w)
  BY <1>3 DEF Refund, SameCopies, Copies, api, money, past, struck
<1>4. CASE Ack(w)
  BY <1>4 DEF Ack, Release, SameCopies, Copies, api, db, money, past, struck
<1>5. CASE Retry(w)
  <2>1. SameCopies(t)
    <3>1. Publish(NextAttempt(wmsg[w])) /\ wmsg[w].retries < MaxRetries
      BY <1>5 DEF Retry, MayRetry
    <3>2. NextAttempt(wmsg[w]) \in Messages /\ NextAttempt(wmsg[w]).task # t
      BY <3>1, MessageFields DEF NextAttempt, Messages
    <3> QED BY ONLY <3>1, <3>2, TypeInv, t \in Posts, PublishOthers
  <2> QED BY <1>5, <2>1 DEF Retry, api, db, money, past, struck
<1> QED BY <1>1, <1>2, <1>3, <1>4, <1>5 DEF Work

(* also when a fault strikes it,                                           *)
LEMMA FaultFrame ==
  ASSUME TypeInv, NEW w \in Workers, NEW t \in Posts, wpc[w] # "idle", Task(w) # t, WorkerFault(w)
  PROVE  Same(t)
<1>0. wmsg[w] \in Messages /\ Task(w) \in Posts
  BY MessageFields DEF TypeInv, HasMessage, Task
<1> USE <1>0 DEF Same, SameRow, SameWorkers, On, TypeInv, TypeOK, Step, Goto, Task, Fault, Drops
<1>1. CASE Crash(w)
  <2>1. SameCopies(t)
    <3>1. UNCHANGED queue \/ Publish(wmsg[w])
      BY <1>1 DEF Crash, PutsBack, Return
    <3>2. wmsg[w].task # t
      BY DEF Task
    <3> QED BY ONLY <1>0, <3>1, <3>2, TypeInv, t \in Posts, PublishOthers
  <2> QED BY <1>1, <2>1 DEF Crash, PutsBack, Return, Release, api, db, money
<1>2. CASE Redeliver(w)
  <2>1. SameCopies(t)
    <3>1. Publish(wmsg[w])
      BY <1>2 DEF Redeliver, Return
    <3>2. wmsg[w].task # t
      BY DEF Task
    <3> QED BY ONLY <1>0, <3>1, <3>2, TypeInv, t \in Posts, PublishOthers
  <2> QED BY <1>2, <2>1 DEF Redeliver, Return, api, db, money
<1>3. CASE SoftLimit(w) \/ Raise(w)
  <2>1. PICK again \in BOOLEAN :
          /\ Interrupt(w, again)
          /\ faults' = [faults EXCEPT ![Task(w)] = faults[Task(w)] + 1]
    BY <1>3 DEF SoftLimit, Raise
  <2>2. SameCopies(t)
    BY <2>1 DEF Interrupt, SameCopies, Copies
  <2>3. SameRow(t)
    <3>1. delivered'[t] = delivered[t]
      BY <2>1 DEF Interrupt, Send
    <3>2. faults'[t] = faults[t]
      BY <2>1
    <3> QED BY <2>1, <3>1, <3>2 DEF Interrupt, api, db, money
  <2>4. SameWorkers(t)
    BY <2>1 DEF Interrupt
  <2> QED BY <2>2, <2>3, <2>4
<1>4. CASE Swallow(w)
  BY <1>4 DEF Swallow, Release, SameCopies, Copies, api, db, money
<1>5. CASE HardLimit(w) \/ Escape(w)
  BY <1>5 DEF HardLimit, Escape, Abandon, Release, SameCopies, Copies, api, db, money
<1>6. CASE CallbackLost(w, "audited") \/ CallbackLost(w, "refunded")
  BY <1>6 DEF CallbackLost, SameCopies, Copies, api, db, money
<1> QED BY <1>1, <1>2, <1>3, <1>4, <1>5, <1>6 DEF WorkerFault

(* and a delivery the task that is delivered.                              *)
LEMMA DeliverFrame ==
  ASSUME TypeInv, NEW w \in Workers, NEW t \in Posts, Deliver(w), ~On(w, t)'
  PROVE  Same(t)
<1> USE DEF Same, SameRow, SameWorkers, On, TypeInv, TypeOK, Step, Goto, Task
<1>1. SameCopies(t)
  BY MessageFields DEF Deliver, Messages, SameCopies, Copies
<1>2. SameRow(t)
  BY DEF Deliver, api, db, money, past, struck
<1>3. SameWorkers(t)
  <2>1. /\ wpc[w] = "idle" /\ ~On(w, t) /\ wretry' = wretry
        /\ \A v \in Workers \ {w} : /\ wpc'[v] = wpc[v] /\ wmsg'[v] = wmsg[v]
                                    /\ wown'[v] = wown[v]
    BY DEF Deliver
  <2>2. \A v \in Workers \ {w} : On(v, t)' = On(v, t)
    BY <2>1
  <2> QED BY <2>1, <2>2
<1> QED BY <1>1, <1>2, <1>3

(* Every step that changes anything of a task is a step of its handler or  *)
(* of a worker that has it, or gives it to a worker.                       *)
LEMMA Frame ==
  ASSUME TypeInv, [Next]_vars, NEW t \in Posts
  PROVE  \/ Same(t)
         \/ Handle(t) \/ HandlerFails(t)
         \/ \E w \in Workers : On(w, t)' /\ Deliver(w)
         \/ \E w \in Workers : On(w, t) /\ (Work(w) \/ WorkerFault(w))
<1>1. CASE UNCHANGED vars
  BY <1>1 DEF vars, api, db, money, worker, past, struck, Same, SameRow, SameCopies, SameWorkers,
     On, Copies, Task
<1>2. \A w \in Workers : Work(w) \/ WorkerFault(w) => wpc[w] # "idle"
  BY DEF Work, WorkerFault, MarkProcessing, Generate, RecordGeneration, MarkCompleted,
     Audit, SuccessCallback, FailedCallback, Callback, MarkFailed, Refund, Retry, Ack,
     Crash, Redeliver, SoftLimit, Raise, Interrupt, Guarded, Swallow, HardLimit, Escape,
     CallbackLost, Step
<1>3. CASE Next
  BY <1>2, <1>3, HandlerFrame, WorkFrame, FaultFrame, DeliverFrame DEF Next, On
<1> QED BY <1>1, <1>3

----------------------------------------------------------------------------
(* Only Reserve and Refund move money.                                     *)
LEMMA MoneySteps ==
  ASSUME [Next]_vars
  PROVE  UNCHANGED money \/ (\E p \in Posts : Reserve(p)) \/ (\E w \in Workers : Refund(w))
<1>1. CASE UNCHANGED vars
  BY <1>1 DEF vars, db
<1>2. ASSUME NEW p \in Posts, Handle(p) \/ HandlerFails(p), ~Reserve(p)
      PROVE  UNCHANGED money
  BY <1>2 DEF Handle, HandlerFails, ReturnExisting, NoneExisting, Reject, CreateTask,
     Refuse, Enqueue, db
<1>3. ASSUME NEW w \in Workers, Deliver(w) \/ Work(w) \/ WorkerFault(w), ~Refund(w)
      PROVE  UNCHANGED money
  BY <1>3, FaultKeeps DEF Deliver, Work, MarkProcessing, Generate, RecordGeneration,
     MarkCompleted, Audit, SuccessCallback, FailedCallback, Callback, MarkFailed, Retry,
     Ack, db
<1> QED BY <1>1, <1>2, <1>3 DEF Next

(* A task that is not charged is nowhere but in the database, and has no   *)
(* result; the handler has not got past the charge.                        *)
Unpaid(t) ==
  charge[t] = "none" =>
     /\ \A r \in 0..MaxRetries : Copies(t, r) = 0
     /\ \A w \in Workers : ~On(w, t)
     /\ results[t] = 0
     /\ apc[t] # "reserved"
PaidInv == \A t \in Posts : Unpaid(t)

(* At first nobody has paid, and nothing is queued or run.                 *)
LEMMA PaidInit == Init => PaidInv
<1> SUFFICES ASSUME Init, NEW t \in Posts PROVE Unpaid(t)
  BY DEF PaidInv
<1>1. \A r \in 0..MaxRetries : Copies(t, r) = 0
  <2>1. \A m \in Messages : queue[m] = 0
    BY DEF Init
  <2> QED BY <2>1, MessageFields DEF Copies
<1>2. (\A w \in Workers : ~On(w, t)) /\ results[t] = 0 /\ apc[t] = "new"
  BY DEF Init, On
<1> QED BY <1>1, <1>2 DEF Unpaid

(* Only Reserve makes a handler go past the charge, and only a paid task   *)
(* is published.                                                           *)
LEMMA PaidNext == TypeInv /\ PaidInv /\ [Next]_vars => PaidInv'
<1> SUFFICES ASSUME TypeInv, PaidInv, [Next]_vars, NEW t \in Posts, charge'[t] = "none"
             PROVE  Unpaid(t)'
  BY DEF PaidInv, Unpaid
<1>1. charge[t] = "none"
  <2>1. CASE UNCHANGED money
    BY <2>1 DEF money
  <2>2. ASSUME NEW p \in Posts, Reserve(p) PROVE charge[t] = "none"
    BY <2>2 DEF Reserve, TypeInv, TypeOK
  <2>3. ASSUME NEW w \in Workers, Refund(w) PROVE charge[t] = "none"
    BY <2>3 DEF Refund, money, TypeInv, TypeOK
  <2> QED BY <2>1, <2>2, <2>3, MoneySteps
<1>2. Unpaid(t)
  BY DEF PaidInv
<1>3. CASE Same(t)
  BY <1>1, <1>2, <1>3 DEF Unpaid, Same, SameRow, SameCopies, SameWorkers
<1>4. CASE Handle(t) \/ HandlerFails(t)
  <2>1. charge'[t] = "held" \/ apc'[t] # "reserved"
    BY <1>1, <1>2, <1>4 DEF Handle, HandlerFails, Unpaid, TypeInv, TypeOK, Answer,
       ReturnExisting, NoneExisting, Reject, CreateTask, Reserve, Refuse, Enqueue
  <2>2. UNCHANGED <<queue, worker, results>>
    BY <1>1, <1>2, <1>4, HandlerKeeps DEF Handle, HandlerFails, Unpaid, ReturnExisting,
       NoneExisting, Reject, CreateTask, Reserve, Refuse, Enqueue, Charged
  <2> QED BY <1>1, <1>2, <2>1, <2>2 DEF Unpaid, Copies, On, Task, worker
<1>5. ASSUME NEW w \in Workers, On(w, t)', Deliver(w) PROVE FALSE
  BY <1>1, <1>2, <1>5, MessageFields DEF Deliver, Holds, Unpaid, Copies, On, Task,
     Messages, TypeInv, TypeOK
<1>6. ASSUME NEW w \in Workers, On(w, t) PROVE FALSE
  BY <1>1, <1>2, <1>6 DEF Unpaid
<1> QED BY <1>3, <1>4, <1>5, <1>6, Frame

(* No work without payment.                                                *)
THEOREM PaidCorrect == Spec => []PaidBeforeWork
<1>1. TypeInv /\ PaidInv => PaidBeforeWork
  <2> SUFFICES ASSUME TypeInv, PaidInv, NEW t \in Posts, charge[t] = "none"
               PROVE  ~Queued(t) /\ ~Running(t) /\ ~(results[t] > 0)
    BY DEF PaidBeforeWork
  <2>1. Unpaid(t)
    BY DEF PaidInv
  <2>2. ~Queued(t)
    <3>1. \A r \in 0..MaxRetries : Copies(t, r) = 0
      BY <2>1 DEF Unpaid
    <3>2. ASSUME NEW r \in 0..MaxRetries, queue[[task |-> t, retries |-> r]] > 0
          PROVE  FALSE
      <4>1. queue[[task |-> t, retries |-> r]] = 0
        BY <3>1 DEF Copies
      <4> QED BY <4>1, <3>2
    <3> QED BY <3>2 DEF Queued
  <2>3. ~Running(t)
    BY <2>1 DEF Unpaid, Running, On, Task
  <2> QED BY <2>1, <2>2, <2>3 DEF Unpaid
<1> QED BY <1>1, TypeInvHolds, PaidInit, PaidNext, PTL DEF Spec

----------------------------------------------------------------------------
(* A worker past the commit of the result, and a callback or an audit of a *)
(* completed generation, are backed by a result.                           *)
Backed(t) ==
  \/ results[t] > 0
  \/ /\ "completed" \notin ToSet(delivered[t]) /\ ~audited[t]
     /\ \A w \in Workers : On(w, t) => wpc[w] \notin {"recorded", "completed", "audited"}
BackedInv == \A t \in Posts : Backed(t)

(* At first nothing is told or audited.                                    *)
LEMMA BackedInit == Init => BackedInv
BY DEF Init, BackedInv, Backed, On, ToSet

(* Results stay.                                                           *)
LEMMA ResultsStay ==
  ASSUME TypeInv, [Next]_vars, NEW t \in Posts, results[t] > 0
  PROVE  results'[t] > 0
<1>1. CASE UNCHANGED vars
  BY <1>1 DEF vars, db
<1>2. ASSUME NEW p \in Posts, Handle(p) \/ HandlerFails(p) PROVE UNCHANGED results
  BY <1>2, HandlerKeeps
<1>3. ASSUME NEW w \in Workers, Deliver(w) \/ Work(w) \/ WorkerFault(w), ~RecordGeneration(w)
      PROVE  UNCHANGED results
  BY <1>3, FaultKeeps DEF Deliver, Work, MarkProcessing, Generate, MarkCompleted, Refund,
     Audit, SuccessCallback, FailedCallback, Callback, MarkFailed, Retry, Ack, db
<1>4. ASSUME NEW w \in Workers, RecordGeneration(w) PROVE results'[t] > 0
  BY <1>4 DEF RecordGeneration, WithResult, TypeInv, TypeOK
<1> QED BY <1>1, <1>2, <1>3, <1>4 DEF Next

(* The result is committed before the run goes on.                         *)
LEMMA BackedNext == TypeInv /\ BackedInv /\ [Next]_vars => BackedInv'
<1> SUFFICES ASSUME TypeInv, BackedInv, [Next]_vars, NEW t \in Posts, ~(results'[t] > 0)
             PROVE  Backed(t)'
  BY DEF BackedInv, Backed
<1>1. ~(results[t] > 0)
  BY ResultsStay
<1>2. Backed(t)
  BY DEF BackedInv
<1>3. CASE Same(t)
  BY <1>1, <1>2, <1>3 DEF Backed, Same, SameRow, SameWorkers
<1>4. CASE Handle(t) \/ HandlerFails(t)
  <2>1. UNCHANGED <<delivered, audited, worker>>
    BY <1>4, HandlerKeeps
  <2> QED BY <1>1, <1>2, <2>1 DEF Backed, On, Task, worker
<1>5. ASSUME NEW w \in Workers, On(w, t)', Deliver(w) PROVE Backed(t)'
  BY <1>1, <1>2, <1>5 DEF Deliver, Goto, Backed, On, Task, db, money, TypeInv, TypeOK
<1>6. ASSUME NEW w \in Workers, On(w, t), Work(w) PROVE Backed(t)'
  <2> USE <1>1, <1>2, <1>6 DEF Step, Goto, Backed, On, Task, TypeInv, TypeOK, api, db, money, past, struck
  <2>1. CASE MarkProcessing(w) \/ Generate(w)
    <3>1. UNCHANGED <<results, delivered, audited>>
      BY <2>1 DEF MarkProcessing, Generate
    <3>2. wmsg' = wmsg /\ \E l \in {"generating", "saved", "failing"} : wpc' = [wpc EXCEPT ![w] = l]
      BY <2>1 DEF MarkProcessing, Generate
    <3> QED BY <3>1, <3>2
  <2>2. CASE RecordGeneration(w)
    BY <2>2 DEF RecordGeneration, WithResult
  <2>3. CASE MarkCompleted(w) \/ Audit(w) \/ SuccessCallback(w)
    BY <2>3 DEF MarkCompleted, Audit, SuccessCallback, Callback
  <2>4. CASE FailedCallback(w)
    BY <2>4 DEF FailedCallback, Callback, Send, ToSet
  <2>5. CASE Retry(w) \/ MarkFailed(w) \/ Refund(w)
    <3>1. UNCHANGED <<results, delivered, audited>>
      BY <2>5 DEF Retry, MarkFailed, Refund
    <3>2. wmsg' = wmsg /\ \E l \in {"finished", "failed", "refunded"} : wpc' = [wpc EXCEPT ![w] = l]
      BY <2>5 DEF Retry, MarkFailed, Refund
    <3> QED BY <3>1, <3>2
  <2>6. CASE Ack(w)
    BY <2>6 DEF Ack, Release
  <2> QED BY <2>1, <2>2, <2>3, <2>4, <2>5, <2>6, <1>6 DEF Work
<1>7. ASSUME NEW w \in Workers, On(w, t), WorkerFault(w) PROVE Backed(t)'
  <2> USE <1>1, <1>2, <1>7 DEF Step, Goto, Backed, On, Task, TypeInv, TypeOK
  <2>1. CASE Crash(w) \/ HardLimit(w) \/ Escape(w)
    <3>1. Release(w) /\ UNCHANGED <<results, delivered, audited>>
      BY <2>1 DEF Crash, HardLimit, Escape, Abandon, db
    <3> QED BY <3>1 DEF Release
  <2>2. CASE Redeliver(w)
    <3>1. UNCHANGED <<results, delivered, audited, wpc, wmsg>>
      BY <2>2 DEF Redeliver, db
    <3> QED BY <3>1
  <2>3. CASE SoftLimit(w) \/ Raise(w)
    <3>1. /\ UNCHANGED <<results, audited, wmsg>>
          /\ delivered' = delivered \/ wpc[w] = "audited"
          /\ wpc' = [wpc EXCEPT ![w] = "failing"]
      BY <2>3 DEF SoftLimit, Raise, Interrupt, db
    <3> QED BY <3>1
  <2>4. CASE Swallow(w)
    <3>1. /\ UNCHANGED <<results, delivered, audited>>
          /\ \/ wmsg' = wmsg /\ wpc[w] = "completed"
             \/ wmsg' = wmsg /\ wpc' = [wpc EXCEPT ![w] = "refunded"]
             \/ Release(w)
      BY <2>4 DEF Swallow, db
    <3>2. CASE wmsg' = wmsg /\ wpc[w] = "completed"
      BY <3>1, <3>2
    <3>3. CASE wmsg' = wmsg /\ wpc' = [wpc EXCEPT ![w] = "refunded"]
      BY <3>1, <3>3
    <3>4. CASE Release(w)
      BY <3>1, <3>4 DEF Release
    <3> QED BY <3>1, <3>2, <3>3, <3>4
  <2>5. CASE CallbackLost(w, "audited") \/ CallbackLost(w, "refunded")
    <3>1. UNCHANGED <<results, delivered, audited, wmsg>> /\ wpc' = [wpc EXCEPT ![w] = "finished"]
      BY <2>5 DEF CallbackLost, db
    <3> QED BY <3>1
  <2> QED BY <2>1, <2>2, <2>3, <2>4, <2>5, <1>7 DEF WorkerFault
<1> QED BY <1>3, <1>4, <1>5, <1>6, <1>7, Frame

(* The source is never told of a result that was not recorded, and no      *)
(* charge is recorded as final without one.                                *)
THEOREM BackedCorrect == Spec => []CallbackBacked
<1>1. BackedInv => CallbackBacked
  BY DEF BackedInv, Backed, CallbackBacked
<1> QED BY <1>1, TypeInvHolds, BackedInit, BackedNext, PTL DEF Spec

----------------------------------------------------------------------------
(* Until the charge, nothing is charged.                                   *)
Uncharged(t) == apc[t] \in {"new", "checked", "created"} => charge[t] = "none"
MoneyInv == MoneyMatches /\ \A t \in Posts : Uncharged(t)

(* Reserve, which charges, is what ends this.                              *)
LEMMA UnchargedNext ==
  ASSUME TypeInv, PaidInv, [Next]_vars, NEW t \in Posts, Uncharged(t)
  PROVE  Uncharged(t)'
<1>1. CASE Same(t)
  BY <1>1 DEF Uncharged, Same, SameRow
<1>2. CASE Handle(t) \/ HandlerFails(t)
  BY <1>2 DEF Handle, HandlerFails, ReturnExisting, NoneExisting, Reject, CreateTask,
     Reserve, Refuse, Enqueue, Answer, Uncharged, db, money, TypeInv, TypeOK
<1>3. ASSUME NEW w \in Workers, Deliver(w) PROVE Uncharged(t)'
  BY <1>3 DEF Deliver, api, db, money, Uncharged
<1>4. ASSUME NEW w \in Workers, On(w, t), Work(w) \/ WorkerFault(w) PROVE Uncharged(t)'
  <2>1. UNCHANGED apc
    BY <1>4, WorkKeeps, FaultKeeps DEF api
  <2>2. charge[t] # "none"
    BY <1>4 DEF PaidInv, Unpaid
  <2> QED BY <2>1, <2>2 DEF Uncharged
<1> QED BY <1>1, <1>2, <1>3, <1>4, Frame

(* At first nothing is charged.                                            *)
LEMMA MoneyInit == Init => MoneyInv
<1> SUFFICES ASSUME Init PROVE MoneyInv
  OBVIOUS
<1>1. \A k \in Keys : Standing(k) = {}
  BY DEF Init, Standing
<1>2. \A k \in Keys : SumFunctionOnSet(Price, Standing(k)) = 0
  BY <1>1, SumEmpty
<1>3. MoneyMatches
  BY <1>2, GenerationAssumption DEF Init, MoneyMatches
<1> QED BY <1>3 DEF Init, MoneyInv, Uncharged

(* Sums over the tasks charged to a key.                                   *)
LEMMA StandingSum ==
  ASSUME NEW k
  PROVE  /\ IsFiniteSet(Standing(k)) /\ Standing(k) \subseteq Posts
         /\ \A t \in Posts : Price[t] \in Nat \ {0} /\ Price[t] \in Int
         /\ SumFunctionOnSet(Price, Standing(k)) \in Int
<1>1. Standing(k) \subseteq Posts /\ IsFiniteSet(Standing(k))
  BY GenerationAssumption, FS_Subset DEF Standing
<1>2. \A t \in Posts : Price[t] \in Nat \ {0} /\ Price[t] \in Int
  BY GenerationAssumption
<1> QED BY <1>1, <1>2, SumInt

(* Reserve adds the task to those charged, and a refund takes it out       *)
(* again.                                                                  *)
LEMMA MoneyNext == TypeInv /\ PaidInv /\ MoneyInv /\ [Next]_vars => MoneyInv'
<1> SUFFICES ASSUME TypeInv, PaidInv, MoneyInv, [Next]_vars PROVE MoneyMatches'
  BY UnchargedNext DEF MoneyInv
<1> SUFFICES ASSUME NEW k \in Keys
             PROVE  /\ balance'[k] >= 0
                    /\ balance'[k] = Credits[k] - SumFunctionOnSet(Price, Standing(k)')
  BY DEF MoneyMatches
<1> DEFINE sum == SumFunctionOnSet(Price, Standing(k))
<1>1. /\ balance[k] >= 0 /\ balance[k] = Credits[k] - sum
      /\ balance[k] \in Int /\ Credits[k] \in Int /\ sum \in Int
  BY StandingSum, GenerationAssumption DEF MoneyInv, MoneyMatches, TypeInv, TypeOK
<1> HIDE DEF sum
<1>2. CASE UNCHANGED money
  BY <1>1, <1>2 DEF money, Standing, sum
<1>3. ASSUME NEW p \in Posts, Reserve(p)
      PROVE  /\ balance'[k] >= 0
             /\ balance'[k] = Credits[k] - SumFunctionOnSet(Price, Standing(k)')
  <2>1. CASE KeyOf[p] # k
    <3>1. Standing(k)' = Standing(k) /\ balance'[k] = balance[k]
      BY <1>3, <2>1 DEF Reserve, Standing, TypeInv, TypeOK
    <3> QED BY <3>1, <1>1 DEF sum
  <2>2. CASE KeyOf[p] = k
    <3>1. p \notin Standing(k) /\ Standing(k)' = Standing(k) \cup {p}
      BY <1>3, <2>2 DEF Reserve, Standing, TypeInv, TypeOK, MoneyInv, Uncharged
    <3>2. SumFunctionOnSet(Price, Standing(k) \cup {p}) = Price[p] + sum
      BY <3>1, StandingSum, SumAdd DEF sum
    <3>3. balance'[k] = balance[k] - Price[p] /\ balance[k] >= Price[p] /\ Price[p] \in Int
      BY <1>3, <2>2, StandingSum DEF Reserve, TypeInv, TypeOK
    <3>4. SumFunctionOnSet(Price, Standing(k)') = Price[p] + sum
      BY <3>1, <3>2
    <3> QED BY <3>3, <3>4, <1>1
  <2> QED BY <2>1, <2>2
<1>4. ASSUME NEW w \in Workers, Refund(w), ~UNCHANGED money
      PROVE  /\ balance'[k] >= 0
             /\ balance'[k] = Credits[k] - SumFunctionOnSet(Price, Standing(k)')
  <2> DEFINE t == Task(w)
  <2>1. Step(w, "failed", "refunded")
    BY <1>4 DEF Refund
  <2>2. t \in Posts
    BY <2>1, StepType DEF Places
  <2>3. charge[t] = "held" /\ charge' = [charge EXCEPT ![t] = "refunded"]
    BY <1>4 DEF Refund, Refundable
  <2>4. balance' = [balance EXCEPT ![KeyOf[t]] = @ + Price[t]]
    BY <1>4 DEF Refund, Refundable
  <2> HIDE DEF t
  <2>5. CASE KeyOf[t] # k
    <3>1. Standing(k)' = Standing(k) /\ balance'[k] = balance[k]
      BY <2>2, <2>3, <2>4, <2>5 DEF Standing, TypeInv, TypeOK
    <3> QED BY <3>1, <1>1 DEF sum
  <2>6. CASE KeyOf[t] = k
    <3>1. t \in Standing(k) /\ Standing(k)' = Standing(k) \ {t}
      BY <2>2, <2>3, <2>6 DEF Standing, TypeInv, TypeOK
    <3>2. sum = Price[t] + SumFunctionOnSet(Price, Standing(k) \ {t})
      BY <3>1, StandingSum, SumRemove DEF sum
    <3>3. balance'[k] = balance[k] + Price[t] /\ Price[t] \in Nat
      BY <2>2, <2>4, <2>6, StandingSum DEF TypeInv, TypeOK
    <3>4. sum = Price[t] + SumFunctionOnSet(Price, Standing(k)')
      BY <3>1, <3>2
    <3>5. SumFunctionOnSet(Price, Standing(k)') \in Int
      <4>1. IsFiniteSet(Standing(k)') /\ \A x \in Standing(k)' : Price[x] \in Int
        BY <3>1, StandingSum, FS_Subset
      <4> QED BY <4>1, SumInt
    <3> QED BY <3>3, <3>4, <3>5, <1>1
  <2> QED BY <2>5, <2>6
<1> QED BY <1>2, <1>3, <1>4, MoneySteps

(* Credits are neither lost nor made, and no balance is negative.          *)
THEOREM MoneyCorrect == Spec => []MoneyMatches
<1>1. Init => TypeInv /\ PaidInv /\ MoneyInv
  BY TypeInit, PaidInit, MoneyInit
<1>2. TypeInv /\ PaidInv /\ MoneyInv /\ [Next]_vars => (TypeInv /\ PaidInv /\ MoneyInv)'
  BY TypeNext, PaidNext, MoneyNext
<1>3. MoneyInv => MoneyMatches
  BY DEF MoneyInv
<1> QED BY <1>1, <1>2, <1>3, PTL DEF Spec

(* A new message is a copy of its task's, one attempt later.               *)
LEMMA NextMessage ==
  ASSUME NEW m \in Messages, m.retries < MaxRetries
  PROVE  /\ NextAttempt(m) \in Messages
         /\ NextAttempt(m).task = m.task /\ NextAttempt(m).retries = m.retries + 1
<1>1. m = [task |-> m.task, retries |-> m.retries] /\ m.retries \in 0..MaxRetries /\ m.task \in Posts
  BY DEF Messages
<1>2. NextAttempt(m) = [task |-> m.task, retries |-> m.retries + 1]
  BY <1>1 DEF NextAttempt, Messages
<1> QED BY <1>1, <1>2, GenerationAssumption DEF Messages

(* Publishing a message adds one copy of it, and of no other.              *)
LEMMA PublishCopies ==
  ASSUME TypeInv, NEW m \in Messages, Publish(m)
  PROVE  /\ m.retries \in 0..MaxRetries
         /\ Copies(m.task, m.retries)' = Copies(m.task, m.retries) + 1
         /\ \A r \in 0..MaxRetries : r # m.retries => Copies(m.task, r)' = Copies(m.task, r)
<1>1. m = [task |-> m.task, retries |-> m.retries]  /\ m.retries \in 0..MaxRetries /\ m.task \in Posts
  BY DEF Messages
<1>2. queue[m] \in Nat /\ queue'[m] = queue[m] + 1
  BY DEF TypeInv, TypeOK, Publish
<1>3. ASSUME NEW r \in 0..MaxRetries, r # m.retries
      PROVE  Copies(m.task, r)' = Copies(m.task, r)
  <2>1. [task |-> m.task, retries |-> r] \in Messages /\ [task |-> m.task, retries |-> r] # m
    BY <1>1, <1>3 DEF Messages
  <2> QED BY <2>1 DEF TypeInv, TypeOK, Publish, Copies
<1> QED BY <1>1, <1>2, <1>3 DEF Copies

(* Copies are counted.                                                     *)
LEMMA CopiesType ==
  ASSUME TypeInv, NEW t \in Posts, NEW r \in 0..MaxRetries
  PROVE  Copies(t, r) \in Nat
BY MessageFields DEF TypeInv, TypeOK, Copies

(* A step of a worker leaves the others alone, and publishes at most one   *)
(* message, of its own task.                                               *)
LEMMA OneWorker ==
  ASSUME TypeInv, NEW w \in Workers, Deliver(w) \/ Work(w) \/ WorkerFault(w)
  PROVE  \A v \in Workers \ {w} : /\ wpc'[v] = wpc[v] /\ wmsg'[v] = wmsg[v]
                                  /\ wretry'[v] = wretry[v] /\ wown'[v] = wown[v]
<1>1. CASE Deliver(w)
  BY <1>1 DEF Deliver, TypeInv, TypeOK, Goto
<1>2. CASE Work(w)
  BY <1>2 DEF Work, MarkProcessing, Generate, RecordGeneration, MarkCompleted, Audit,
     SuccessCallback, FailedCallback, Callback, MarkFailed, Refund, Retry, Ack, Release,
     Step, Goto, TypeInv, TypeOK
<1>3. CASE WorkerFault(w)
  BY <1>3 DEF WorkerFault, Crash, Redeliver, SoftLimit, Raise, Interrupt, Swallow,
     HardLimit, Escape, Abandon, CallbackLost, Release, Step, Goto, TypeInv, TypeOK
<1> QED BY <1>1, <1>2, <1>3

----------------------------------------------------------------------------
(* The calls of the provider that are still to come: of each copy of a     *)
(* message of the task, and of each worker that has one.                   *)
LeftIn(t, r) == Copies(t, r) * (MaxRetries - r + 1)
LeftOf(w, t) ==
    IF ~On(w, t) \/ wpc[w] \in {"failed", "refunded", "finished"} THEN 0
    ELSE (MaxRetries - wmsg[w].retries) + (IF wpc[w] = "loaded" THEN 1 ELSE 0)
InBroker(t) == SumFunctionOnSet([r \in 0..MaxRetries |-> LeftIn(t, r)], 0..MaxRetries)
InWork(t) == SumFunctionOnSet([w \in Workers |-> LeftOf(w, t)], Workers)
Left(t) == InBroker(t) + InWork(t)

(* The chains of attempts that have been started, each of so many calls.   *)
Chains(t) == returned[t] + (IF apc[t] = "done" THEN 1 ELSE 0)
Calls(t) == Chains(t) * (MaxRetries + 1)
AttemptsLeft(t) == runs[t] + Left(t) <= Calls(t)
AttemptsInv == \A t \in Posts : AttemptsLeft(t)

(* What the proofs need of multiplication.                                 *)
LEMMA Times == /\ \A a, b \in Nat : a * b \in Nat
               /\ \A a, b \in Int : a * b \in Int /\ (a + 1) * b = a * b + b
               /\ \A b \in Int : 0 * b = 0
               /\ \A a, b \in Nat : a * b = b * a
               /\ \A a, b, c \in Nat : a <= b => a * c <= b * c
               /\ \A a, b, c \in Nat : a < b => a * c + c <= b * c
OBVIOUS

LeftTyped ==
    \A t \in Posts : /\ \A r \in 0..MaxRetries : LeftIn(t, r) \in Nat
                     /\ \A w \in Workers : LeftOf(w, t) \in Nat
                     /\ InBroker(t) \in Nat /\ InWork(t) \in Nat

(* These are natural numbers.                                              *)
LEMMA LeftType == TypeInv => LeftTyped
<1> SUFFICES ASSUME TypeInv, NEW t \in Posts
             PROVE  /\ \A r \in 0..MaxRetries : LeftIn(t, r) \in Nat
                    /\ \A w \in Workers : LeftOf(w, t) \in Nat
                    /\ InBroker(t) \in Nat /\ InWork(t) \in Nat
  BY DEF LeftTyped
<1>1. ASSUME NEW r \in 0..MaxRetries PROVE LeftIn(t, r) \in Nat
  <2>1. Copies(t, r) \in Nat /\ MaxRetries - r + 1 \in Nat
    BY CopiesType, GenerationAssumption
  <2> QED BY <2>1, Times DEF LeftIn
<1>2. ASSUME NEW w \in Workers PROVE LeftOf(w, t) \in Nat
  <2>1. CASE On(w, t)
    <3>1. wmsg[w].retries \in 0..MaxRetries
      BY <2>1, MessageFields DEF On, TypeInv, HasMessage
    <3> QED BY <3>1, GenerationAssumption DEF LeftOf
  <2>2. CASE ~On(w, t)
    BY <2>2 DEF LeftOf
  <2> QED BY <2>1, <2>2
<1>3. IsFiniteSet(0..MaxRetries) /\ IsFiniteSet(Workers)
  BY FS_Interval, GenerationAssumption
<1>4. InBroker(t) \in Nat
  BY <1>1, <1>3, SumNat DEF InBroker
<1>5. InWork(t) \in Nat
  BY <1>2, <1>3, SumNat DEF InWork
<1> QED BY <1>1, <1>2, <1>4, <1>5

(* What one message more or less makes of it.                              *)
LEMMA BrokerChange ==
  ASSUME TypeInv, TypeInv', NEW t \in Posts, NEW r \in 0..MaxRetries,
         \A s \in 0..MaxRetries : s # r => Copies(t, s)' = Copies(t, s)
  PROVE  InBroker(t)' = InBroker(t) + LeftIn(t, r)' - LeftIn(t, r)
<1> DEFINE in == [s \in 0..MaxRetries |-> LeftIn(t, s)]
           after == [s \in 0..MaxRetries |-> LeftIn(t, s)']
<1>1. LeftTyped /\ LeftTyped'
  BY LeftType, PTL
<1>2. /\ \A s \in 0..MaxRetries : in[s] \in Int /\ after[s] \in Int
      /\ \A s \in (0..MaxRetries) \ {r} : after[s] = in[s]
      /\ in[r] = LeftIn(t, r) /\ after[r] = LeftIn(t, r)'
  BY <1>1 DEF LeftTyped, LeftIn
<1>3. InBroker(t) = SumFunctionOnSet(in, 0..MaxRetries) /\ InBroker(t)' = SumFunctionOnSet(after, 0..MaxRetries)
  BY DEF InBroker
<1>4. IsFiniteSet(0..MaxRetries)
  BY FS_Interval, GenerationAssumption
<1> DEFINE R == 0..MaxRetries
<1>5. /\ IsFiniteSet(R) /\ r \in R /\ \A s \in R : in[s] \in Int /\ after[s] \in Int
      /\ \A s \in R \ {r} : after[s] = in[s]
  BY <1>2, <1>4
<1> HIDE DEF in, after, R
<1>6. SumFunctionOnSet(after, R) = SumFunctionOnSet(in, R) + after[r] - in[r]
  BY <1>5, SumChange, ZenonT(60)
<1> QED BY <1>2, <1>3, <1>6 DEF R

(* What one worker more or less makes of it.                               *)
LEMMA WorkChange ==
  ASSUME TypeInv, TypeInv', NEW t \in Posts, NEW w \in Workers,
         \A v \in Workers \ {w} : LeftOf(v, t)' = LeftOf(v, t)
  PROVE  InWork(t)' = InWork(t) + LeftOf(w, t)' - LeftOf(w, t)
<1> DEFINE of == [v \in Workers |-> LeftOf(v, t)]
           after == [v \in Workers |-> LeftOf(v, t)']
<1>1. LeftTyped /\ LeftTyped'
  BY LeftType, PTL
<1>2. /\ \A v \in Workers : of[v] \in Int /\ after[v] \in Int
      /\ \A v \in Workers \ {w} : after[v] = of[v]
      /\ of[w] = LeftOf(w, t) /\ after[w] = LeftOf(w, t)'
  BY <1>1 DEF LeftTyped
<1>3. InWork(t) = SumFunctionOnSet(of, Workers) /\ InWork(t)' = SumFunctionOnSet(after, Workers)
  BY DEF InWork
<1> HIDE DEF of, after
<1> QED BY <1>2, <1>3, GenerationAssumption, SumChange

(* A step that touches no message leaves it as it is.                      *)
LEMMA BrokerSame ==
  ASSUME NEW t \in Posts, SameCopies(t)
  PROVE  InBroker(t)' = InBroker(t)
<1>1. [r \in 0..MaxRetries |-> LeftIn(t, r)]' = [r \in 0..MaxRetries |-> LeftIn(t, r)]
  BY DEF SameCopies, LeftIn
<1> QED BY <1>1 DEF InBroker

(* A step that changes no worker leaves it as it is.                       *)
LEMMA WorkSame ==
  ASSUME NEW t \in Posts, \A w \in Workers : LeftOf(w, t)' = LeftOf(w, t)
  PROVE  InWork(t)' = InWork(t)
<1>1. [w \in Workers |-> LeftOf(w, t)]' = [w \in Workers |-> LeftOf(w, t)]
  OBVIOUS
<1> QED BY <1>1 DEF InWork

(* At first there is nothing to come.                                      *)
LEMMA AttemptsInit == Init => AttemptsInv
<1> SUFFICES ASSUME Init, NEW t \in Posts PROVE AttemptsLeft(t)
  BY DEF AttemptsInv
<1> DEFINE in == [r \in 0..MaxRetries |-> LeftIn(t, r)]
           of == [w \in Workers |-> LeftOf(w, t)]
<1>1. \A r \in 0..MaxRetries : in[r] = 0
  <2>1. \A m \in Messages : queue[m] = 0
    BY DEF Init
  <2>2. \A r \in 0..MaxRetries : Copies(t, r) = 0 /\ MaxRetries - r + 1 \in Int
    <3>1. \A r \in 0..MaxRetries : Copies(t, r) = 0
      BY <2>1, MessageFields DEF Copies
    <3> QED BY <3>1, GenerationAssumption
  <2> QED BY <2>2, Times DEF LeftIn
<1>2. \A w \in Workers : of[w] = 0
  BY DEF Init, LeftOf, On
<1>3. Left(t) = SumFunctionOnSet(in, 0..MaxRetries) + SumFunctionOnSet(of, Workers)
  BY DEF Left, InBroker, InWork
<1> HIDE DEF in, of
<1>4. SumFunctionOnSet(in, 0..MaxRetries) = 0 /\ SumFunctionOnSet(of, Workers) = 0
  <2>1. IsFiniteSet(0..MaxRetries) /\ IsFiniteSet(Workers)
    BY FS_Interval, GenerationAssumption
  <2> QED BY <1>1, <1>2, <2>1, SumZero
<1>5. runs[t] = 0 /\ Chains(t) = 0
  BY DEF Init, Chains
<1>6. 0 * (MaxRetries + 1) = 0
  BY Times, GenerationAssumption
<1>7. Calls(t) = 0
  BY <1>5, <1>6 DEF Calls
<1> QED BY <1>3, <1>4, <1>5, <1>7 DEF AttemptsLeft

(* What is left, and the chains, are numbers before and after a step.      *)
LEMMA Numbers ==
  ASSUME TypeInv, TypeInv', NEW t \in Posts
  PROVE  /\ runs[t] \in Nat /\ InBroker(t) \in Nat /\ InWork(t) \in Nat /\ Chains(t) \in Nat
         /\ runs'[t] \in Nat /\ InBroker(t)' \in Nat /\ InWork(t)' \in Nat /\ Chains(t)' \in Nat
         /\ MaxRetries + 1 \in Nat
         /\ Calls(t) \in Nat /\ Calls(t)' \in Nat
         /\ Chains(t) <= Chains(t)' => Calls(t) <= Calls(t)'
         /\ Chains(t) < Chains(t)' => Calls(t) + (MaxRetries + 1) <= Calls(t)'
<1>1. LeftTyped /\ LeftTyped'
  BY LeftType, PTL
<1>2. runs[t] \in Nat /\ runs'[t] \in Nat /\ returned[t] \in Nat /\ returned'[t] \in Nat
  BY DEF TypeInv, TypeOK
<1>3. Chains(t) \in Nat /\ Chains(t)' \in Nat
  BY <1>2 DEF Chains
<1>4. MaxRetries + 1 \in Nat
  BY GenerationAssumption
<1>5. /\ Calls(t) \in Nat /\ Calls(t)' \in Nat
      /\ Chains(t) <= Chains(t)' => Calls(t) <= Calls(t)'
      /\ Chains(t) < Chains(t)' => Calls(t) + (MaxRetries + 1) <= Calls(t)'
  BY <1>3, <1>4, Times DEF Calls
<1>6. InBroker(t) \in Nat /\ InWork(t) \in Nat /\ InBroker(t)' \in Nat /\ InWork(t)' \in Nat
  <2>1. InBroker(t) \in Nat /\ InWork(t) \in Nat
    BY <1>1 DEF LeftTyped
  <2>2. InBroker(t)' \in Nat /\ InWork(t)' \in Nat
    BY <1>1 DEF LeftTyped
  <2> QED BY <2>1, <2>2
<1> QED BY <1>2, <1>3, <1>4, <1>5, <1>6

(* A message published adds its attempts.                                  *)
LEMMA PublishLeft ==
  ASSUME TypeInv, TypeInv', NEW m \in Messages, Publish(m)
  PROVE  InBroker(m.task)' = InBroker(m.task) + (MaxRetries - m.retries + 1)
<1> DEFINE t == m.task
           r == m.retries
           k == MaxRetries - r + 1
<1>1. t \in Posts /\ r \in 0..MaxRetries
  BY MessageFields
<1>2. /\ Copies(t, r)' = Copies(t, r) + 1
      /\ \A s \in 0..MaxRetries : s # r => Copies(t, s)' = Copies(t, s)
  BY PublishCopies
<1>3. Copies(t, r) \in Int /\ k \in Int
  BY <1>1, CopiesType, GenerationAssumption
<1> HIDE DEF t, r
<1>4. InBroker(t)' = InBroker(t) + LeftIn(t, r)' - LeftIn(t, r)
  BY <1>1, <1>2, BrokerChange
<1> HIDE DEF k
<1>5. LeftIn(t, r)' = LeftIn(t, r) + k /\ LeftIn(t, r) \in Int
  <2>1. LeftIn(t, r) = Copies(t, r) * k /\ LeftIn(t, r)' = Copies(t, r)' * k
    BY DEF LeftIn, k
  <2> QED BY <2>1, <1>2, <1>3, Times
<1>6. InBroker(t) \in Int
  BY <1>1, Numbers
<1> QED BY <1>3, <1>4, <1>5, <1>6 DEF k, t, r

(* A message delivered is taken from what the broker has.                  *)
LEMMA DeliverLeft ==
  ASSUME TypeInv, TypeInv', NEW m \in Messages, queue[m] > 0, queue' = [queue EXCEPT ![m] = @ - 1]
  PROVE  InBroker(m.task)' = InBroker(m.task) - (MaxRetries - m.retries + 1)
<1> DEFINE t == m.task
           r == m.retries
           k == MaxRetries - r + 1
<1>1. t \in Posts /\ r \in 0..MaxRetries /\ m = [task |-> t, retries |-> r]
  BY DEF Messages
<1>2. /\ Copies(t, r) = Copies(t, r)' + 1
      /\ \A s \in 0..MaxRetries : s # r => Copies(t, s)' = Copies(t, s)
  <2>1. queue[m] \in Nat /\ queue'[m] = queue[m] - 1
    BY DEF TypeInv, TypeOK
  <2>2. ASSUME NEW s \in 0..MaxRetries, s # r PROVE Copies(t, s)' = Copies(t, s)
    <3>1. [task |-> t, retries |-> s] \in Messages /\ [task |-> t, retries |-> s] # m
      BY <1>1, <2>2 DEF Messages
    <3> QED BY <3>1 DEF TypeInv, TypeOK, Copies
  <2> QED BY <1>1, <2>1, <2>2 DEF Copies
<1>3. Copies(t, r)' \in Int /\ k \in Int
  <2>1. queue'[m] \in Nat
    BY DEF TypeInv, TypeOK
  <2> QED BY <1>1, <2>1, GenerationAssumption DEF Copies
<1> HIDE DEF t, r
<1>4. InBroker(t)' = InBroker(t) + LeftIn(t, r)' - LeftIn(t, r)
  BY <1>1, <1>2, BrokerChange
<1> HIDE DEF k
<1>5. LeftIn(t, r) = LeftIn(t, r)' + k /\ LeftIn(t, r)' \in Int
  <2>1. LeftIn(t, r) = Copies(t, r) * k /\ LeftIn(t, r)' = Copies(t, r)' * k
    BY DEF LeftIn, k
  <2> QED BY <2>1, <1>2, <1>3, Times
<1>6. InBroker(t) \in Int
  BY <1>1, Numbers
<1> QED BY <1>3, <1>4, <1>5, <1>6 DEF k, t, r

(* A step that adds no more than it pays for keeps the bound.              *)
LEMMA AttemptsStep ==
  ASSUME TypeInv, TypeInv', NEW t \in Posts, AttemptsLeft(t),
         runs'[t] + InBroker(t)' + InWork(t)' - Calls(t)' <= runs[t] + InBroker(t) + InWork(t) - Calls(t)
  PROVE  AttemptsLeft(t)'
<1>1. runs[t] + InBroker(t) + InWork(t) <= Calls(t)
  BY Numbers DEF AttemptsLeft, Left
<1>2. runs'[t] + InBroker(t)' + InWork(t)' <= Calls(t)'
  BY <1>1, Numbers
<1> QED BY <1>2, Numbers DEF AttemptsLeft, Left

(* The handler: it starts a chain when it is done.                         *)
LEMMA AttemptsHandler ==
  ASSUME TypeInv, TypeInv', NEW t \in Posts, AttemptsLeft(t), Handle(t) \/ HandlerFails(t)
  PROVE  AttemptsLeft(t)'
<1> DEFINE M == MaxRetries + 1
<1>1. runs' = runs /\ worker' = worker
  BY HandlerKeeps
<1>2. \A w \in Workers : LeftOf(w, t)' = LeftOf(w, t)
  BY <1>1 DEF LeftOf, worker, On, Task
<1>3. returned' = returned
  BY HandlerKeeps
<1>4. Chains(t) <= Chains(t)' /\ (apc'[t] = "done" => Chains(t) < Chains(t)')
  BY <1>3, HandlerOpen DEF Chains, TypeInv, TypeOK
<1>5. Calls(t) <= Calls(t)' /\ (apc'[t] = "done" => Calls(t) + M <= Calls(t)')
  BY <1>4, Numbers
<1>6. CASE UNCHANGED queue
  <2>1. InBroker(t)' = InBroker(t)
    BY <1>6, BrokerSame DEF SameCopies, Copies
  <2> QED BY <1>1, <1>2, <1>5, <2>1, WorkSame, Numbers DEF AttemptsLeft, Left
<1>7. CASE apc'[t] = "done" /\ Publish([task |-> t, retries |-> 0])
  <2>1. InBroker(t)' = InBroker(t) + (MaxRetries - 0 + 1)
    BY <1>7, PublishLeft, MessageFields
  <2>2. InWork(t)' = InWork(t)
    BY <1>2, WorkSame
  <2>3. runs'[t] = runs[t] /\ Calls(t) + (MaxRetries + 1) <= Calls(t)'
    BY <1>1, <1>5, <1>7
  <2> QED BY <2>1, <2>2, <2>3, Numbers, AttemptsStep, GenerationAssumption
<1>8. UNCHANGED queue \/ (apc'[t] = "done" /\ Publish([task |-> t, retries |-> 0]))
  BY DEF Handle, HandlerFails, ReturnExisting, NoneExisting, Reject, CreateTask, Reserve,
     Refuse, Enqueue, Answer, TypeInv, TypeOK
<1> QED BY <1>6, <1>7, <1>8

(* A worker that has the task: what it has left.                           *)
LEMMA LeftOfWorker ==
  ASSUME TypeInv, NEW w \in Workers, NEW t \in Posts, On(w, t)
  PROVE  /\ wmsg[w] \in Messages /\ wmsg[w].task = t /\ wmsg[w].retries \in 0..MaxRetries
         /\ MaxRetries \in Nat
         /\ wpc[w] \in {"failed", "refunded", "finished"} => LeftOf(w, t) = 0
         /\ wpc[w] \in {"generating", "saved", "recorded", "completed", "audited", "failing"} =>
              LeftOf(w, t) = MaxRetries - wmsg[w].retries
         /\ wpc[w] = "loaded" => LeftOf(w, t) = MaxRetries - wmsg[w].retries + 1
<1>1. wmsg[w] \in Messages /\ wmsg[w].task = t /\ wmsg[w].retries \in 0..MaxRetries
  BY MessageFields DEF TypeInv, HasMessage, On, Task
<1> QED BY <1>1, GenerationAssumption DEF LeftOf

(* The other workers have left what they had.                              *)
LEMMA OthersLeft ==
  ASSUME TypeInv, NEW w \in Workers, NEW t \in Posts, Deliver(w) \/ Work(w) \/ WorkerFault(w)
  PROVE  \A v \in Workers \ {w} : LeftOf(v, t)' = LeftOf(v, t)
BY OneWorker DEF LeftOf, On, Task

(* A delivery moves an attempt from the broker to the worker.              *)
LEMMA AttemptsDeliver ==
  ASSUME TypeInv, TypeInv', NEW t \in Posts, AttemptsLeft(t), NEW w \in Workers, Deliver(w), On(w, t)'
  PROVE  AttemptsLeft(t)'
<1>1. PICK m \in Messages : queue[m] > 0 /\ queue' = [queue EXCEPT ![m] = @ - 1]
                            /\ wmsg' = [wmsg EXCEPT ![w] = m]
  BY DEF Deliver, Holds
<1>2. wmsg'[w] = m /\ wpc'[w] = "loaded" /\ m.task = t /\ m.retries \in 0..MaxRetries
  BY <1>1, MessageFields DEF Deliver, Goto, TypeInv, TypeOK, On, Task
<1>3. InBroker(t)' = InBroker(t) - (MaxRetries - m.retries + 1)
  BY <1>1, <1>2, DeliverLeft
<1>4. LeftOf(w, t) = 0 /\ LeftOf(w, t)' = MaxRetries - m.retries + 1
  BY <1>2, GenerationAssumption DEF Deliver, LeftOf, On
<1>5. InWork(t)' = InWork(t) + LeftOf(w, t)' - LeftOf(w, t)
  BY OthersLeft, WorkChange
<1>6. runs' = runs /\ Calls(t)' = Calls(t)
  BY DEF Deliver, past, struck, api, Calls, Chains
<1> QED BY <1>2, <1>3, <1>4, <1>5, <1>6, Numbers, GenerationAssumption DEF AttemptsLeft,
   Left

(* A call of the provider is one less to come; a retry gives the attempts  *)
(* that are left back to the broker.                                       *)
LEMMA AttemptsWork ==
  ASSUME TypeInv, TypeInv', NEW t \in Posts, AttemptsLeft(t), NEW w \in Workers, Work(w), On(w, t)
  PROVE  AttemptsLeft(t)'
<1>1. InWork(t)' = InWork(t) + LeftOf(w, t)' - LeftOf(w, t)
  BY OthersLeft, WorkChange
<1>2. Calls(t)' = Calls(t)
  BY WorkKeeps DEF api, struck, Calls, Chains
<1>3. LeftOf(w, t) \in Nat /\ LeftOf(w, t)' \in Nat
  <2>1. LeftTyped /\ LeftTyped'
    BY LeftType, PTL
  <2> QED BY <2>1 DEF LeftTyped
<1>4. CASE MarkProcessing(w)
  <2>1. UNCHANGED <<queue, wmsg>> /\ runs'[t] = runs[t] + 1
    BY <1>4 DEF MarkProcessing, Step, On, Task, TypeInv, TypeOK
  <2>2. wpc[w] = "loaded" /\ wpc'[w] = "generating"
    BY <1>4 DEF MarkProcessing, Step, Goto, TypeInv, TypeOK
  <2>3. LeftOf(w, t)' = LeftOf(w, t) - 1
    <3>1. LeftOf(w, t) = MaxRetries - wmsg[w].retries + 1
      BY <2>2, LeftOfWorker
    <3>2. LeftOf(w, t)' = MaxRetries - wmsg[w].retries
      BY <2>1, <2>2, LeftOfWorker DEF LeftOf, On, Task
    <3> QED BY <3>1, <3>2, LeftOfWorker
  <2>4. InBroker(t)' = InBroker(t)
    BY <2>1, BrokerSame DEF SameCopies, Copies
  <2> QED BY <1>1, <1>2, <1>3, <2>1, <2>3, <2>4, Numbers, AttemptsStep
<1>5. CASE Retry(w)
  <2>1. /\ wpc[w] = "failing" /\ wpc'[w] = "finished" /\ wmsg[w].retries < MaxRetries
        /\ Publish(NextAttempt(wmsg[w])) /\ runs' = runs
    BY <1>5 DEF Retry, MayRetry, Step, Goto, TypeInv, TypeOK, past, struck
  <2>2. LeftOf(w, t) = MaxRetries - wmsg[w].retries /\ LeftOf(w, t)' = 0
    BY <2>1, LeftOfWorker DEF LeftOf
  <2>3. InBroker(t)' = InBroker(t) + (MaxRetries - (wmsg[w].retries + 1) + 1)
    <3>1. /\ NextAttempt(wmsg[w]) \in Messages /\ NextAttempt(wmsg[w]).task = t
          /\ NextAttempt(wmsg[w]).retries = wmsg[w].retries + 1
      BY <2>1, LeftOfWorker, NextMessage
    <3> QED BY <2>1, <3>1, PublishLeft
  <2> QED BY <1>1, <1>2, <1>3, <2>1, <2>2, <2>3, Numbers, LeftOfWorker, AttemptsStep
<1>6. CASE ~MarkProcessing(w) /\ ~Retry(w)
  <2>1. UNCHANGED <<queue, runs>>
    BY <1>6 DEF Work, Generate, RecordGeneration, MarkCompleted, Audit,
       SuccessCallback, FailedCallback, Callback, MarkFailed, Refund, Ack, past, struck
  <2>2. LeftOf(w, t)' <= LeftOf(w, t)
    <3>1. CASE Ack(w)
      <4>1. wpc'[w] = "idle"
        BY <3>1 DEF Ack, Release, Goto, TypeInv, TypeOK
      <4> QED BY <4>1, <1>3 DEF LeftOf, On
    <3>2. CASE ~Ack(w)
      <4>1. wmsg' = wmsg
        BY <1>6, <3>2 DEF Work, Generate, RecordGeneration, MarkCompleted, Audit,
           SuccessCallback, FailedCallback, Callback, MarkFailed, Refund, Step, Goto,
           TypeInv, TypeOK
      <4>2. \/ /\ wpc[w] \in {"generating", "saved", "recorded", "completed"}
               /\ wpc'[w] \in {"saved", "failing", "recorded", "completed", "audited"}
            \/ wpc'[w] \in {"failed", "refunded", "finished"}
        BY <1>6, <3>2 DEF Work, Generate, RecordGeneration, MarkCompleted, Audit,
           SuccessCallback, FailedCallback, Callback, MarkFailed, Refund, Step, Goto,
           TypeInv, TypeOK
      <4> QED BY <4>1, <4>2, <1>3, LeftOfWorker DEF LeftOf, On, Task
    <3> QED BY <3>1, <3>2
  <2>3. InBroker(t)' = InBroker(t)
    BY <2>1, BrokerSame DEF SameCopies, Copies
  <2> QED BY <1>1, <1>2, <1>3, <2>1, <2>2, <2>3, Numbers, AttemptsStep
<1> QED BY <1>4, <1>5, <1>6

(* A fault starts at most one more chain, when it gives a message back.    *)
LEMMA AttemptsFault ==
  ASSUME TypeInv, TypeInv', NEW t \in Posts, AttemptsLeft(t), NEW w \in Workers, WorkerFault(w), On(w, t)
  PROVE  AttemptsLeft(t)'
<1>1. InWork(t)' = InWork(t) + LeftOf(w, t)' - LeftOf(w, t)
  BY OthersLeft, WorkChange
<1>2. LeftOf(w, t) \in Nat /\ LeftOf(w, t)' \in Nat
  <2>1. LeftTyped /\ LeftTyped'
    BY LeftType, PTL
  <2> QED BY <2>1 DEF LeftTyped
<1>3. runs'[t] = runs[t] /\ apc' = apc
  BY FaultKeeps DEF api
<1>4. LeftOf(w, t)' <= LeftOf(w, t)
  <2>1. \/ wpc'[w] = "idle"
        \/ /\ wmsg' = wmsg
           /\ \/ wpc'[w] = wpc[w]
              \/ wpc[w] \in Guarded /\ wpc'[w] = "failing"
              \/ wpc[w] = "completed" /\ wpc'[w] = "audited"
              \/ wpc'[w] \in {"refunded", "finished"}
    BY DEF WorkerFault, Crash, Redeliver, SoftLimit, Raise, Interrupt, Swallow,
       HardLimit, Escape, Abandon, CallbackLost, Release, Step, Goto, TypeInv, TypeOK
  <2> QED BY <2>1, <1>2, LeftOfWorker DEF LeftOf, On, Task, Guarded
<1>5. CASE UNCHANGED <<queue, returned>>
  <2>1. InBroker(t)' = InBroker(t)
    BY <1>5, BrokerSame DEF SameCopies, Copies
  <2>2. Calls(t)' = Calls(t)
    BY <1>3, <1>5 DEF Calls, Chains
  <2> QED BY <1>1, <1>2, <1>3, <1>4, <2>1, <2>2, Numbers, AttemptsStep
<1>6. CASE Return(w)
  <2>1. InBroker(t)' = InBroker(t) + (MaxRetries - wmsg[w].retries + 1)
    BY <1>6, LeftOfWorker, PublishLeft DEF Return
  <2>2. InBroker(t)' <= InBroker(t) + (MaxRetries + 1)
    BY <2>1, LeftOfWorker, Numbers
  <2>3. returned'[t] = returned[t] + 1
    BY <1>6 DEF Return, On, TypeInv, TypeOK
  <2>4. Calls(t) + (MaxRetries + 1) <= Calls(t)'
    <3>1. Chains(t) < Chains(t)'
      BY <1>3, <2>3 DEF Chains, TypeInv, TypeOK
    <3> QED BY <3>1, Numbers
  <2> QED BY <1>1, <1>2, <1>3, <1>4, <2>2, <2>4, Numbers, AttemptsStep
<1>7. UNCHANGED <<queue, returned>> \/ Return(w)
  BY DEF WorkerFault, Crash, PutsBack, Redeliver, SoftLimit, Raise, Interrupt, Swallow,
     HardLimit, Escape, Abandon, CallbackLost
<1> QED BY <1>5, <1>6, <1>7

(* Every step keeps the bound.                                             *)
LEMMA AttemptsNext == TypeInv /\ AttemptsInv /\ [Next]_vars => AttemptsInv'
<1> SUFFICES ASSUME TypeInv, AttemptsInv, [Next]_vars, NEW t \in Posts
             PROVE  AttemptsLeft(t)'
  BY DEF AttemptsInv
<1>1. TypeInv' /\ AttemptsLeft(t)
  BY TypeNext DEF AttemptsInv
<1>2. CASE Same(t)
  <2>1. \A w \in Workers : LeftOf(w, t)' = LeftOf(w, t)
    BY <1>2 DEF Same, SameWorkers, LeftOf
  <2>2. InBroker(t)' = InBroker(t) /\ InWork(t)' = InWork(t)
    BY <1>2, <2>1, BrokerSame, WorkSame DEF Same
  <2>3. runs'[t] = runs[t] /\ Calls(t)' = Calls(t)
    BY <1>2 DEF Same, SameRow, Calls, Chains
  <2> QED BY <1>1, <2>2, <2>3, Numbers, AttemptsStep
<1> QED BY <1>1, <1>2, AttemptsHandler, AttemptsDeliver, AttemptsWork, AttemptsFault,
   Frame

(* Retries are bounded.                                                    *)
THEOREM AttemptsCorrect == Spec => []AttemptsBounded
<1>1. TypeInv /\ AttemptsInv => AttemptsBounded
  <2> SUFFICES ASSUME TypeInv, AttemptsInv, NEW t \in Posts
               PROVE  runs[t] <= (MaxRetries + 1) * (1 + returned[t])
    BY DEF AttemptsBounded
  <2>1. /\ runs[t] \in Nat /\ returned[t] \in Nat /\ Chains(t) \in Nat /\ MaxRetries + 1 \in Nat
        /\ Chains(t) <= 1 + returned[t] /\ 1 + returned[t] \in Nat
    BY GenerationAssumption DEF TypeInv, TypeOK, Chains
  <2>2. Left(t) \in Nat /\ Calls(t) \in Nat
    BY <2>1, LeftType, Times DEF LeftTyped, Left, Calls
  <2>3. runs[t] <= Calls(t)
    BY <2>1, <2>2 DEF AttemptsInv, AttemptsLeft
  <2>4. Calls(t) <= (1 + returned[t]) * (MaxRetries + 1)
    BY <2>1, Times DEF Calls
  <2>5. (1 + returned[t]) * (MaxRetries + 1) = (MaxRetries + 1) * (1 + returned[t])
    BY <2>1, Times
  <2> QED BY <2>1, <2>2, <2>3, <2>4, <2>5, Times
<1> QED BY <1>1, TypeInvHolds, AttemptsInit, AttemptsNext, PTL DEF Spec

----------------------------------------------------------------------------
(* Where a task is that no fault has struck: one place at a time, and what *)
(* the database and the source have of it there.                           *)
Live(w, t) == On(w, t) /\ wpc[w] # "finished"
NoRun(t) == \A w \in Workers : ~Live(w, t)
NoCopies(t) == \A r \in 0..MaxRetries : Copies(t, r) = 0

Rows(t, s, c, n) == /\ status[t] = s /\ charge[t] = c /\ results[t] = n
                    /\ ~audited[t] /\ delivered[t] = <<>>
Pending(t) == \E s \in {"queued", "processing"} : Rows(t, s, "held", 0)

Unborn(t) == /\ apc[t] \in {"new", "checked", "done"} /\ runs[t] = 0
             /\ Rows(t, "absent", "none", 0)
Born(t) == apc[t] = "created" /\ Rows(t, "queued", "none", 0) /\ runs[t] = 0
Paid(t) == apc[t] = "reserved" /\ Rows(t, "queued", "held", 0)
Refused(t) == /\ apc[t] = "done" /\ answer[t] = "insufficient_balance"
              /\ Rows(t, "failed", "none", 0) /\ runs[t] = 0
Completed(t) == /\ status[t] = "completed" /\ charge[t] = "held" /\ audited[t]
                /\ results[t] = 1 /\ Told(t, "completed")
FailedBack(t) == /\ status[t] = "failed" /\ charge[t] = "refunded" /\ ~audited[t]
                 /\ results[t] = 0 /\ Told(t, "failed")
Ended(t) == apc[t] = "done" /\ (Completed(t) \/ FailedBack(t))
Nowhere(t) == /\ NoCopies(t) /\ NoRun(t)
              /\ Unborn(t) \/ Born(t) \/ Paid(t) \/ Refused(t) \/ Ended(t)

Waiting(t) ==
    /\ apc[t] = "done" /\ Pending(t) /\ NoRun(t)
    /\ \E r \in 0..MaxRetries : /\ Copies(t, r) = 1
                                /\ \A s \in 0..MaxRetries : s # r => Copies(t, s) = 0

Stage(w, t) ==
    \/ wpc[w] \in {"loaded", "generating", "saved", "failing"} /\ Pending(t)
    \/ wpc[w] = "recorded" /\ \E s \in {"queued", "processing"} : Rows(t, s, "held", 1)
    \/ wpc[w] = "completed" /\ Rows(t, "completed", "held", 1)
    \/ /\ wpc[w] = "audited" /\ status[t] = "completed" /\ charge[t] = "held"
       /\ results[t] = 1 /\ audited[t] /\ delivered[t] = <<>>
    \/ wpc[w] = "failed" /\ Rows(t, "failed", "held", 0)
    \/ wpc[w] = "refunded" /\ Rows(t, "failed", "refunded", 0)
Working(t) ==
    /\ apc[t] = "done" /\ NoCopies(t)
    /\ \E w \in Workers : /\ Live(w, t) /\ Stage(w, t)
                          /\ \A v \in Workers \ {w} : ~Live(v, t)

Clean(t) == faults[t] = 0 => Nowhere(t) \/ Waiting(t) \/ Working(t)
CleanInv == \A t \in Posts : Clean(t)

(* At first no task is anywhere.                                           *)
LEMMA CleanInit == Init => CleanInv
<1> SUFFICES ASSUME Init, NEW t \in Posts PROVE Nowhere(t)
  BY DEF CleanInv, Clean
<1>1. NoCopies(t)
  <2>1. \A m \in Messages : queue[m] = 0
    BY DEF Init
  <2> QED BY <2>1, MessageFields DEF NoCopies, Copies
<1>2. NoRun(t)
  BY DEF Init, NoRun, Live, On
<1>3. Unborn(t)
  BY DEF Init, Unborn, Rows
<1> QED BY <1>1, <1>2, <1>3 DEF Nowhere

(* A step that leaves the task, its messages and its runs where they are.  *)
LEMMA CleanSame ==
  ASSUME NEW t \in Posts, SameRow(t), SameCopies(t), Clean(t),
         \A w \in Workers : /\ Live(w, t)' <=> Live(w, t)
                            /\ Live(w, t) => wpc'[w] = wpc[w]
  PROVE  Clean(t)'
<1> SUFFICES ASSUME faults[t] = 0 PROVE (Nowhere(t) \/ Waiting(t) \/ Working(t))'
  BY DEF Clean, SameRow
<1>1. /\ NoCopies(t)' <=> NoCopies(t)
      /\ NoRun(t)' <=> NoRun(t)
  BY DEF SameCopies, NoCopies, NoRun
<1>2. \A s, c, n : Rows(t, s, c, n)' <=> Rows(t, s, c, n)
  BY DEF SameRow, Rows
<1>3. Pending(t)' <=> Pending(t)
  BY <1>2 DEF Pending
<1>4. CASE Nowhere(t)
  <2>1. /\ Unborn(t)' <=> Unborn(t)
        /\ Born(t)' <=> Born(t)
        /\ Paid(t)' <=> Paid(t)
        /\ Refused(t)' <=> Refused(t)
        /\ Ended(t)' <=> Ended(t)
    BY <1>2 DEF SameRow, Unborn, Born, Paid, Refused, Ended, Completed, FailedBack, Told
  <2> QED BY <1>1, <1>4, <2>1 DEF Nowhere
<1>5. CASE Waiting(t)
  <2>1. PICK r \in 0..MaxRetries : Copies(t, r) = 1 /\ \A s \in 0..MaxRetries : s # r => Copies(t, s) = 0
    BY <1>5 DEF Waiting
  <2>2. Copies(t, r)' = 1 /\ \A s \in 0..MaxRetries : s # r => Copies(t, s)' = 0
    BY <2>1 DEF SameCopies
  <2> QED BY <1>1, <1>3, <1>5, <2>2 DEF Waiting, SameRow
<1>6. CASE Working(t)
  <2>1. PICK w \in Workers : Live(w, t) /\ Stage(w, t) /\ \A v \in Workers \ {w} : ~Live(v, t)
    BY <1>6 DEF Working
  <2>2. Stage(w, t)'
    BY <1>2, <1>3, <2>1 DEF Stage, SameRow
  <2> QED BY <1>1, <1>6, <2>1, <2>2 DEF Working, SameRow
<1> QED BY <1>4, <1>5, <1>6 DEF Clean

(* The handler takes a task from one place to the next.                    *)
LEMMA CleanHandler ==
  ASSUME TypeInv, NEW t \in Posts, Clean(t), Handle(t)
  PROVE  Clean(t)'
<1> SUFFICES ASSUME faults'[t] = 0 PROVE (Nowhere(t) \/ Waiting(t) \/ Working(t))'
  BY DEF Clean
<1>1. faults[t] = 0 /\ UNCHANGED <<worker, runs>>
  BY HandlerKeeps DEF Handle, ReturnExisting, NoneExisting, Reject, CreateTask, Reserve,
     Refuse, Enqueue, past, struck
<1>2. apc[t] # "done"
  BY HandlerOpen
<1>3. Nowhere(t) /\ (Unborn(t) \/ Born(t) \/ Paid(t))
  BY <1>1, <1>2 DEF Clean, Nowhere, Waiting, Working, Refused, Ended
<1>4. NoRun(t)'
  BY <1>1, <1>3 DEF Nowhere, NoRun, Live, On, Task, worker
<1>5. CASE ReturnExisting(t) \/ NoneExisting(t) \/ Reject(t)
  <2>1. UNCHANGED <<queue, status, charge, audited, results, delivered>> /\ apc'[t] \in {"checked", "done"}
    BY <1>5 DEF ReturnExisting, NoneExisting, Reject, Answer, db, money, TypeInv, TypeOK
  <2>2. Unborn(t)
    BY <1>3, <1>5 DEF Born, Paid, ReturnExisting, NoneExisting, Reject
  <2> QED BY <1>1, <1>3, <1>4, <2>1, <2>2 DEF Nowhere, Unborn, Rows, NoCopies, Copies
<1>6. CASE CreateTask(t)
  BY <1>1, <1>3, <1>4, <1>6 DEF Nowhere, Unborn, Born, Paid, Rows, NoCopies, Copies,
     CreateTask, money, TypeInv, TypeOK
<1>7. CASE Reserve(t)
  BY <1>1, <1>3, <1>4, <1>7 DEF Nowhere, Unborn, Born, Paid, Rows, NoCopies, Copies,
     Reserve, TypeInv, TypeOK
<1>8. CASE Refuse(t)
  BY <1>1, <1>3, <1>4, <1>8 DEF Nowhere, Unborn, Born, Paid, Refused, Rows, NoCopies,
     Copies, Refuse, Answer, money, TypeInv, TypeOK, OtherAnswers
<1>9. CASE Enqueue(t)
  <2>1. Paid(t) /\ NoCopies(t)
    BY <1>3, <1>9 DEF Unborn, Born, Enqueue, Charged, Nowhere
  <2>2. Publish([task |-> t, retries |-> 0]) /\ apc'[t] = "done"
    BY <1>9 DEF Enqueue, Answer, TypeInv, TypeOK
  <2>3. /\ 0 \in 0..MaxRetries /\ Copies(t, 0)' = 1
        /\ \A s \in 0..MaxRetries : s # 0 => Copies(t, s)' = 0
    <3>1. /\ Copies(t, 0)' = Copies(t, 0) + 1 /\ 0 \in 0..MaxRetries
          /\ \A r \in 0..MaxRetries : r # 0 => Copies(t, r)' = Copies(t, r)
      BY <2>2, PublishCopies, MessageFields
    <3>2. \A r \in 0..MaxRetries : Copies(t, r) = 0
      BY <2>1 DEF NoCopies
    <3> QED BY <3>1, <3>2
  <2>4. Pending(t)'
    BY <1>9, <2>1 DEF Enqueue, db, money, Paid, Pending, Rows
  <2> QED BY <1>4, <2>2, <2>3, <2>4 DEF Waiting
<1> QED BY <1>5, <1>6, <1>7, <1>8, <1>9 DEF Handle

(* A delivery: the one copy goes to one worker.                            *)
LEMMA CleanDeliver ==
  ASSUME TypeInv, NEW t \in Posts, Clean(t), NEW w \in Workers, Deliver(w), On(w, t)'
  PROVE  Clean(t)'
<1> SUFFICES ASSUME faults[t] = 0 PROVE Working(t)'
  BY DEF Clean, Deliver, past, struck
<1>1. PICK m \in Messages : queue[m] > 0 /\ queue' = [queue EXCEPT ![m] = @ - 1]
                            /\ wmsg' = [wmsg EXCEPT ![w] = m]
  BY DEF Deliver, Holds
<1>2. wmsg'[w] = m /\ wpc'[w] = "loaded" /\ wpc[w] = "idle"
  BY <1>1 DEF Deliver, Goto, TypeInv, TypeOK
<1>3. m = [task |-> t, retries |-> m.retries] /\ m.retries \in 0..MaxRetries
  BY <1>2 DEF On, Task, Messages
<1>4. Copies(t, m.retries) > 0
  BY <1>1, <1>3 DEF Copies
<1>5. Waiting(t)
  <2>1. ~NoCopies(t)
    BY <1>3, <1>4 DEF NoCopies
  <2> QED BY <2>1 DEF Clean, Nowhere, Working
<1>6. Copies(t, m.retries) = 1 /\ \A s \in 0..MaxRetries : s # m.retries => Copies(t, s) = 0
  BY <1>3, <1>4, <1>5 DEF Waiting
<1>7. NoCopies(t)'
  <2> SUFFICES ASSUME NEW s \in 0..MaxRetries PROVE Copies(t, s)' = 0
    BY DEF NoCopies
  <2>1. CASE s = m.retries
    BY <1>1, <1>3, <1>6, <2>1 DEF Copies, TypeInv, TypeOK
  <2>2. CASE s # m.retries
    <3>1. [task |-> t, retries |-> s] \in Messages /\ [task |-> t, retries |-> s] # m
      BY <1>3, <2>2 DEF Messages
    <3> QED BY <1>1, <1>6, <2>2, <3>1 DEF Copies, TypeInv, TypeOK
  <2> QED BY <2>1, <2>2
<1>8. apc'[t] = "done" /\ Pending(t)'
  BY <1>5 DEF Waiting, Pending, Rows, Deliver, api, db, money
<1>9. Live(w, t)' /\ \A v \in Workers \ {w} : ~Live(v, t)'
  <2>1. \A v \in Workers : ~Live(v, t)
    BY <1>5 DEF Waiting, NoRun
  <2>2. \A v \in Workers \ {w} : wpc'[v] = wpc[v] /\ wmsg'[v] = wmsg[v]
    BY OneWorker
  <2> QED BY <1>2, <2>1, <2>2 DEF Live, On, Task
<1> QED BY <1>2, <1>7, <1>8, <1>9 DEF Working, Stage

(* One step of the one worker that has the task.                           *)
LEMMA CleanWork ==
  ASSUME TypeInv, NEW t \in Posts, Clean(t), NEW w \in Workers, Work(w), On(w, t)
  PROVE  Clean(t)'
<1>1. \A v \in Workers \ {w} : wpc'[v] = wpc[v] /\ wmsg'[v] = wmsg[v]
  BY OneWorker
<1>2. CASE wpc[w] = "finished"
  <2>1. Ack(w)
    BY <1>2 DEF Work, MarkProcessing, Generate, RecordGeneration, MarkCompleted, Audit,
       SuccessCallback, FailedCallback, Callback, MarkFailed, Refund, Retry, Step
  <2>2. wpc'[w] = "idle"
    BY <2>1 DEF Ack, Release, Goto, TypeInv, TypeOK
  <2>3. \A v \in Workers : (Live(v, t)' <=> Live(v, t)) /\ (Live(v, t) => wpc'[v] = wpc[v])
    BY <1>1, <1>2, <2>2 DEF Live, On, Task
  <2>4. SameRow(t) /\ SameCopies(t)
    BY <2>1 DEF Ack, SameRow, SameCopies, Copies, api, db, money, past, struck
  <2> QED BY <2>3, <2>4, CleanSame
<1>3. CASE wpc[w] # "finished"
  <2> SUFFICES ASSUME faults[t] = 0 PROVE (Nowhere(t) \/ Waiting(t) \/ Working(t))'
    BY WorkKeeps DEF Clean, struck
  <2>1. apc[t] = "done" /\ NoCopies(t) /\ Stage(w, t) /\ \A v \in Workers \ {w} : ~Live(v, t)
    BY <1>3 DEF Clean, Nowhere, Waiting, Working, NoRun, Live
  <2>2. \A v \in Workers \ {w} : ~Live(v, t)'
    BY <1>1, <2>1 DEF Live, On, Task
  <2>3. apc'[t] = "done"
    BY <2>1, WorkKeeps DEF api
  <2>4. wmsg[w] \in Messages /\ Task(w) = t /\ wmsg[w].task = t /\ wmsg[w].retries \in 0..MaxRetries
    BY LeftOfWorker DEF Task
  <2>5. ASSUME UNCHANGED <<queue, wmsg>>, wpc'[w] # "idle", wpc'[w] # "finished", Stage(w, t)'
        PROVE  Working(t)'
    BY <2>1, <2>2, <2>3, <2>4, <2>5 DEF Working, NoCopies, Copies, Live, On, Task
  <2>6. ASSUME UNCHANGED queue, wpc'[w] = "finished", Ended(t)'
        PROVE  Nowhere(t)'
    BY <2>1, <2>2, <2>6 DEF Nowhere, NoCopies, Copies, NoRun, Live
  <2>7. CASE MarkProcessing(w)
    <3>1. wpc[w] = "loaded" /\ wpc'[w] = "generating" /\ UNCHANGED <<queue, wmsg>>
      BY <2>7 DEF MarkProcessing, Step, Goto, TypeInv, TypeOK
    <3>2. Pending(t)'
      BY <2>1, <2>4, <2>7, <3>1 DEF Stage, MarkProcessing, Pending, Rows, money,
       Step, Goto, TypeInv, TypeOK
    <3> QED BY <2>5, <3>1, <3>2 DEF Stage
  <2>8. CASE Generate(w)
    <3>1. wpc[w] = "generating" /\ wpc'[w] \in {"saved", "failing"} /\ UNCHANGED <<queue, wmsg>>
      BY <2>8 DEF Generate, Step, Goto, TypeInv, TypeOK
    <3>2. Pending(t)'
      BY <2>1, <2>8, <3>1 DEF Stage, Generate, Pending, Rows, db, money, Step, Goto,
       TypeInv, TypeOK
    <3> QED BY <2>5, <3>1, <3>2 DEF Stage
  <2>9. CASE RecordGeneration(w)
    <3>1. wpc[w] = "saved" /\ wpc'[w] = "recorded" /\ UNCHANGED <<queue, wmsg>>
      BY <2>9 DEF RecordGeneration, Step, Goto, TypeInv, TypeOK
    <3>2. PICK s \in {"queued", "processing"} : Rows(t, s, "held", 0)
      BY <2>1, <3>1 DEF Stage, Pending
    <3>3. Rows(t, s, "held", 1)'
      BY <2>4, <2>9, <3>2 DEF RecordGeneration, WithResult, Rows, money, Step, Goto,
       TypeInv, TypeOK
    <3> QED BY <2>5, <3>1, <3>3 DEF Stage
  <2>10. CASE MarkCompleted(w)
    <3>1. wpc[w] = "recorded" /\ wpc'[w] = "completed" /\ UNCHANGED <<queue, wmsg>>
      BY <2>10 DEF MarkCompleted, Step, Goto, TypeInv, TypeOK
    <3>2. Rows(t, "completed", "held", 1)'
      BY <2>1, <2>4, <2>10, <3>1 DEF Stage, MarkCompleted, Rows, money, Step, Goto,
       TypeInv, TypeOK
    <3> QED BY <2>5, <3>1, <3>2 DEF Stage
  <2>11. CASE Audit(w)
    <3>1. wpc[w] = "completed" /\ wpc'[w] = "audited" /\ UNCHANGED <<queue, wmsg>>
      BY <2>11 DEF Audit, Step, Goto, TypeInv, TypeOK
    <3>2. Rows(t, "completed", "held", 1)
      BY <2>1, <3>1 DEF Stage
    <3>3. status'[t] = "completed" /\ charge'[t] = "held" /\ results'[t] = 1 /\ delivered'[t] = <<>>
      BY <2>11, <3>2 DEF Audit, Rows, money, Step, Goto, TypeInv, TypeOK
    <3>4. audited'[t]
      BY <2>4, <2>11, <3>2 DEF Audit, Rows, Step, Goto, TypeInv, TypeOK
    <3> QED BY <2>5, <3>1, <3>3, <3>4 DEF Stage
  <2>12. CASE SuccessCallback(w)
    <3>1. wpc[w] = "audited" /\ wpc'[w] = "finished" /\ UNCHANGED queue
      BY <2>12 DEF SuccessCallback, Callback, Step, Goto, TypeInv, TypeOK
    <3>2. delivered[t] = <<>> /\ Send(t, "completed")
      BY <2>1, <2>4, <2>12, <3>1 DEF Stage, SuccessCallback, Callback, Step, Goto,
       TypeInv, TypeOK
    <3>3. Told(t, "completed")'
      BY <3>2 DEF Send, Told, TypeInv, TypeOK
    <3>4. status'[t] = "completed" /\ charge'[t] = "held" /\ results'[t] = 1 /\ audited'[t]
      BY <2>1, <2>12, <3>1 DEF Stage, SuccessCallback, Callback, db, money, Step,
       Goto, TypeInv, TypeOK
    <3> QED BY <2>3, <2>6, <3>1, <3>3, <3>4 DEF Ended, Completed
  <2>13. CASE FailedCallback(w)
    <3>1. wpc[w] = "refunded" /\ wpc'[w] = "finished" /\ UNCHANGED queue
      BY <2>13 DEF FailedCallback, Callback, Step, Goto, TypeInv, TypeOK
    <3>2. Rows(t, "failed", "refunded", 0) /\ Send(t, "failed")
      BY <2>1, <2>4, <2>13, <3>1 DEF Stage, FailedCallback, Callback, Step, Goto,
       TypeInv, TypeOK
    <3>3. Told(t, "failed")'
      BY <3>2 DEF Send, Told, Rows, TypeInv, TypeOK
    <3>4. status'[t] = "failed" /\ charge'[t] = "refunded" /\ results'[t] = 0 /\ ~audited'[t]
      BY <2>13, <3>2 DEF Rows, FailedCallback, Callback, db, money, Step, Goto,
       TypeInv, TypeOK
    <3> QED BY <2>3, <2>6, <3>1, <3>3, <3>4 DEF Ended, FailedBack
  <2>14. CASE Retry(w)
    <3>1. /\ wpc[w] = "failing" /\ wpc'[w] = "finished" /\ wmsg[w].retries < MaxRetries
          /\ Publish(NextAttempt(wmsg[w]))
      BY <2>14 DEF Retry, MayRetry, Step, Goto, TypeInv, TypeOK
    <3>2. Pending(t)'
      BY <2>1, <2>14, <3>1 DEF Stage, Retry, Pending, Rows, db, money, Step, Goto,
       TypeInv, TypeOK
    <3>3. NoRun(t)'
      BY <2>2, <3>1 DEF NoRun, Live
    <3>4. PICK n \in Messages : n.task = t /\ Publish(n)
      BY <2>4, <3>1, NextMessage
    <3>5. /\ n.retries \in 0..MaxRetries /\ Copies(t, n.retries)' = 1
          /\ \A r \in 0..MaxRetries : r # n.retries => Copies(t, r)' = 0
      <4>1. /\ n.retries \in 0..MaxRetries /\ Copies(t, n.retries)' = Copies(t, n.retries) + 1
            /\ \A r \in 0..MaxRetries : r # n.retries => Copies(t, r)' = Copies(t, r)
        BY <3>4, PublishCopies
      <4> QED BY <2>1, <4>1 DEF NoCopies
    <3> QED BY <2>3, <3>2, <3>3, <3>5 DEF Waiting
  <2>15. CASE MarkFailed(w)
    <3>1. wpc[w] = "failing" /\ wpc'[w] = "failed" /\ UNCHANGED <<queue, wmsg>>
      BY <2>15 DEF MarkFailed, Step, Goto, TypeInv, TypeOK
    <3>2. Rows(t, "failed", "held", 0)'
      BY <2>1, <2>4, <2>15, <3>1 DEF Stage, MarkFailed, Failed, Pending, Rows, money,
       Step, Goto, TypeInv, TypeOK
    <3> QED BY <2>5, <3>1, <3>2 DEF Stage
  <2>16. CASE Refund(w)
    <3>1. wpc[w] = "failed" /\ wpc'[w] = "refunded" /\ UNCHANGED <<queue, wmsg>>
      BY <2>16 DEF Refund, Step, Goto, TypeInv, TypeOK
    <3>2. Rows(t, "failed", "held", 0)
      BY <2>1, <3>1 DEF Stage
    <3>3. charge' = [charge EXCEPT ![t] = "refunded"]
      BY <2>4, <2>16, <3>2 DEF Refund, Refundable, Rows, Step, Goto, TypeInv, TypeOK
    <3>4. Rows(t, "failed", "refunded", 0)'
      BY <2>16, <3>2, <3>3 DEF Refund, Rows, Step, Goto, TypeInv, TypeOK
    <3> QED BY <2>5, <3>1, <3>4 DEF Stage
  <2>17. ~Ack(w)
    BY <1>3 DEF Ack, Step, Goto, TypeInv, TypeOK
  <2> QED BY <2>7, <2>8, <2>9, <2>10, <2>11, <2>12, <2>13, <2>14, <2>15, <2>16,
     <2>17 DEF Work
<1> QED BY <1>2, <1>3

(* A fault takes the task out of the account; every other step leads from  *)
(* a place to a place.                                                     *)
LEMMA CleanNext == TypeInv /\ CleanInv /\ [Next]_vars => CleanInv'
<1> SUFFICES ASSUME TypeInv, CleanInv, [Next]_vars, NEW t \in Posts PROVE Clean(t)'
  BY DEF CleanInv
<1>1. Clean(t)
  BY DEF CleanInv
<1>2. CASE Same(t)
  BY <1>1, <1>2, CleanSame DEF Same, SameWorkers, Live
<1>3. CASE HandlerFails(t) \/ \E w \in Workers : On(w, t) /\ WorkerFault(w)
  <2>1. faults'[t] = faults[t] + 1
    BY <1>3 DEF HandlerFails, WorkerFault, Crash, Redeliver, SoftLimit, Raise, Interrupt,
       Swallow, HardLimit, Escape, Abandon, CallbackLost, Fault, On, TypeInv, TypeOK
  <2>2. faults'[t] # 0
    BY <2>1 DEF TypeInv, TypeOK
  <2> QED BY <2>2 DEF Clean
<1> QED BY <1>1, <1>2, <1>3, Frame, CleanHandler, CleanDeliver, CleanWork

(* Whoever was given a task was given one that exists.                     *)
Exists(p) == /\ apc[p] \in {"created", "reserved"} => status[p] # "absent"
             /\ \A t \in Posts : answer[p] = t => status[t] # "absent"
AnswerInv == \A p \in Posts : Exists(p)

(* At first nobody was given a task.                                       *)
LEMMA AnswerInit == Init => AnswerInv
BY NameAssumption DEF Init, AnswerInv, Exists, OtherAnswers

(* A task that exists goes on existing.                                    *)
LEMMA StatusStays ==
  ASSUME TypeInv, [Next]_vars, NEW t \in Posts, status[t] # "absent"
  PROVE  status'[t] # "absent"
<1>1. CASE UNCHANGED vars
  BY <1>1 DEF vars, db
<1>2. ASSUME NEW q \in Posts, Handle(q) \/ HandlerFails(q)
      PROVE  status'[t] = status[t] \/ status'[t] # "absent"
  BY <1>2 DEF Handle, HandlerFails, ReturnExisting, NoneExisting, Reject, CreateTask,
     Reserve, Refuse, Enqueue, db, TypeInv, TypeOK
<1>3. ASSUME NEW w \in Workers, Deliver(w) \/ Work(w) \/ WorkerFault(w)
      PROVE  status'[t] = status[t] \/ status'[t] # "absent"
  BY <1>3, FaultKeeps DEF Deliver, Work, MarkProcessing, Generate, RecordGeneration,
     MarkCompleted, Refund, Audit, SuccessCallback, FailedCallback, Callback, MarkFailed,
     Failed, Retry, Ack, db, TypeInv, TypeOK
<1> QED BY <1>1, <1>2, <1>3 DEF Next

(* A request is answered with its own task, or with one it has found.      *)
LEMMA AnswerNext == TypeInv /\ AnswerInv /\ [Next]_vars => AnswerInv'
<1> SUFFICES ASSUME TypeInv, AnswerInv, [Next]_vars, NEW p \in Posts PROVE Exists(p)'
  BY DEF AnswerInv
<1>1. \A t \in Posts : status[t] # "absent" => status'[t] # "absent"
  BY StatusStays
<1>2. Exists(p)
  BY DEF AnswerInv
<1>3. CASE apc'[p] = apc[p] /\ answer'[p] = answer[p]
  BY <1>1, <1>2, <1>3 DEF Exists
<1>4. CASE Handle(p) \/ HandlerFails(p)
  <2>1. \A t \in Posts : t \notin OtherAnswers
    BY NameAssumption
  <2>2. CASE ReturnExisting(p)
    <3>1. PICK t \in SameRequest(p) : Answer(p, t)
      BY <2>2 DEF ReturnExisting
    <3>2. answer'[p] = t /\ apc'[p] = "done" /\ t \in Posts /\ status[t] # "absent"
      BY <3>1 DEF Answer, SameRequest, TypeInv, TypeOK
    <3> QED BY <1>1, <3>2 DEF Exists
  <2>3. CASE Enqueue(p)
    <3>1. answer'[p] = p /\ apc'[p] = "done" /\ status[p] # "absent"
      BY <1>2, <2>3 DEF Enqueue, Charged, Answer, Exists, TypeInv, TypeOK
    <3> QED BY <1>1, <3>1 DEF Exists
  <2>4. CASE Reject(p) \/ Refuse(p) \/ HandlerFails(p)
    <3>1. answer'[p] \in OtherAnswers /\ apc'[p] = "done"
      BY <2>4 DEF Reject, Refuse, HandlerFails, Answer, OtherAnswers, TypeInv, TypeOK
    <3> QED BY <2>1, <3>1 DEF Exists
  <2>5. CASE NoneExisting(p) \/ CreateTask(p) \/ Reserve(p)
    <3>1. /\ answer' = answer
          /\ apc'[p] = "checked" \/ (apc'[p] = "created" /\ status'[p] = "queued")
             \/ (apc'[p] = "reserved" /\ apc[p] = "created")
      BY <2>5 DEF NoneExisting, CreateTask, Reserve, TypeInv, TypeOK
    <3> QED BY <1>1, <1>2, <3>1 DEF Exists
  <2> QED BY <1>4, <2>2, <2>3, <2>4, <2>5 DEF Handle
<1>5. ASSUME NEW w \in Workers, Deliver(w) \/ Work(w) \/ WorkerFault(w)
      PROVE  UNCHANGED <<apc, answer>>
  BY <1>5, WorkKeeps, FaultKeeps DEF api
<1> QED BY <1>3, <1>4, <1>5, Frame DEF Same, SameRow

(* The contract with the source.                                           *)
THEOREM SettledCorrect == Spec => []Settled
<1>1. CleanInv /\ AnswerInv => Settled
  <2> SUFFICES ASSUME CleanInv, AnswerInv, NEW t \in Posts, faults[t] = 0, AtRest(t)
               PROVE  \/ Completed(t) \/ FailedBack(t)
                      \/ /\ status[t] = "failed" /\ charge[t] = "none" /\ runs[t] = 0
                         /\ delivered[t] = <<>> /\ answer[t] = "insufficient_balance"
    BY DEF Settled, Completed, FailedBack
  <2>1. ~Queued(t) /\ ~Running(t) /\ apc[t] = "done" /\ status[t] # "absent"
    BY DEF AtRest, Accepted, AnswerInv, Exists
  <2>2. ~Waiting(t)
    <3> SUFFICES ASSUME NEW r \in 0..MaxRetries, Copies(t, r) = 1 PROVE FALSE
      BY DEF Waiting
    <3>1. queue[[task |-> t, retries |-> r]] > 0
      BY DEF Copies
    <3> QED BY <2>1, <3>1 DEF Queued
  <2>3. ~Working(t)
    BY <2>1 DEF Working, Live, On, Running, Task
  <2>4. Nowhere(t)
    BY <2>2, <2>3 DEF CleanInv, Clean
  <2> QED BY <2>1, <2>4 DEF Nowhere, Unborn, Born, Paid, Refused, Ended, Rows
<1>2. Init => TypeInv /\ CleanInv /\ AnswerInv
  BY TypeInit, CleanInit, AnswerInit
<1>3. TypeInv /\ CleanInv /\ AnswerInv /\ [Next]_vars => (TypeInv /\ CleanInv /\ AnswerInv)'
  BY TypeNext, CleanNext, AnswerNext
<1> QED BY <1>1, <1>2, <1>3, PTL DEF Spec

(* What a task has ended with stays its end.                               *)
LEMMA EndStays ==
  ASSUME TypeInv, CleanInv, [Next]_vars, NEW t \in Posts, faults[t] = 0,
         status[t] \in {"completed", "failed"}
  PROVE  status'[t] = status[t]
<1>1. Clean(t)
  BY DEF CleanInv
<1>2. ~Pending(t) /\ ~Unborn(t) /\ ~Born(t) /\ ~Paid(t)
  BY DEF Pending, Unborn, Born, Paid, Rows
<1>3. apc[t] = "done"
  BY <1>1, <1>2 DEF Clean, Nowhere, Waiting, Working, Refused, Ended
<1>4. CASE Same(t)
  BY <1>4 DEF Same, SameRow
<1>5. CASE Handle(t) \/ HandlerFails(t)
  BY <1>3, <1>5, HandlerOpen
<1>6. ASSUME NEW w \in Workers, Deliver(w) PROVE status'[t] = status[t]
  BY <1>6 DEF Deliver, db
<1>7. ASSUME NEW w \in Workers, On(w, t), Work(w) \/ WorkerFault(w)
      PROVE  status'[t] = status[t]
  <2>1. wpc[w] \notin {"loaded", "recorded", "failing"}
    <3> SUFFICES ASSUME wpc[w] \in {"loaded", "recorded", "failing"} PROVE FALSE
      OBVIOUS
    <3>1. Live(w, t)
      BY <1>7 DEF Live
    <3>2. Stage(w, t)
      BY <1>1, <3>1 DEF Clean, Nowhere, Waiting, Working, NoRun
    <3> QED BY <1>2, <3>2 DEF Stage, Rows
  <2> QED BY <1>7, <2>1, FaultKeeps DEF Work, MarkProcessing, Generate, RecordGeneration,
     MarkCompleted, Refund, Audit, SuccessCallback, FailedCallback, Callback, MarkFailed,
     Retry, Ack, Step, db
<1> QED BY <1>4, <1>5, <1>6, <1>7, Frame

(* What GET /tasks has once shown as the end of a task stays its end,      *)
(* unless a fault has struck this task.                                    *)
THEOREM EndCorrect == Spec => EndIsFinal
<1>1. TypeInv /\ CleanInv /\ [Next]_vars =>
        [\A t \in Posts : faults[t] = 0 /\ status[t] \in {"completed", "failed"}
            => status'[t] = status[t]]_vars
  BY EndStays
<1>2. Init => TypeInv /\ CleanInv
  BY TypeInit, CleanInit
<1>3. TypeInv /\ CleanInv /\ [Next]_vars => (TypeInv /\ CleanInv)'
  BY TypeNext, CleanNext
<1> QED BY <1>1, <1>2, <1>3, PTL DEF Spec, EndIsFinal

----------------------------------------------------------------------------
(* What is to come of a task, however many runs it has: its status will be *)
(* written again, or the end it shows will be refunded and told.           *)
At(t, places) == \E w \in Workers : On(w, t) /\ wpc[w] \in places
BeforeEnd == {"loaded", "generating", "saved", "recorded", "failing"}
Coming(t) == Queued(t) \/ At(t, BeforeEnd)

Untold(t, s) == /\ status[t] = s /\ t \in Callbacks /\ charge[t] # "none"
                /\ "callback" \notin dropped[t] /\ s \notin ToSet(delivered[t])
Goes(t) ==
    /\ status[t] \notin {"completed", "failed"} => Coming(t)
    /\ status[t] = "failed" /\ charge[t] = "held" /\ "refund" \notin dropped[t]
          => Coming(t) \/ At(t, {"failed"})
    /\ Untold(t, "completed") => Coming(t) \/ At(t, {"completed", "audited"})
    /\ Untold(t, "failed") => Coming(t) \/ At(t, {"failed", "refunded"})
Recovering(t) ==
    /\ apc[t] \in {"new", "checked"} => status[t] = "absent"
    /\ charge[t] # "none" => status[t] # "absent"
    /\ status[t] = "completed" => results[t] > 0
    /\ status[t] # "absent" /\ apc[t] = "done" /\ "run" \notin dropped[t] => Goes(t)
RecoveringInv == \A t \in Posts : Recovering(t)

(* At first there is no task.                                              *)
LEMMA RecoveringInit == Init => RecoveringInv
BY DEF Init, RecoveringInv, Recovering

(* The elements of a sequence that is appended to.                         *)
LEMMA AppendSet ==
  ASSUME NEW S, NEW s \in Seq(S), NEW e \in S
  PROVE  ToSet(Append(s, e)) = ToSet(s) \cup {e}
<1>1. /\ DOMAIN s = 1..Len(s) /\ DOMAIN Append(s, e) = 1..(Len(s) + 1) /\ Len(s) \in Nat
      /\ \A i \in 1..Len(s) : Append(s, e)[i] = s[i]
      /\ Append(s, e)[Len(s) + 1] = e
  OBVIOUS
<1> DEFINE a == Append(s, e)
<1> HIDE DEF a
<1>2. ToSet(s) = {s[i] : i \in 1..Len(s)} /\ ToSet(a) = {a[i] : i \in 1..(Len(s) + 1)}
  BY <1>1 DEF ToSet, a
<1>3. 1..(Len(s) + 1) = 1..Len(s) \cup {Len(s) + 1}
  BY <1>1
<1>4. \A i \in 1..Len(s) : a[i] = s[i]
  BY <1>1 DEF a
<1>5. a[Len(s) + 1] = e
  BY <1>1 DEF a
<1>6. ToSet(a) = ToSet(s) \cup {e}
  BY <1>2, <1>3, <1>4, <1>5
<1> QED BY <1>6 DEF a

(* A run's step takes no message away and moves no other run.              *)
LEMMA QueuedStays ==
  ASSUME TypeInv, NEW w \in Workers, NEW t \in Posts, On(w, t), Work(w) \/ WorkerFault(w), Queued(t)
  PROVE  Queued(t)'
<1>1. PICK r \in 0..MaxRetries : Copies(t, r) > 0
  BY DEF Queued, Copies
<1>2. UNCHANGED queue \/ \E m \in Messages : Publish(m)
  <2>1. /\ wmsg[w] \in Messages
        /\ wmsg[w].retries < MaxRetries => NextAttempt(wmsg[w]) \in Messages
    BY LeftOfWorker, NextMessage
  <2> QED BY <2>1 DEF Work, WorkerFault, MarkProcessing, Generate, RecordGeneration,
     MarkCompleted, Refund, Audit, SuccessCallback, FailedCallback, Callback, MarkFailed,
     Retry, MayRetry, Ack, Crash, PutsBack, Return, Redeliver, SoftLimit, Raise, Interrupt,
     Swallow, HardLimit, Escape, Abandon, CallbackLost
<1>3. \A m \in Messages : queue[m] > 0 => queue'[m] > 0
  <2>1. ASSUME NEW m \in Messages, NEW n \in Messages, queue[m] > 0, Publish(n)
        PROVE  queue'[m] > 0
    <3>1. queue[m] \in Nat /\ queue'[m] = IF m = n THEN queue[m] + 1 ELSE queue[m]
      BY <2>1 DEF Publish, TypeInv, TypeOK
    <3> QED BY <2>1, <3>1
  <2> QED BY <1>2, <2>1
<1>4. queue'[[task |-> t, retries |-> r]] > 0
  BY <1>1, <1>3, MessageFields DEF Copies
<1> QED BY <1>4 DEF Queued

(* Where the runs of a task are, after a step of one of them.              *)
LEMMA AtMoves ==
  ASSUME TypeInv, NEW w \in Workers, NEW t \in Posts, Work(w) \/ WorkerFault(w), NEW places
  PROVE  /\ At(t, places) /\ wpc[w] \notin places => At(t, places)'
         /\ On(w, t)' /\ wpc'[w] \in places => At(t, places)'
<1>1. \A v \in Workers \ {w} : wpc'[v] = wpc[v] /\ wmsg'[v] = wmsg[v]
  BY OneWorker
<1> QED BY <1>1 DEF At, On, Task

(* A message published is queued.                                          *)
LEMMA PublishQueued ==
  ASSUME TypeInv, NEW m \in Messages, Publish(m)
  PROVE  Queued(m.task)'
<1>1. m = [task |-> m.task, retries |-> m.retries]  /\ m.retries \in 0..MaxRetries
  BY DEF Messages
<1>2. queue'[m] > 0
  BY DEF TypeInv, TypeOK, Publish
<1> QED BY <1>1, <1>2 DEF Queued

(* The handler ends with the task queued, refused, or dropped.             *)
LEMMA RecoveringHandler ==
  ASSUME TypeInv, NEW t \in Posts, Recovering(t), Exists(t), Uncharged(t), Handle(t) \/ HandlerFails(t)
  PROVE  Recovering(t)'
<1>1. CASE ReturnExisting(t) \/ NoneExisting(t) \/ Reject(t)
  BY <1>1 DEF ReturnExisting, NoneExisting, Reject, Answer, db, money, Recovering,
     TypeInv, TypeOK
<1>2. CASE CreateTask(t) \/ Reserve(t)
  BY <1>2 DEF CreateTask, Reserve, Recovering, Exists, money, TypeInv, TypeOK
<1>3. CASE Refuse(t)
  <2>1. status'[t] = "failed" /\ charge'[t] = "none" /\ apc'[t] = "done"
    BY <1>3 DEF Refuse, Answer, Uncharged, money, TypeInv, TypeOK
  <2> QED BY <2>1 DEF Recovering, Goes, Untold
<1>4. CASE Enqueue(t) \/ HandlerFails(t)
  <2>1. UNCHANGED <<status, charge, results>> /\ apc'[t] = "done"
    BY <1>4 DEF Enqueue, HandlerFails, Answer, db, money, TypeInv, TypeOK
  <2>2. Publish([task |-> t, retries |-> 0]) \/ "run" \in dropped'[t]
    BY <1>4 DEF Enqueue, HandlerFails, Drops, TypeInv, TypeOK
  <2>3. CASE Publish([task |-> t, retries |-> 0])
    <3>1. Queued(t)'
      BY <2>3, PublishQueued, MessageFields
    <3> QED BY <2>1, <3>1 DEF Recovering, Goes, Coming
  <2>4. CASE "run" \in dropped'[t]
    BY <2>1, <2>4 DEF Recovering
  <2> QED BY <2>2, <2>3, <2>4
<1> QED BY <1>1, <1>2, <1>3, <1>4 DEF Handle

(* A message delivered is as good as queued.                               *)
LEMMA RecoveringDeliver ==
  ASSUME TypeInv, NEW t \in Posts, Recovering(t), NEW w \in Workers, Deliver(w), On(w, t)'
  PROVE  Recovering(t)'
<1>1. wpc'[w] = "loaded" /\ UNCHANGED <<status, charge, results, apc>>
  BY DEF Deliver, Goto, api, db, money, TypeInv, TypeOK
<1>2. At(t, BeforeEnd)'
  BY <1>1 DEF At, BeforeEnd
<1> QED BY <1>1, <1>2 DEF Recovering, Goes, Coming

(* The run of a worker: it is to come, or makes the end and tells it.      *)
LEMMA RecoveringWork ==
  ASSUME TypeInv, NEW t \in Posts, Recovering(t), Backed(t), Unpaid(t), Uncharged(t),
         NEW w \in Workers, Work(w), On(w, t)
  PROVE  Recovering(t)'
<1>1. /\ charge[t] # "none" /\ apc[t] \notin {"new", "checked", "created"} /\ Task(w) = t
      /\ status[t] # "absent"
  BY DEF Unpaid, Uncharged, On, Recovering
<1>2. UNCHANGED <<apc, dropped>>
  BY WorkKeeps DEF api, struck
<1>3. status'[t] = "completed" => results'[t] > 0
  <2>1. CASE MarkCompleted(w)
    BY <2>1 DEF MarkCompleted, Step, Backed, On
  <2>2. CASE RecordGeneration(w)
    BY <1>1, <2>2 DEF RecordGeneration, WithResult, Recovering, TypeInv, TypeOK
  <2>3. CASE MarkProcessing(w) \/ MarkFailed(w)
    BY <1>1, <2>3 DEF MarkProcessing, MarkFailed, Failed, TypeInv, TypeOK
  <2>4. CASE ~MarkCompleted(w) /\ ~RecordGeneration(w) /\ ~MarkProcessing(w) /\ ~MarkFailed(w)
    BY <2>4 DEF Work, Generate, Audit, Ack, SuccessCallback, FailedCallback, Callback,
       Refund, Retry, db, Recovering
  <2> QED BY <2>1, <2>2, <2>3, <2>4
<1>4. status'[t] # "absent"
  BY <1>1 DEF Work, MarkProcessing, Generate, RecordGeneration, MarkCompleted, Audit,
     Ack, SuccessCallback, FailedCallback, Callback, MarkFailed, Failed, Refund, Retry,
     db, TypeInv, TypeOK
<1> SUFFICES ASSUME "run" \notin dropped[t], apc[t] = "done" PROVE Goes(t)'
  BY <1>1, <1>2, <1>3, <1>4 DEF Recovering
<1>5. Goes(t)
  BY <1>1 DEF Recovering
<1>6. Coming(t)' => Goes(t)'
  BY DEF Goes
<1>7. /\ Queued(t) => Queued(t)'
      /\ \A places : /\ At(t, places) /\ wpc[w] \notin places => At(t, places)'
                     /\ On(w, t)' /\ wpc'[w] \in places => At(t, places)'
  BY QueuedStays, AtMoves
<1>8. Coming(t) => Coming(t)' \/ wpc[w] \in BeforeEnd
  BY <1>7 DEF Coming
<1>9. On(w, t)' /\ wpc'[w] \in BeforeEnd => Goes(t)'
  BY <1>6, <1>7 DEF Coming
<1>10. CASE MarkProcessing(w) \/ Generate(w) \/ RecordGeneration(w)
  <2>1. wmsg' = wmsg /\ wpc'[w] \in {"generating", "saved", "recorded", "failing"}
    BY <1>10 DEF MarkProcessing, Generate, RecordGeneration, Step, Goto, TypeInv,
       TypeOK
  <2> QED BY <1>1, <1>9, <2>1 DEF On, Task, BeforeEnd
<1>11. CASE MarkCompleted(w)
  <2>1. wmsg' = wmsg /\ wpc'[w] = "completed" /\ status'[t] = "completed"
    BY <1>1, <1>11 DEF MarkCompleted, Step, Goto, TypeInv, TypeOK
  <2>2. At(t, {"completed", "audited"})'
    BY <1>1, <1>7, <2>1 DEF On, Task
  <2> QED BY <2>1, <2>2 DEF Goes, Untold
<1>12. CASE MarkFailed(w)
  <2>1. wmsg' = wmsg /\ wpc'[w] = "failed" /\ status'[t] = "failed"
    BY <1>1, <1>12 DEF MarkFailed, Failed, Step, Goto, TypeInv, TypeOK
  <2>2. At(t, {"failed"})' /\ At(t, {"failed", "refunded"})'
    BY <1>1, <1>7, <2>1 DEF On, Task
  <2> QED BY <2>1, <2>2 DEF Goes, Untold
<1>13. CASE Retry(w)
  <2>1. /\ NextAttempt(wmsg[w]) \in Messages /\ NextAttempt(wmsg[w]).task = t
        /\ Publish(NextAttempt(wmsg[w]))
    BY <1>13, LeftOfWorker, NextMessage DEF Retry, MayRetry, Step, Goto, TypeInv,
       TypeOK
  <2>2. Queued(t)'
    BY <2>1, PublishQueued
  <2> QED BY <1>6, <2>2 DEF Coming
<1>14. CASE Audit(w)
  <2>1. wpc[w] = "completed" /\ wpc'[w] = "audited" /\ wmsg' = wmsg /\ UNCHANGED <<status, charge, delivered>>
    BY <1>14 DEF Audit, money, Step, Goto, TypeInv, TypeOK
  <2>2. Coming(t) => Coming(t)'
    BY <1>8, <2>1 DEF BeforeEnd
  <2>3. /\ At(t, {"failed"}) => At(t, {"failed"})'
        /\ At(t, {"failed", "refunded"}) => At(t, {"failed", "refunded"})'
        /\ At(t, {"completed", "audited"})'
    BY <1>1, <1>7, <2>1 DEF On, Task
  <2> QED BY <1>2, <1>5, <2>1, <2>2, <2>3 DEF Goes, Untold
<1>15. CASE SuccessCallback(w) \/ FailedCallback(w)
  <2>1. PICK s \in {"completed", "failed"} : /\ Send(t, s)
                                             /\ wpc[w] = IF s = "completed" THEN "audited" ELSE "refunded"
    BY <1>1, <1>15 DEF SuccessCallback, FailedCallback, Callback, Step, Goto,
       TypeInv, TypeOK
  <2>2. UNCHANGED <<status, charge>>
    BY <1>15 DEF SuccessCallback, FailedCallback, Callback, db, money, Step, Goto,
       TypeInv, TypeOK
  <2>3. t \in Callbacks => ToSet(delivered'[t]) = ToSet(delivered[t]) \cup {s}
    <3>1. t \in Callbacks => delivered'[t] = Append(delivered[t], s)
      BY <2>1 DEF Send, TypeInv, TypeOK
    <3>2. delivered[t] \in Seq({"completed", "failed"})
      BY DEF TypeInv, TypeOK
    <3>3. ToSet(Append(delivered[t], s)) = ToSet(delivered[t]) \cup {s}
      BY ONLY <3>2, s \in {"completed", "failed"}, AppendSet
    <3> QED BY <3>1, <3>3
  <2>4. Coming(t) => Coming(t)'
    BY <1>8, <2>1 DEF BeforeEnd
  <2>5. /\ At(t, {"failed"}) => At(t, {"failed"})'
        /\ s = "completed" /\ At(t, {"failed", "refunded"}) => At(t, {"failed", "refunded"})'
        /\ s = "failed" /\ At(t, {"completed", "audited"}) => At(t, {"completed", "audited"})'
    BY <1>7, <2>1
  <2> QED BY <1>2, <1>5, <2>1, <2>2, <2>3, <2>4, <2>5 DEF Goes, Untold
<1>16. CASE Refund(w)
  <2>1. wpc[w] = "failed" /\ wpc'[w] = "refunded" /\ wmsg' = wmsg /\ UNCHANGED <<status, delivered>>
    BY <1>16 DEF Refund, Step, Goto, TypeInv, TypeOK
  <2>2. charge'[t] # "held"
    BY <1>1, <1>16 DEF Refund, Refundable, money, Step, Goto, TypeInv, TypeOK
  <2>3. Coming(t) => Coming(t)'
    BY <1>8, <2>1 DEF BeforeEnd
  <2>4. /\ At(t, {"failed", "refunded"})'
        /\ At(t, {"completed", "audited"}) => At(t, {"completed", "audited"})'
    BY <1>1, <1>7, <2>1 DEF On, Task
  <2> QED BY <1>1, <1>2, <1>5, <2>1, <2>2, <2>3, <2>4 DEF Goes, Untold
<1>17. CASE Ack(w)
  <2>1. wpc[w] = "finished" /\ UNCHANGED <<status, charge, delivered>>
    BY <1>17 DEF Ack, db, money, Step, Goto, TypeInv, TypeOK
  <2>2. Coming(t) => Coming(t)'
    BY <1>8, <2>1 DEF BeforeEnd
  <2>3. /\ At(t, {"failed"}) => At(t, {"failed"})'
        /\ At(t, {"failed", "refunded"}) => At(t, {"failed", "refunded"})'
        /\ At(t, {"completed", "audited"}) => At(t, {"completed", "audited"})'
    BY <1>7, <2>1
  <2> QED BY <1>2, <1>5, <2>1, <2>2, <2>3 DEF Goes, Untold
<1> QED BY <1>10, <1>11, <1>12, <1>13, <1>14, <1>15, <1>16, <1>17 DEF Work

(* Its faults: a message put back, an exception handled, or a step of it   *)
(* dropped for good.                                                       *)
LEMMA RecoveringFault ==
  ASSUME TypeInv, NEW t \in Posts, Recovering(t), Unpaid(t), Uncharged(t),
         NEW w \in Workers, WorkerFault(w), On(w, t)
  PROVE  Recovering(t)'
<1>1. /\ charge[t] # "none" /\ apc[t] \notin {"new", "checked", "created"} /\ Task(w) = t
      /\ status[t] # "absent"
  BY DEF Unpaid, Uncharged, On, Recovering
<1>2. UNCHANGED <<apc, status, charge, results>>
  BY FaultKeeps DEF api, db, money
<1>3. dropped[t] \subseteq dropped'[t]
  <2>1. UNCHANGED dropped \/ \E steps : Drops(t, steps)
    BY <1>1 DEF WorkerFault, Crash, Redeliver, SoftLimit, Raise, Interrupt, Swallow,
       HardLimit, Escape, Abandon, CallbackLost
  <2> QED BY <2>1 DEF Drops, TypeInv, TypeOK
<1> SUFFICES ASSUME "run" \notin dropped'[t], apc[t] = "done" PROVE Goes(t)'
  BY <1>1, <1>2 DEF Recovering
<1>4. Goes(t)
  BY <1>1, <1>3 DEF Recovering
<1>5. Coming(t)' => Goes(t)'
  BY DEF Goes
<1>6. /\ Queued(t) => Queued(t)'
      /\ \A places : /\ At(t, places) /\ wpc[w] \notin places => At(t, places)'
                     /\ On(w, t)' /\ wpc'[w] \in places => At(t, places)'
  BY QueuedStays, AtMoves
<1>7. wpc[w] \notin BeforeEnd => (Coming(t) => Coming(t)')
  BY <1>6 DEF Coming
<1>8. wmsg[w] \in Messages /\ wmsg[w].task = t
  BY LeftOfWorker
<1>9. Publish(wmsg[w]) => Goes(t)'
  <2>1. Publish(wmsg[w]) => Queued(t)'
    BY <1>8, PublishQueued
  <2> QED BY <1>5, <2>1 DEF Coming
<1>10. CASE Crash(w) \/ Redeliver(w) \/ HardLimit(w) \/ Escape(w)
  <2>1. Publish(wmsg[w]) \/ "run" \in dropped'[t]
    BY <1>1, <1>10 DEF Crash, PutsBack, Return, Redeliver, HardLimit, Escape, Abandon,
       Drops, Step, Goto, TypeInv, TypeOK
  <2> QED BY <1>9, <2>1
<1>11. CASE SoftLimit(w) \/ Raise(w)
  <2>1. wmsg' = wmsg /\ wpc'[w] = "failing"
    BY <1>11 DEF SoftLimit, Raise, Interrupt, Step, Goto, TypeInv, TypeOK
  <2>2. At(t, BeforeEnd)'
    BY <1>1, <1>6, <2>1 DEF On, Task, BeforeEnd
  <2> QED BY <1>5, <2>2 DEF Coming
<1>12. CASE Swallow(w)
  <2>1. delivered' = delivered /\ wpc[w] \in {"completed", "failed"}
    BY <1>12 DEF Swallow, Step, Goto, TypeInv, TypeOK
  <2>2. Coming(t) => Coming(t)'
    BY <1>7, <2>1 DEF BeforeEnd
  <2>3. CASE wpc[w] = "completed"
    <3>1. wpc'[w] = "audited" /\ wmsg' = wmsg /\ dropped' = dropped
      BY <1>12, <2>3 DEF Swallow, Step, Goto, TypeInv, TypeOK
    <3>2. /\ At(t, {"failed"}) => At(t, {"failed"})'
          /\ At(t, {"failed", "refunded"}) => At(t, {"failed", "refunded"})'
          /\ At(t, {"completed", "audited"})'
      BY <1>1, <1>6, <2>3, <3>1 DEF On, Task
    <3> QED BY <1>2, <1>4, <2>1, <2>2, <3>1, <3>2 DEF Goes, Untold
  <2>4. CASE wpc[w] = "failed"
    <3>1. /\ "refund" \in dropped'[t]
          /\ (wpc'[w] = "refunded" /\ wmsg' = wmsg) \/ "callback" \in dropped'[t]
      BY <1>1, <1>12, <2>4 DEF Swallow, Drops, Step, Goto, TypeInv, TypeOK
    <3>2. /\ At(t, {"completed", "audited"}) => At(t, {"completed", "audited"})'
          /\ At(t, {"failed", "refunded"})' \/ "callback" \in dropped'[t]
      <4>1. At(t, {"completed", "audited"}) => At(t, {"completed", "audited"})'
        BY <1>6, <2>4
      <4>2. CASE wpc'[w] = "refunded" /\ wmsg' = wmsg
        <5>1. On(w, t)'
          BY <1>1, <4>2 DEF On, Task
        <5> QED BY <1>6, <4>1, <4>2, <5>1
      <4> QED BY <3>1, <4>1, <4>2
    <3> QED BY <1>2, <1>3, <1>4, <2>1, <2>2, <3>1, <3>2 DEF Goes, Untold
  <2> QED BY <2>1, <2>3, <2>4
<1>13. CASE CallbackLost(w, "audited") \/ CallbackLost(w, "refunded")
  <2>1. wpc[w] \in {"audited", "refunded"} /\ "callback" \in dropped'[t]
    BY <1>1, <1>13 DEF CallbackLost, Drops, Step, Goto, TypeInv, TypeOK
  <2>2. Coming(t) => Coming(t)'
    BY <1>7, <2>1 DEF BeforeEnd
  <2>3. At(t, {"failed"}) => At(t, {"failed"})'
    BY <1>6, <2>1
  <2> QED BY <1>2, <1>3, <1>4, <2>1, <2>2, <2>3 DEF Goes, Untold
<1> QED BY <1>10, <1>11, <1>12, <1>13 DEF WorkerFault

(* The invariants together, from which the rest follows.                   *)
IInv == /\ TypeInv /\ PaidInv /\ MoneyInv /\ BackedInv /\ AnswerInv /\ RecoveringInv

(* Every step keeps what is to come.                                       *)
LEMMA RecoveringNext == IInv /\ [Next]_vars => RecoveringInv'
<1> SUFFICES ASSUME IInv, [Next]_vars, NEW t \in Posts PROVE Recovering(t)'
  BY DEF RecoveringInv
<1>1. TypeInv /\ Recovering(t) /\ Backed(t) /\ Unpaid(t) /\ Uncharged(t) /\ Exists(t)
  BY DEF IInv, PaidInv, MoneyInv, BackedInv, AnswerInv, RecoveringInv
<1>2. CASE Same(t)
  <2>1. Queued(t)' <=> Queued(t)
    BY <1>2 DEF Same, SameCopies, Copies, Queued
  <2>2. \A places : At(t, places)' <=> At(t, places)
    BY <1>2 DEF Same, SameWorkers, At
  <2> QED BY <1>1, <1>2, <2>1, <2>2 DEF Same, SameRow, Recovering, Goes, Untold, Coming
<1> QED BY <1>1, <1>2, Frame, RecoveringHandler, RecoveringDeliver, RecoveringWork,
   RecoveringFault

(* In spite of lost workers, redelivery, the soft limit and failing        *)
(* statements, a task at rest of which no run was dropped has ended, with  *)
(* its result or its credits back, and the source was told.                *)
THEOREM RecoveredCorrect == Spec => []Recovered
<1>1. IInv => Recovered
  <2> SUFFICES ASSUME IInv, NEW t \in Posts, AtRest(t), "run" \notin dropped[t]
               PROVE  /\ status[t] \in {"completed", "failed"}
                      /\ status[t] = "completed" => results[t] > 0
                      /\ status[t] = "failed" /\ "refund" \notin dropped[t] => charge[t] # "held"
                      /\ t \in Callbacks /\ charge[t] # "none" /\ "callback" \notin dropped[t] =>
                            status[t] \in ToSet(delivered[t])
    BY DEF Recovered
  <2>1. ~Queued(t) /\ ~Running(t) /\ apc[t] = "done" /\ status[t] # "absent"
    BY DEF AtRest, Accepted, IInv, AnswerInv, Exists
  <2>2. ~Coming(t) /\ \A places : ~At(t, places)
    BY <2>1 DEF Coming, At, On, Running, Task
  <2>3. Recovering(t) /\ Goes(t)
    BY <2>1 DEF IInv, RecoveringInv, Recovering
  <2> QED BY <2>2, <2>3 DEF Recovering, Goes, Untold
<1>2. Init => IInv
  BY TypeInit, PaidInit, MoneyInit, BackedInit, AnswerInit, RecoveringInit DEF IInv
<1>3. IInv /\ [Next]_vars => IInv'
  BY TypeNext, PaidNext, MoneyNext, BackedNext, AnswerNext, RecoveringNext DEF IInv
<1> QED BY <1>1, <1>2, <1>3, PTL DEF Spec
=============================================================================
