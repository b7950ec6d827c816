---------------------------- MODULE CallbackProofs ----------------------------
(***************************************************************************)
(* Proofs about module CallbackDelivery, for any time limits, any number   *)
(* of attempts and any durations.                                          *)
(***************************************************************************)
EXTENDS CallbackDelivery, Sums

(* A wait between two attempts is a number of seconds.                     *)
LEMMA WaitLasts ==
  ASSUME NEW k \in Nat \ {0}
  PROVE  Wait(k) \in Nat
<1> DEFINE p == 2^(k - 1)
<1>1. p \in Int
  <2>1. k - 1 \in Nat
    OBVIOUS
  <2>2. \A n \in Nat : 2^n \in Int
    OBVIOUS
  <2> QED BY <2>1, <2>2
<1> HIDE DEF p
<1>2. Min({60, p}) \in {60, p} /\ Min({60, p}) \in Int
  BY <1>1 DEF Min
<1> DEFINE q == Min({60, p})
<1> HIDE DEF q
<1>3. q \in Int
  BY <1>2 DEF q
<1>4. Max({2, q}) \in Nat
  BY <1>3 DEF Max
<1> QED BY <1>4 DEF Wait, p, q

----------------------------------------------------------------------------
(* What the place of a run says of its calls: a call that is made has its  *)
(* row open from its first attempt on, an attempt left while it is tried,  *)
(* every attempt used when it has failed, and the source's consent when it *)
(* is delivered; the call of a failure is untouched until it is made, and  *)
(* that of a result was left by an exception then, if it was made.         *)
Untouched(c) == hook[c] = [status |-> None, attempts |-> 0] /\ tries[c] = 0 /\ accepted[c] = 0
Opened(c) == hook[c] = [status |-> "pending", attempts |-> 0]
Place ==
    CASE pc = "idle" -> call = None
      [] pc = "insert" -> Untouched(call)
      [] pc = "post" -> tries[call] < MaxAttempts
      [] pc = "wait" -> tries[call] < MaxAttempts /\ tries[call] > 0
      [] pc = "delivered" -> accepted[call] > 0
      [] pc = "failed" -> tries[call] = MaxAttempts
      [] OTHER -> TRUE
CallsInv ==
    /\ pc # "idle" => call \in Calls
    /\ Place
    /\ call = None => \A c \in Calls : Untouched(c)
    /\ call # "failed" => Untouched("failed")
    /\ pc \in {"post", "wait", "delivered", "failed"} => Opened(call)
    /\ call = "failed" => Untouched("completed") \/ cut["completed"] # None
    /\ \A c \in Calls : accepted[c] <= tries[c]

IInv == TypeOK /\ CallsInv /\ HookHonest

LEMMA Started == Init => IInv
<1> SUFFICES ASSUME Init PROVE IInv
  OBVIOUS
<1> USE DeliveryAssumption
<1>1. TypeOK
  <2>0. limit \in BOOLEAN /\ valid \in BOOLEAN
    BY DEF Init
  <2>1. /\ clock \in 0..Hard
        /\ call \in Calls \cup {None}
        /\ pc \in {"idle", "insert", "post", "wait", "delivered", "failed", "over", "killed"}
    BY DEF Init, Calls
  <2>2. hook \in [Calls -> [status : {None, "pending", "delivered", "failed"},
                            attempts : 0..MaxAttempts]]
    BY DEF Init
  <2>3. /\ tries \in [Calls -> 0..MaxAttempts] /\ begun \in [Calls -> 0..Hard]
        /\ accepted \in [Calls -> 0..MaxAttempts] /\ posted \in [Calls -> Nat]
        /\ cut \in [Calls -> {None, "limit", "error", "unparsed"}]
    BY DEF Init
  <2> QED BY <2>0, <2>1, <2>2, <2>3 DEF TypeOK
<1>2. CallsInv
  BY DEF Init, CallsInv, Place, Untouched, Opened, Calls
<1>3. HookHonest
  BY DEF Init, HookHonest, Calls
<1> QED BY <1>1, <1>2, <1>3 DEF IInv

(* The run is in a call, and a step of it counts at most its own attempt.  *)
InCall == pc \in {"insert", "post", "wait", "delivered", "failed"}
Counts == /\ limit' \in BOOLEAN /\ valid' = valid
          /\ tries' \in [Calls -> 0..MaxAttempts]
          /\ accepted' \in [Calls -> 0..MaxAttempts]
          /\ \A c \in Calls \ {call} : tries'[c] = tries[c] /\ accepted'[c] = accepted[c]
          /\ accepted'[call] <= tries'[call] /\ accepted[call] <= accepted'[call]
          /\ posted' \in [Calls -> Nat]
          /\ \A c \in Calls \ {call} : posted'[c] = posted[c]

(* What such a step may do to the rows: nothing, insert its own or close   *)
(* its own.                                                                *)
Keeps == UNCHANGED hook
Inserts == /\ pc = "insert" /\ UNCHANGED <<tries, posted, accepted>>
           /\ hook' = [hook EXCEPT ![call] = [status |-> "pending", attempts |-> 0]]
Closes == /\ pc \in {"delivered", "failed"} /\ UNCHANGED <<tries, posted, accepted>>
          /\ hook' = [hook EXCEPT ![call] = [status |-> pc, attempts |-> tries[call]]]

(* What it comes to: a limit of the run or an error that is not caught;    *)
(* the next place in the same call; or the end of the call.                *)
Errors == {"limit", "error", "unparsed"}
GivesUp == /\ Keeps \/ Inserts \/ Closes
           /\ Killed \/ \E e \in Errors : \E t \in 0..Hard : Escape(t, e)
Same == clock' \in 0..Hard /\ UNCHANGED <<call, begun, cut>>
GoesOn == /\ Same
          /\ \/ Inserts /\ pc' = "post"
             \/ Keeps /\ pc = "wait" /\ pc' = "post" /\ tries'[call] < MaxAttempts
             \/ /\ Keeps /\ pc = "post"
                /\ \/ pc' = "wait" /\ tries'[call] \in 1..(MaxAttempts - 1)
                   \/ pc' = "delivered" /\ accepted'[call] > 0
                   \/ pc' = "failed" /\ tries'[call] = MaxAttempts
             \/ Closes /\ pc' = "over"

(* The rows after a step of a call: typed, and only the call's own is new. *)
LEMMA RowsAfter ==
  ASSUME IInv, InCall, Counts, Keeps \/ Inserts \/ Closes
  PROVE  /\ hook' \in [Calls -> [status : {None, "pending", "delivered", "failed"},
                                 attempts : 0..MaxAttempts]]
         /\ \A c \in Calls \ {call} : hook'[c] = hook[c]
         /\ Keeps \/ hook'[call].status = "pending"
              \/ /\ hook'[call] = [status |-> pc, attempts |-> tries[call]]
                 /\ pc \in {"delivered", "failed"}
                 /\ tries'[call] = tries[call] /\ accepted'[call] = accepted[call]
         /\ Inserts => hook'[call] = [status |-> "pending", attempts |-> 0]
<1> USE DeliveryAssumption
<1>0. call \in Calls /\ TypeOK /\ tries[call] \in 0..MaxAttempts
  BY DEF IInv, InCall, CallsInv, TypeOK
<1>1. CASE Keeps
  BY <1>0, <1>1 DEF TypeOK, Keeps, Inserts
<1>2. CASE Inserts
  BY <1>0, <1>2 DEF TypeOK, Inserts
<1>3. CASE Closes
  <2>1. [status |-> pc, attempts |-> tries[call]]
          \in [status : {None, "pending", "delivered", "failed"}, attempts : 0..MaxAttempts]
    BY <1>0, <1>3 DEF Closes
  <2> QED BY <1>0, <1>3, <2>1 DEF TypeOK, Closes, Inserts
<1> QED BY <1>1, <1>2, <1>3

(* The rows stay honest when every row left open is of a call that goes on *)
(* or was left by an exception.                                            *)
LEMMA StaysHonest ==
  ASSUME IInv, InCall, Counts, Keeps \/ Inserts \/ Closes,
         Keeps => hook'[call].status \notin {"delivered", "failed"} \/ pc = "over",
         \A c \in Calls : hook'[c].status = "pending" =>
             cut'[c] # None \/ (call' = c /\ pc' \notin {"over", "killed"})
  PROVE  HookHonest'
<1> USE DeliveryAssumption
<1>0. call \in Calls /\ TypeOK /\ CallsInv /\ HookHonest
  BY DEF IInv, InCall, CallsInv
<1>1. /\ \A c \in Calls \ {call} : hook'[c] = hook[c]
      /\ Keeps \/ hook'[call].status = "pending"
           \/ /\ hook'[call] = [status |-> pc, attempts |-> tries[call]]
              /\ pc \in {"delivered", "failed"}
              /\ tries'[call] = tries[call] /\ accepted'[call] = accepted[call]
  BY RowsAfter
<1>2. /\ hook'[call].status = "delivered" => accepted'[call] > 0
      /\ hook'[call].status = "failed" => hook'[call].attempts = MaxAttempts
      /\ hook'[call].status \in {"delivered", "failed"} => hook'[call].attempts = tries'[call]
  BY <1>0, <1>1 DEF InCall, CallsInv, Place
<1>3. ASSUME NEW c \in Calls \ {call}
      PROVE  /\ hook'[c].status = "delivered" => accepted'[c] > 0
             /\ hook'[c].status = "failed" => hook'[c].attempts = MaxAttempts
             /\ hook'[c].status \in {"delivered", "failed"} => hook'[c].attempts = tries'[c]
  BY <1>0, <1>1 DEF HookHonest, Counts
<1> QED BY <1>0, <1>2, <1>3 DEF HookHonest

(* While a call goes on its row is not closed.                             *)
LEMMA NotClosed ==
  ASSUME IInv, InCall
  PROVE  hook[call].status \in {None, "pending"} /\ call \in Calls
BY DEF IInv, InCall, CallsInv, Place, Untouched, Opened

LEMMA WaysOut ==
  ASSUME IInv, InCall, Counts, GivesUp
  PROVE  IInv'
<1> USE DeliveryAssumption
<1>0. call \in Calls /\ TypeOK /\ CallsInv /\ HookHonest
  BY DEF IInv, InCall, CallsInv
<1>1. /\ hook' \in [Calls -> [status : {None, "pending", "delivered", "failed"},
                              attempts : 0..MaxAttempts]]
      /\ \A c \in Calls \ {call} : hook'[c] = hook[c]
      /\ Keeps \/ Inserts \/ Closes
  BY RowsAfter DEF GivesUp
<1>2. PICK e \in Errors : cut' = [cut EXCEPT ![call] = e]
  BY DEF GivesUp, Killed, Escape, Errors
<1>3. /\ cut' \in [Calls -> {None, "limit", "error", "unparsed"}]
      /\ cut'[call] # None /\ \A c \in Calls \ {call} : cut'[c] = cut[c]
  BY <1>0, <1>2 DEF TypeOK, Errors
<1>4. Keeps => hook'[call].status \notin {"delivered", "failed"}
  BY NotClosed DEF Keeps
<1>5. \A c \in Calls : hook'[c].status = "pending" => cut'[c] # None
  BY <1>0, <1>1, <1>3 DEF HookHonest
<1>6. HookHonest'
  BY <1>1, <1>4, <1>5, StaysHonest
<1>7. CASE pc' \in {"over", "killed"} /\ UNCHANGED <<call, begun>> /\ clock' \in 0..Hard
  <2>1. TypeOK'
    BY <1>0, <1>1, <1>3, <1>7 DEF TypeOK, Counts
  <2>2. CallsInv'
    <3>1. pc' \notin {"idle", "insert", "post", "wait", "delivered", "failed"}
      BY <1>7
    <3>2. Place'
      BY <3>1 DEF Place
    <3>3. call # "failed" => Untouched("failed")'
      BY <1>0, <1>1 DEF CallsInv, Untouched, Counts, Calls
    <3>4. call = "failed" => Untouched("completed")' \/ cut'["completed"] # None
      BY <1>0, <1>1, <1>3 DEF CallsInv, Untouched, Counts, Calls
    <3>5. \A c \in Calls : accepted'[c] <= tries'[c]
      BY <1>0 DEF CallsInv, Counts
    <3>6. call' \in Calls /\ call' # None /\ call' = call
      BY <1>0, <1>7 DEF Calls
    <3> QED BY <3>1, <3>2, <3>3, <3>4, <3>5, <3>6 DEF CallsInv
  <2> QED BY <1>6, <2>1, <2>2 DEF IInv
<1>8. ASSUME NEW t \in 0..Hard, call = "completed", Open("failed", t), clock' = t
      PROVE  IInv'
  <2>1. Untouched("failed") /\ "failed" \in Calls \ {call}
    BY <1>0, <1>8 DEF CallsInv, Calls
  <2>2. Untouched("failed")'
    BY <1>1, <2>1 DEF Untouched, Counts
  <2>3. call' = "failed" /\ pc' = "insert" /\ begun' \in [Calls -> 0..Hard]
    BY <1>0, <1>8 DEF Open, TypeOK
  <2>4. TypeOK'
    BY <1>0, <1>1, <1>3, <1>8, <2>1, <2>3 DEF TypeOK, Counts
  <2>5. \A c \in Calls : accepted'[c] <= tries'[c]
    BY <1>0 DEF CallsInv, Counts
  <2>6. CallsInv'
    BY <1>0, <1>3, <1>8, <2>1, <2>2, <2>3, <2>5 DEF CallsInv, Place
  <2> QED BY <1>6, <2>4, <2>6 DEF IInv
<1> QED BY <1>7, <1>8 DEF GivesUp, Killed, Escape

LEMMA Onwards ==
  ASSUME IInv, InCall, Counts, GoesOn
  PROVE  IInv'
<1> USE DeliveryAssumption
<1>0. call \in Calls /\ TypeOK /\ CallsInv /\ HookHonest
  BY DEF IInv, InCall, CallsInv
<1>1. /\ hook' \in [Calls -> [status : {None, "pending", "delivered", "failed"},
                              attempts : 0..MaxAttempts]]
      /\ \A c \in Calls \ {call} : hook'[c] = hook[c]
      /\ Keeps \/ Inserts \/ Closes
      /\ Inserts => hook'[call] = [status |-> "pending", attempts |-> 0]
  BY RowsAfter DEF GoesOn
<1>2. Same /\ pc' \in {"post", "wait", "delivered", "failed", "over"}
  BY DEF GoesOn
<1>3. TypeOK'
  BY <1>0, <1>1, <1>2 DEF Same, TypeOK, Counts
<1>4. pc' # "over" => Opened(call)'
  <2>1. CASE Inserts
    BY <1>1, <1>2, <2>1 DEF Opened, Same
  <2>2. CASE Keeps /\ pc # "insert"
    BY <1>0, <1>2, <2>2 DEF Opened, Same, Keeps, CallsInv, InCall
  <2> QED BY <2>1, <2>2 DEF GoesOn
<1>5. Place'
  <2>1. pc' = "post" => tries'[call] < MaxAttempts
    BY <1>0 DEF GoesOn, Inserts, CallsInv, Place, Untouched, Closes
  <2>2. /\ pc' = "wait" => tries'[call] < MaxAttempts /\ tries'[call] > 0
        /\ pc' = "delivered" => accepted'[call] > 0
        /\ pc' = "failed" => tries'[call] = MaxAttempts
    BY DEF GoesOn
  <2> QED BY <1>2, <2>1, <2>2 DEF Place, Same
<1>6. CallsInv'
  <2>1. call' = call /\ call # None /\ pc' # "idle" /\ cut' = cut
    BY <1>0, <1>2 DEF Same, Calls
  <2>2. call # "failed" => Untouched("failed")'
    BY <1>0, <1>1 DEF CallsInv, Untouched, Counts, Calls
  <2>3. call = "failed" => Untouched("completed")' \/ cut["completed"] # None
    BY <1>0, <1>1 DEF CallsInv, Untouched, Counts, Calls
  <2>4. \A c \in Calls : accepted'[c] <= tries'[c]
    BY <1>0 DEF CallsInv, Counts
  <2> QED BY <1>0, <1>2, <1>4, <1>5, <2>1, <2>2, <2>3, <2>4 DEF CallsInv
<1>7. HookHonest'
  <2>1. Keeps => hook'[call].status \notin {"delivered", "failed"}
    BY NotClosed DEF Keeps
  <2>2. ASSUME NEW c \in Calls, hook'[c].status = "pending"
        PROVE  cut'[c] # None \/ (call' = c /\ pc' \notin {"over", "killed"})
    <3>1. CASE c # call
      BY <1>0, <1>1, <1>2, <2>2, <3>1 DEF HookHonest, Same
    <3>2. CASE c = call
      <4>1. pc' = "over" => hook'[call].status = pc /\ pc # "pending"
        BY <1>0 DEF GoesOn, Closes, TypeOK
      <4> QED BY <1>2, <2>2, <3>2, <4>1 DEF Same
    <3> QED BY <3>1, <3>2
  <2> QED BY <1>1, <2>1, <2>2, StaysHonest
<1> QED BY <1>3, <1>6, <1>7 DEF IInv

LEMMA Beginning ==
  ASSUME IInv, NEW c \in Calls, NEW t \in 0..Hard, Report(c, t)
  PROVE  /\ IInv' /\ call = None
         /\ pc' = "insert" /\ call' = c /\ UNCHANGED <<accepted, hook>>
<1> USE DeliveryAssumption
<1>0. /\ pc = "idle" /\ call = None /\ TypeOK /\ CallsInv /\ HookHonest
      /\ \A d \in Calls : Untouched(d)
  BY DEF IInv, CallsInv, Place, Report
<1>1. /\ clock' = t /\ limit' \in BOOLEAN
      /\ UNCHANGED <<valid, hook, tries, posted, accepted, cut>>
      /\ pc' = "insert" /\ call' = c /\ begun' = [begun EXCEPT ![c] = t]
  BY DEF Report, Open
<1>2. TypeOK'
  BY <1>0, <1>1 DEF TypeOK
<1>3. \A d \in Calls : Untouched(d)'
  BY <1>0, <1>1 DEF Untouched
<1>4. CallsInv'
  BY <1>0, <1>1, <1>3 DEF CallsInv, Place, Untouched, Calls
<1>5. HookHonest'
  BY <1>0, <1>1 DEF Untouched, HookHonest
<1> QED BY <1>0, <1>1, <1>2, <1>4, <1>5 DEF IInv

----------------------------------------------------------------------------
LEMMA InTime ==
  ASSUME NEW n \in Nat, ~Strikes(n), ~Kills(n)
  PROVE  n \in 0..Hard
BY DeliveryAssumption DEF Strikes, Kills

(* Until the soft limit has struck the clock has not passed it.            *)
ClockInv == clock <= Soft \/ limit

(* Every step of a run is of one of these kinds.                           *)
(* An attempt is counted, and its outcome decides what follows.            *)
LEMMA Tries ==
  ASSUME IInv, ClockInv, Post
  PROVE  InCall /\ Counts /\ (GivesUp \/ GoesOn)
<1> USE DeliveryAssumption
<1>0. /\ call \in Calls /\ TypeOK /\ CallsInv /\ InCall /\ clock \in 0..Hard
      /\ tries[call] \in 0..(MaxAttempts - 1) /\ accepted[call] \in 0..tries[call]
      /\ tries' = [tries EXCEPT ![call] = tries[call] + 1] /\ pc = "post"
      /\ Keeps
  BY DEF IInv, InCall, CallsInv, Post, Place, TypeOK, Keeps
<1>1. PICK d \in Durations, o \in Outcomes :
        /\ accepted' = IF o \in {"answered", "unanswered"}
                       THEN [accepted EXCEPT ![call] = accepted[call] + 1] ELSE accepted
        /\ \/ Strikes(clock + d) /\ limit' = TRUE /\ Attempted(Soft, "limit")
           \/ Kills(clock + d) /\ Killed
           \/ /\ ~Strikes(clock + d) /\ ~Kills(clock + d)
              /\ Attempted(clock + d, Result(o))
              /\ UNCHANGED limit
  BY DEF Post
<1>a. clock + d \in Nat /\ clock + d >= clock
  <2>1. clock \in Nat /\ d \in Nat
    BY <1>0
  <2> QED BY <2>1
<1>b. clock' \in Nat /\ clock' >= clock
  <2>1. CASE Strikes(clock + d) /\ Attempted(Soft, "limit")
    BY <1>0, <2>1 DEF Attempted, Escape, ClockInv, Strikes
  <2>2. CASE Killed
    BY <1>0, <2>2 DEF Killed
  <2>3. CASE Attempted(clock + d, Result(o))
    BY <1>a, <2>3 DEF Attempted, Escape
  <2> QED BY <1>1, <2>1, <2>2, <2>3
<1>2. Counts
  <2>1. limit' \in BOOLEAN /\ valid' = valid
    BY <1>0, <1>1 DEF Post, TypeOK, Killed
  <2>2. /\ tries' \in [Calls -> 0..MaxAttempts] /\ tries'[call] = tries[call] + 1
        /\ \A c \in Calls \ {call} : tries'[c] = tries[c]
    BY <1>0 DEF TypeOK
  <2>3. /\ accepted' \in [Calls -> 0..MaxAttempts]
        /\ accepted'[call] \in accepted[call]..(accepted[call] + 1)
        /\ \A c \in Calls \ {call} : accepted'[c] = accepted[c]
    BY <1>0, <1>1 DEF TypeOK
  <2>4. /\ posted' \in [Calls -> Nat]
        /\ \A c \in Calls \ {call} : posted'[c] = posted[c]
    <3>1. posted' = [posted EXCEPT ![call] = posted[call] + (clock' - clock)]
      BY DEF Post
    <3>2. posted[call] + (clock' - clock) \in Nat
      BY <1>0, <1>b DEF TypeOK
    <3> QED BY <1>0, <3>1, <3>2 DEF TypeOK
  <2> QED BY <1>0, <2>1, <2>2, <2>3, <2>4 DEF Counts
<1>3. ASSUME NEW t \in 0..Hard, NEW e \in {"ok"} \cup Errors, Attempted(t, e),
             e = "ok" => accepted'[call] > 0
      PROVE  GivesUp \/ GoesOn
  <2>1. tries'[call] = tries[call] + 1
    BY <1>0 DEF TypeOK
  <2>2. CASE e # "ok" /\ Escape(t, e)
    BY <1>0, <2>2 DEF GivesUp
  <2>3. CASE /\ clock' = t /\ UNCHANGED <<call, begun, cut>>
             /\ \/ e = "ok" /\ pc' = "delivered"
                \/ pc' = "wait" /\ tries[call] + 1 # MaxAttempts
                \/ pc' = "failed" /\ tries[call] + 1 = MaxAttempts
    BY <1>0, <1>3, <2>1, <2>3 DEF GoesOn, Same
  <2> QED BY <1>3, <2>2, <2>3 DEF Attempted
<1>4. CASE Strikes(clock + d) /\ limit' = TRUE /\ Attempted(Soft, "limit")
  BY <1>0, <1>2, <1>3, <1>4 DEF Errors
<1>5. CASE Kills(clock + d) /\ Killed
  BY <1>0, <1>2, <1>5 DEF GivesUp
<1>6. CASE /\ ~Strikes(clock + d) /\ ~Kills(clock + d)
           /\ Attempted(clock + d, Result(o))
  <2>1. clock + d \in 0..Hard
    BY <1>a, <1>6, InTime
  <2>2. Result(o) = "ok" => accepted'[call] > 0
    <3>1. Result(o) = "ok" => o = "answered"
      BY <1>1 DEF Result, Outcomes
    <3>2. o = "answered" => accepted'[call] = accepted[call] + 1
      BY <1>0, <1>1 DEF TypeOK
    <3> QED BY <1>0, <3>1, <3>2
  <2>3. Result(o) \in {"ok"} \cup Errors
    BY <1>1 DEF Result, Outcomes, Errors
  <2> QED BY <1>0, <1>2, <1>3, <1>6, <2>1, <2>2, <2>3
<1> QED BY <1>0, <1>1, <1>2, <1>4, <1>5, <1>6

LEMMA Waits ==
  ASSUME IInv, Sleep
  PROVE  InCall /\ Counts /\ (GivesUp \/ GoesOn)
<1> USE DeliveryAssumption
<1>0. /\ call \in Calls /\ TypeOK /\ CallsInv /\ InCall /\ clock \in 0..Hard
      /\ tries[call] \in 1..(MaxAttempts - 1) /\ Keeps /\ pc = "wait"
  BY DEF IInv, InCall, CallsInv, Sleep, Place, TypeOK, Keeps
<1> DEFINE end == clock + Wait(tries[call])
<1>1. end \in Nat
  BY <1>0, WaitLasts
<1>2. \/ Strikes(end) /\ limit' = TRUE /\ Escape(Soft, "limit")
      \/ Kills(end) /\ Killed
      \/ /\ ~Strikes(end) /\ ~Kills(end)
         /\ clock' = end
         /\ pc' = "post"
         /\ UNCHANGED <<limit, call, begun, cut>>
  BY DEF Sleep
<1> HIDE DEF end
<1>3. Counts
  <2>1. limit' \in BOOLEAN
    BY <1>0, <1>2 DEF Killed, TypeOK
  <2>2. UNCHANGED <<valid, tries, posted, accepted>>
    BY DEF Sleep
  <2> QED BY <1>0, <2>1, <2>2 DEF Counts, TypeOK, CallsInv
<1>4. CASE Strikes(end) /\ limit' = TRUE /\ Escape(Soft, "limit")
  BY <1>0, <1>3, <1>4 DEF GivesUp, Errors
<1>5. CASE Kills(end) /\ Killed
  BY <1>0, <1>3, <1>5 DEF GivesUp
<1>6. CASE /\ ~Strikes(end) /\ ~Kills(end) /\ clock' = end /\ pc' = "post"
           /\ UNCHANGED <<limit, call, begun, cut>>
  <2>1. end \in 0..Hard
    BY <1>1, <1>6, InTime
  <2>2. tries'[call] < MaxAttempts
    BY <1>0 DEF Sleep
  <2> QED BY <1>0, <1>3, <1>6, <2>1, <2>2 DEF GoesOn, Same
<1> QED BY <1>0, <1>2, <1>3, <1>4, <1>5, <1>6

(* A commit takes effect or not, and the call goes on only if it did.      *)
LEMMA Commits ==
  ASSUME IInv, InCall, NEW h, NEW l, Commit(h, l),
         UNCHANGED <<valid, tries, posted, accepted>>,
         hook' = h => Inserts \/ Closes,
         Inserts => l = "post", Closes => l = "over"
  PROVE  Counts /\ (GivesUp \/ GoesOn)
<1> USE DeliveryAssumption
<1>0. call \in Calls /\ TypeOK /\ CallsInv /\ clock \in 0..Hard
  BY DEF IInv, InCall, CallsInv, TypeOK
<1>1. PICK d \in Saving, took \in BOOLEAN :
        /\ hook' = IF took THEN h ELSE hook
        /\ \/ Strikes(clock + d) /\ limit' = TRUE /\ Escape(Soft, "limit")
           \/ Kills(clock + d) /\ Killed
           \/ /\ ~Strikes(clock + d) /\ ~Kills(clock + d)
              /\ UNCHANGED limit
              /\ \/ Escape(clock + d, "error")
                 \/ /\ took
                    /\ clock' = clock + d /\ pc' = l
                    /\ UNCHANGED <<call, begun, cut>>
  BY DEF Commit
<1>2. Counts
  <2>1. limit' \in BOOLEAN
    BY <1>0, <1>1 DEF Killed, TypeOK
  <2> QED BY <1>0, <2>1 DEF Counts, TypeOK, CallsInv
<1>3. (Keeps \/ Inserts \/ Closes) /\ (took => Inserts \/ Closes)
  BY <1>1 DEF Keeps
<1>4. CASE Strikes(clock + d) /\ limit' = TRUE /\ Escape(Soft, "limit")
  BY <1>2, <1>3, <1>4 DEF GivesUp, Errors
<1>5. CASE Kills(clock + d) /\ Killed
  BY <1>2, <1>3, <1>5 DEF GivesUp
<1>6. CASE ~Strikes(clock + d) /\ ~Kills(clock + d)
  <2>1. clock + d \in 0..Hard
    <3>1. clock \in Nat /\ d \in Nat
      BY <1>0
    <3>2. clock + d \in Nat
      BY <3>1
    <3> QED BY <3>2, <1>6, InTime
  <2>2. CASE Escape(clock + d, "error")
    BY <1>2, <1>3, <2>1, <2>2 DEF GivesUp, Errors
  <2>3. CASE took /\ clock' = clock + d /\ pc' = l /\ UNCHANGED <<call, begun, cut>>
    BY <1>2, <1>3, <2>1, <2>3 DEF GoesOn, Same
  <2> QED BY <1>1, <1>4, <1>5, <2>2, <2>3
<1> QED BY <1>1, <1>4, <1>5, <1>6

LEMMA Insertion ==
  ASSUME IInv, Insert
  PROVE  InCall /\ Counts /\ (GivesUp \/ GoesOn)
<1> DEFINE h == [hook EXCEPT ![call].status = "pending"]
<1>0. InCall /\ pc = "insert" /\ Commit(h, "post") /\ UNCHANGED <<valid, tries, posted, accepted>>
  BY DEF Insert, InCall
<1>1. h = [hook EXCEPT ![call] = [status |-> "pending", attempts |-> 0]]
  <2>1. hook[call] = [status |-> None, attempts |-> 0]
    BY <1>0 DEF IInv, CallsInv, Place, Untouched
  <2>2. [hook[call] EXCEPT !.status = "pending"] = [status |-> "pending", attempts |-> 0]
    BY <2>1
  <2>3. h = [hook EXCEPT ![call] = [hook[call] EXCEPT !.status = "pending"]]
    OBVIOUS
  <2> QED BY <2>2, <2>3
<1> HIDE DEF h
<1>2. (hook' = h => Inserts) /\ ~Closes
  BY <1>0, <1>1 DEF Inserts, Closes
<1> QED BY <1>0, <1>2, Commits

LEMMA Finalization ==
  ASSUME IInv, Finalize
  PROVE  InCall /\ Counts /\ (GivesUp \/ GoesOn)
<1> DEFINE h == [c \in Calls |-> IF c \in Row THEN [status |-> pc, attempts |-> tries[call]]
                                 ELSE hook[c]]
<1>0. /\ InCall /\ pc \in {"delivered", "failed"} /\ Commit(h, "over")
      /\ UNCHANGED <<valid, tries, posted, accepted>>
  BY DEF Finalize, InCall
<1>1. h = [hook EXCEPT ![call] = [status |-> pc, attempts |-> tries[call]]]
  BY DEF IInv, TypeOK, Row
<1> HIDE DEF h
<1>2. (hook' = h => Closes) /\ ~Inserts
  BY <1>0, <1>1 DEF Inserts, Closes
<1> QED BY <1>0, <1>2, Commits

LEMMA Kinds ==
  ASSUME IInv, ClockInv, Next
  PROVE  \/ \E c \in Calls, t \in 0..Hard : Report(c, t)
         \/ InCall /\ Counts /\ GivesUp
         \/ InCall /\ Counts /\ GoesOn
<1>1. CASE Complete \/ Fail
  <2>1. \A t \in Ends : t \in 0..Hard
    BY DeliveryAssumption
  <2> QED BY <1>1, <2>1 DEF Complete, Fail, Calls
<1> QED BY <1>1, Tries, Waits, Insertion, Finalization DEF Next

(* The clock against the soft limit.                                       *)
LEMMA ClockKept ==
  ASSUME IInv, ClockInv, Next
  PROVE  ClockInv'
<1> USE DeliveryAssumption
<1>0. /\ Soft \in Nat /\ Hard \in Nat /\ Soft < Hard /\ clock \in Nat /\ limit \in BOOLEAN
      /\ \A t \in Ends : t \in Nat /\ t <= Soft
      /\ \A d \in Saving \cup Durations : d \in Nat
  BY DEF IInv, TypeOK
<1>1. ASSUME NEW n \in Nat,
             \/ limit' = TRUE
             \/ Kills(n) /\ UNCHANGED limit
             \/ ~Strikes(n) /\ clock' = n /\ UNCHANGED limit
      PROVE  ClockInv'
  BY <1>0, <1>1 DEF Strikes, Kills, ClockInv
<1>2. CASE Complete \/ Fail
  BY <1>0, <1>2 DEF Complete, Fail, Report, ClockInv
<1>3. CASE Post
  <2>1. PICK d \in Durations, o \in Outcomes :
            \/ Strikes(clock + d) /\ limit' = TRUE
            \/ Kills(clock + d) /\ Killed
            \/ ~Strikes(clock + d) /\ Attempted(clock + d, Result(o)) /\ UNCHANGED limit
    BY <1>3 DEF Post
  <2>2. Attempted(clock + d, Result(o)) => clock' = clock + d
    BY DEF Attempted, Escape
  <2>3. Killed => UNCHANGED limit
    BY DEF Killed
  <2>4. clock + d \in Nat
    BY <1>0
  <2> QED BY <1>1, <2>1, <2>2, <2>3, <2>4
<1>4. CASE Sleep
  <2> DEFINE end == clock + Wait(tries[call])
  <2>1. \/ Strikes(end) /\ limit' = TRUE
        \/ Kills(end) /\ UNCHANGED limit
        \/ ~Strikes(end) /\ clock' = end /\ UNCHANGED limit
    BY <1>4 DEF Sleep, Killed
  <2>2. end \in Nat
    <3>1. tries[call] \in Nat \ {0}
      BY <1>4 DEF Sleep, IInv, CallsInv, Place, TypeOK
    <3>2. Wait(tries[call]) \in Nat
      BY <3>1, WaitLasts
    <3> QED BY <1>0, <3>2
  <2> HIDE DEF end
  <2> QED BY <1>1, <2>1, <2>2
<1>5. CASE Insert \/ Finalize
  <2>1. PICK d \in Saving :
            \/ Strikes(clock + d) /\ limit' = TRUE
            \/ Kills(clock + d) /\ Killed
            \/ ~Strikes(clock + d) /\ UNCHANGED limit /\ clock' = clock + d
    BY <1>5 DEF Insert, Finalize, Commit, Escape
  <2>2. Killed => UNCHANGED limit
    BY DEF Killed
  <2>3. clock + d \in Nat
    BY <1>0
  <2> QED BY <1>1, <2>1, <2>2, <2>3
<1> QED BY <1>2, <1>3, <1>4, <1>5 DEF Next

(* The invariant.                                                          *)
THEOREM DeliverySafe == Spec => [](IInv /\ ClockInv)
<1>1. Init => ClockInv
  BY DeliveryAssumption DEF Init, ClockInv
<1>2. ASSUME IInv, ClockInv, [Next]_vars PROVE IInv' /\ ClockInv'
  <2>1. CASE UNCHANGED vars
    BY <1>2, <2>1 DEF IInv, vars, TypeOK, CallsInv, HookHonest, Place, Untouched, Opened, ClockInv
  <2>2. CASE Next
    BY <1>2, <2>2, Kinds, Beginning, WaysOut, Onwards, ClockKept
  <2> QED BY <1>2, <2>1, <2>2
<1> QED BY Started, <1>1, <1>2, PTL DEF Spec

(* Every variable keeps its type, and no run outlives the hard limit.      *)
THEOREM TypeCorrect == Spec => []TypeOK
BY DeliverySafe, PTL DEF IInv

(* The rows of webhooks can be trusted, whatever commit, attempt or wait   *)
(* an error or a limit ended: a row says delivered only when the source    *)
(* accepted the call, failed only when every attempt was used, and is left *)
(* pending only by a call that an exception or the hard limit ended.       *)
THEOREM HooksHonest == Spec => []HookHonest
BY DeliverySafe, PTL DEF IInv

----------------------------------------------------------------------------
(* The refinement of module Reporting.                                     *)
Current == IF pc \in {"over", "killed"} THEN "over" ELSE call
Rows == [c \in Calls |-> hook[c].status]
Told == [c \in Calls |-> accepted[c] > 0]

LEMMA Tells ==
  ASSUME IInv, InCall, Counts
  PROVE  /\ call \in Calls /\ Current = call
         /\ Told' \in {Told, [Told EXCEPT ![call] = TRUE]}
         /\ UNCHANGED accepted => Told' = Told
<1>1. /\ call \in Calls /\ TypeOK
      /\ accepted \in [Calls -> Nat] /\ accepted' \in [Calls -> Nat]
  BY DeliveryAssumption DEF IInv, InCall, CallsInv, Counts, TypeOK
<1>2. \A c \in Calls \ {call} : accepted'[c] = accepted[c]
  BY DEF Counts
<1>0. UNCHANGED accepted => Told' = Told
  BY DEF Told
<1>3. CASE accepted'[call] > 0
  <2>1. Told' = [Told EXCEPT ![call] = TRUE]
    BY <1>1, <1>2, <1>3 DEF Told
  <2> QED BY <1>0, <1>1, <2>1 DEF Current, InCall
<1>4. CASE ~(accepted'[call] > 0)
  <2>1. \A c \in Calls : (accepted'[c] > 0) = (accepted[c] > 0)
    BY <1>1, <1>2, <1>4 DEF Counts
  <2>2. Told' = Told
    BY <2>1 DEF Told
  <2> QED BY <1>1, <2>2 DEF Current, InCall
<1> QED BY <1>3, <1>4

(* Whatever a step does to the rows is what module Reporting allows, when  *)
(* it goes on with or leaves the report as that does.                      *)
LEMMA RowsAllowed ==
  ASSUME IInv, InCall, Counts,
         \/ Keeps /\ Promise!GoOnOrLeave
         \/ Inserts /\ Promise!GoOnOrLeave
         \/ Closes /\ Promise!Leave
  PROVE  Promise!Next
<1>1. /\ call \in Calls /\ Current = call
      /\ Told' \in {Told, [Told EXCEPT ![call] = TRUE]}
      /\ UNCHANGED accepted => Told' = Told
  BY Tells
<1>2. CASE Keeps /\ Promise!GoOnOrLeave
  <2>1. Rows' = Rows
    BY <1>2 DEF Keeps, Rows
  <2>2. Promise!Tell
    BY <1>1, <1>2, <2>1 DEF Promise!Tell, Promise!Reports, Calls, Current, Rows, Told
  <2> QED BY <2>2 DEF Promise!Next
<1>3. ASSUME NEW r, NEW s, hook' = [hook EXCEPT ![call] = r], r.status = s
      PROVE  Rows' = [Rows EXCEPT ![call] = s]
  BY <1>1, <1>3 DEF Rows, IInv, TypeOK
<1>4. CASE Inserts /\ Promise!GoOnOrLeave
  <2>1. Rows[call] = None /\ Rows' = [Rows EXCEPT ![call] = "pending"] /\ Told' = Told
    <3>1. hook[call].status = None
      BY <1>4 DEF Inserts, IInv, CallsInv, Place, Untouched
    <3>2. Rows' = [Rows EXCEPT ![call] = "pending"]
      BY <1>3, <1>4 DEF Inserts
    <3> QED BY <1>1, <1>4, <3>1, <3>2 DEF Inserts, Rows
  <2>2. Promise!Insert
    BY <1>1, <1>4, <2>1 DEF Promise!Insert, Promise!Reports, Calls, Current, Rows, Told
  <2> QED BY <2>2 DEF Promise!Next
<1>5. CASE Closes /\ Promise!Leave
  <2>1. Rows[call] = "pending" /\ Rows' = [Rows EXCEPT ![call] = pc] /\ Told' = Told
    <3>1. hook[call].status = "pending"
      BY <1>5 DEF Closes, IInv, CallsInv, Opened
    <3>2. Rows' = [Rows EXCEPT ![call] = pc]
      BY <1>3, <1>5 DEF Closes
    <3> QED BY <1>1, <1>5, <3>1, <3>2 DEF Closes, Rows
  <2>2. pc = "delivered" => Told[call]
    BY <1>1 DEF IInv, CallsInv, Place, Told
  <2>3. ASSUME NEW status \in {"delivered", "failed"}, pc = status
        PROVE  Promise!Close(status)
    BY <1>1, <1>5, <2>1, <2>2, <2>3 DEF Promise!Close, Promise!Reports, Calls, Current, Rows, Told
  <2> QED BY <1>5, <2>3 DEF Promise!Next, Closes
<1> QED BY <1>2, <1>4, <1>5

LEMMA Leaving ==
  ASSUME IInv, InCall, Counts, GivesUp
  PROVE  Promise!Next
<1>1. call \in Calls /\ Current = call
  BY Tells
<1>2. Current' = "over" \/ (call = "completed" /\ Current' = "failed")
  BY DEF GivesUp, Killed, Escape, Open, Current
<1>3. Promise!Leave
  BY <1>1, <1>2 DEF Promise!Leave, Current
<1> QED BY <1>3, RowsAllowed DEF GivesUp, Promise!GoOnOrLeave

LEMMA Going ==
  ASSUME IInv, InCall, Counts, GoesOn
  PROVE  Promise!Next
<1>1. call \in Calls /\ Current = call
  BY Tells
<1>2. CASE pc' = "over"
  <2>1. Closes
    BY <1>2 DEF GoesOn
  <2>2. Promise!Leave
    BY <1>2 DEF Promise!Leave, Current
  <2> QED BY <2>1, <2>2, RowsAllowed
<1>3. CASE pc' # "over"
  <2>1. Current' = Current
    BY <1>1, <1>3 DEF GoesOn, Same, Current
  <2>2. Promise!GoOnOrLeave
    BY <2>1 DEF Promise!GoOnOrLeave, Current
  <2>3. Keeps \/ Inserts
    BY <1>3 DEF GoesOn
  <2> QED BY <2>2, <2>3, RowsAllowed
<1> QED BY <1>2, <1>3

LEMMA Starting ==
  ASSUME IInv, NEW c \in Calls, NEW t \in 0..Hard, Report(c, t)
  PROVE  Promise!Next
<1>1. call = None /\ pc = "idle" /\ pc' = "insert" /\ call' = c /\ UNCHANGED <<accepted, hook>>
  BY Beginning DEF Report
<1>2. Current = None /\ Current' = c /\ Told' = Told /\ Rows' = Rows
  BY <1>1 DEF Current, Told, Rows
<1>4. Promise!Begin(c)
  BY <1>2 DEF Promise!Begin, Current, Rows, Told
<1> QED BY <1>4 DEF Promise!Next, Promise!Reports, Calls

(* What a run promises about its reports, whatever its attempts, waits,    *)
(* commits and limits come to, but for its end: the safety of ReportsKept. *)
THEOREM KeepsPromise == Spec => Promise!Init /\ [][Promise!Next]_(Promise!reporting)
<1>1. ASSUME Init PROVE Promise!Init
  <2>1. Current = None
    BY <1>1 DEF Init, Current
  <2>2. Rows = [r \in Promise!Reports |-> None]
    BY <1>1 DEF Init, Rows, Promise!Reports, Calls
  <2>3. Told = [r \in Promise!Reports |-> FALSE]
    <3>1. \A c \in Calls : (accepted[c] > 0) = FALSE
      BY <1>1 DEF Init
    <3> QED BY <3>1 DEF Told, Promise!Reports, Calls
  <2> QED BY <2>1, <2>2, <2>3 DEF Promise!Init, Current, Rows, Told
<1>2. ASSUME IInv, ClockInv, [Next]_vars PROVE [Promise!Next]_(Promise!reporting)
  <2>1. CASE UNCHANGED vars
    BY <2>1 DEF vars, Promise!reporting
  <2>2. CASE Next
    BY <1>2, <2>2, Kinds, Starting, Leaving, Going
  <2> QED BY <1>2, <2>1, <2>2
<1> QED BY DeliverySafe, <1>1, <1>2, PTL DEF Spec

----------------------------------------------------------------------------
(* What a call cut off by a limit has had before: how far the clock may be *)
(* from its beginning, but for the POSTs.                                  *)
Pausing == [k \in 1..(MaxAttempts - 1) |-> Pause(k)]
Paused(n) == SumFunctionOnSet(Pausing, 1..n)
Slow == Max(Saving)
Late(c) == begun[c] + posted[c] + Pauses + 2 * Slow >= Soft
Elapsed == IF pc = "insert" THEN 0
           ELSE Slow + Paused(IF pc = "post" THEN tries[call] ELSE tries[call] - 1)
TimeInv ==
    /\ InCall => clock <= begun[call] + posted[call] + Elapsed
    /\ InCall => cut[call] # "limit"
    /\ \A c \in Calls : cut[c] = "limit" => Late(c)
    /\ call # "failed" => cut["failed"] = None
    /\ call = None => cut["completed"] = None

LEMMA MaxIs ==
  ASSUME NEW S, S \subseteq Nat, IsFiniteSet(S), S # {}
  PROVE  Max(S) \in Nat /\ \A x \in S : x <= Max(S)
<1> DEFINE F == {s \in SUBSET S : s = {} \/ \E m \in s : \A x \in s : m >= x}
<1>1. S \in F
  <2>1. {} \in F
    OBVIOUS
  <2>2. ASSUME NEW s \in SUBSET S, NEW x \in S \ s, s \in F PROVE s \cup {x} \in F
    <3>1. CASE s = {}
      <4>1. x >= x
        OBVIOUS
      <4> QED BY <3>1, <4>1
    <3>2. ASSUME NEW m \in s, \A y \in s : m >= y PROVE s \cup {x} \in F
      <4>1. m \in Nat /\ x \in Nat /\ \A y \in s : y \in Nat
        OBVIOUS
      <4>2. CASE m >= x
        BY <3>2, <4>2
      <4>3. CASE ~(m >= x)
        <5>1. \A y \in s \cup {x} : x >= y
          BY <3>2, <4>1, <4>3
        <5> QED BY <5>1
      <4> QED BY <4>2, <4>3
    <3> QED BY <2>2, <3>1, <3>2
  <2> HIDE DEF F
  <2> QED BY <2>1, <2>2, SubsetInduction
<1>2. PICK m \in S : \A x \in S : m >= x
  BY <1>1
<1>3. Max(S) \in S /\ \A x \in S : Max(S) >= x
  BY <1>2 DEF Max
<1> QED BY <1>3

(* The waits of tenacity, one by one up to the sixth, after which they are *)
(* all of a minute.                                                        *)
LEMMA WaitIs ==
  ASSUME NEW k \in Nat \ {0}
  PROVE  Pause(k) \in Nat /\ Wait(k) \in Nat /\ Wait(k) <= Pause(k)
<1>1. Wait(k) \in Nat
  BY WaitLasts
<1> DEFINE p == 2^(k - 1)
<1>2. p \in Int
  <2>1. k - 1 \in Nat
    OBVIOUS
  <2>2. \A n \in Nat : 2^n \in Int
    OBVIOUS
  <2> QED BY <2>1, <2>2
<1>3. p = 2^(k - 1)
  OBVIOUS
<1> HIDE DEF p
<1> DEFINE q == Min({60, p})
<1>4. q \in Int /\ q <= 60 /\ q <= p
  BY <1>2 DEF Min
<1>5. q = Min({60, p})
  OBVIOUS
<1> HIDE DEF q
<1>6. Wait(k) = Max({2, q})
  BY <1>3, <1>5 DEF Wait
<1>7. Max({2, q}) = IF q > 2 THEN q ELSE 2
  BY <1>4 DEF Max
<1>8. CASE k > 6
  BY <1>1, <1>4, <1>6, <1>7, <1>8 DEF Pause
<1>9. CASE k <= 6
  <2>1. k = 1 \/ k = 2 \/ k = 3 \/ k = 4 \/ k = 5 \/ k = 6
    BY <1>9
  <2>2. 2^0 = 1 /\ 2^1 = 2 /\ 2^2 = 4 /\ 2^3 = 8 /\ 2^4 = 16 /\ 2^5 = 32
    OBVIOUS
  <2>3. ASSUME NEW n, k = n + 1, n \in 0..5 PROVE p = 2^n
    <3>1. k - 1 = n
      BY <2>3
    <3> QED BY <1>3, <3>1
  <2>4. /\ k = 1 => p = 1
        /\ k = 2 => p = 2
        /\ k = 3 => p = 4
        /\ k = 4 => p = 8
        /\ k = 5 => p = 16
        /\ k = 6 => p = 32
    <3>1. /\ k = 1 => k = 0 + 1 /\ 0 \in 0..5
          /\ k = 2 => k = 1 + 1 /\ 1 \in 0..5
          /\ k = 3 => k = 2 + 1 /\ 2 \in 0..5
          /\ k = 4 => k = 3 + 1 /\ 3 \in 0..5
          /\ k = 5 => k = 4 + 1 /\ 4 \in 0..5
          /\ k = 6 => k = 5 + 1 /\ 5 \in 0..5
      OBVIOUS
    <3>2. /\ k = 1 => p = 2^0
          /\ k = 2 => p = 2^1
          /\ k = 3 => p = 2^2
          /\ k = 4 => p = 2^3
          /\ k = 5 => p = 2^4
          /\ k = 6 => p = 2^5
      BY <2>3, <3>1
    <3> QED BY <2>2, <3>2
  <2>5. Pause(k) = <<2, 2, 4, 8, 16, 32>>[k]
    BY <1>9 DEF Pause
  <2>6. /\ k = 1 => Pause(k) = 2
        /\ k = 2 => Pause(k) = 2
        /\ k = 3 => Pause(k) = 4
        /\ k = 4 => Pause(k) = 8
        /\ k = 5 => Pause(k) = 16
        /\ k = 6 => Pause(k) = 32
    BY <2>5
  <2> QED BY <1>1, <1>4, <1>6, <1>7, <2>1, <2>4, <2>6
<1> QED BY <1>8, <1>9

LEMMA PausesAdd ==
  /\ Paused(0) = 0
  /\ \A n \in 0..(MaxAttempts - 1) : Paused(n) \in Nat /\ Paused(n) <= Pauses
  /\ \A n \in 1..(MaxAttempts - 1) : Paused(n) = Paused(n - 1) + Pause(n)
  /\ Pauses \in Nat
<1> USE DeliveryAssumption
<1> DEFINE M == MaxAttempts - 1
<1>1. M \in Nat
  OBVIOUS
<1>2. \A k \in 1..M : Pausing[k] = Pause(k) /\ Pausing[k] \in Nat /\ Pausing[k] \in Int
  BY WaitIs DEF Pausing
<1>3. Pauses = Paused(M)
  BY DEF Pauses, Paused, Pausing
<1> HIDE DEF M
<1>4. ASSUME NEW n \in 0..M PROVE IsFiniteSet(1..n) /\ 1..n \subseteq 1..M
  <2>1. 1 \in Int /\ n \in Int
    BY <1>1
  <2>2. IsFiniteSet(1..n)
    BY <2>1, FS_Interval
  <2> QED BY <1>1, <2>2
<1>5. Paused(0) = 0
  <2>1. 1..0 = {}
    OBVIOUS
  <2> QED BY <2>1, SumEmpty DEF Paused
<1>6. ASSUME NEW n \in 0..M PROVE Paused(n) \in Nat /\ Paused(n) <= Paused(M)
  <2>1. M \in 0..M
    BY <1>1
  <2>2. /\ IsFiniteSet(1..n) /\ IsFiniteSet(1..M) /\ 1..n \subseteq 1..M
    BY <1>4, <2>1
  <2>3. Paused(n) \in Nat
    BY <1>2, <2>2, SumNat DEF Paused
  <2>4. Paused(n) <= Paused(M)
    BY <1>2, <2>2, SumMono DEF Paused
  <2> QED BY <2>3, <2>4
<1>7. ASSUME NEW n \in 1..M PROVE Paused(n) = Paused(n - 1) + Pause(n)
  <2>1. n - 1 \in 0..M /\ 1..n = (1..(n - 1)) \cup {n} /\ n \notin 1..(n - 1)
    BY <1>1
  <2>2. IsFiniteSet(1..(n - 1)) /\ \A y \in (1..(n - 1)) \cup {n} : Pausing[y] \in Int
    BY <1>1, <1>2, <1>4, <2>1
  <2>3. SumFunctionOnSet(Pausing, (1..(n - 1)) \cup {n})
          = Pausing[n] + SumFunctionOnSet(Pausing, 1..(n - 1))
    BY <2>1, <2>2, SumAdd
  <2>4. Paused(n) = Pausing[n] + Paused(n - 1)
    BY <2>1, <2>3 DEF Paused
  <2>5. Paused(n - 1) \in Nat
    BY <1>6, <2>1
  <2> QED BY <1>2, <2>4, <2>5
<1>8. M \in 0..M
  BY <1>1
<1> QED BY <1>3, <1>5, <1>6, <1>7, <1>8 DEF M

(* The numbers of seconds a call is made of.                               *)
LEMMA Numbers ==
  ASSUME IInv, TimeInv, InCall
  PROVE  /\ call \in Calls /\ clock \in Nat /\ begun[call] \in Nat /\ posted[call] \in Nat
         /\ Soft \in Nat /\ Hard \in Nat /\ Soft < Hard
         /\ Slow \in Nat /\ \A d \in Saving : d \in Nat /\ d <= Slow
         /\ pc = "insert" => tries[call] = 0 /\ Elapsed = 0
         /\ pc = "post" => /\ tries[call] \in 0..(MaxAttempts - 1)
                           /\ Elapsed = Slow + Paused(tries[call])
         /\ pc = "wait" => /\ tries[call] \in 1..(MaxAttempts - 1)
                           /\ Elapsed = Slow + Paused(tries[call] - 1)
         /\ pc \in {"delivered", "failed"} =>
               /\ tries[call] \in 1..MaxAttempts
               /\ Elapsed = Slow + Paused(tries[call] - 1)
         /\ clock <= begun[call] + posted[call] + Elapsed
<1>1. Slow \in Nat /\ \A d \in Saving : d \in Nat /\ d <= Slow
  BY DeliveryAssumption, MaxIs DEF Slow
<1>2. /\ call \in Calls /\ clock \in Nat /\ begun[call] \in Nat /\ posted[call] \in Nat
      /\ Soft \in Nat /\ Hard \in Nat /\ Soft < Hard
      /\ tries[call] \in 0..MaxAttempts
  BY DeliveryAssumption DEF IInv, TypeOK, CallsInv, InCall
<1>3. /\ pc = "insert" => tries[call] = 0
      /\ pc = "post" => tries[call] \in 0..(MaxAttempts - 1)
      /\ pc = "wait" => tries[call] \in 1..(MaxAttempts - 1)
      /\ pc = "failed" => tries[call] \in 1..MaxAttempts
  BY <1>2, DeliveryAssumption DEF IInv, CallsInv, Place, Untouched
<1>4. pc = "delivered" => tries[call] \in 1..MaxAttempts
  BY <1>2, DeliveryAssumption DEF IInv, CallsInv, Place, TypeOK
<1>5. clock <= begun[call] + posted[call] + Elapsed
  BY DEF TimeInv
<1> QED BY <1>1, <1>2, <1>3, <1>4, <1>5 DEF Elapsed

LEMMA CutOff ==
  ASSUME IInv, TimeInv, InCall, Counts, GivesUp,
         cut'[call] = "limit" => begun[call] + posted'[call] + Pauses + 2 * Slow >= Soft
  PROVE  TimeInv'
<1> USE DeliveryAssumption
<1>0. call \in Calls /\ TypeOK /\ TypeOK' /\ CallsInv
  BY WaysOut DEF IInv, InCall, CallsInv
<1>1. \A c \in Calls \ {call} : cut'[c] = cut[c] /\ posted'[c] = posted[c]
  BY <1>0 DEF GivesUp, Killed, Escape, Counts, TypeOK
<1>2. CASE pc' \in {"over", "killed"} /\ UNCHANGED <<call, begun>>
  <2>1. ~InCall'
    BY <1>2 DEF InCall
  <2>2. \A c \in Calls : cut'[c] = "limit" => Late(c)'
    BY <1>1, <1>2 DEF TimeInv, Late
  <2>3. call' # None /\ (call' # "failed" => cut'["failed"] = None)
    BY <1>0, <1>1, <1>2 DEF TimeInv, Calls
  <2> QED BY <2>1, <2>2, <2>3 DEF TimeInv
<1>3. ASSUME NEW t \in 0..Hard, clock' = t, call = "completed", Open("failed", t)
      PROVE  TimeInv'
  <2>1. /\ pc' = "insert" /\ call' = "failed" /\ "failed" \in Calls /\ "completed" \in Calls
        /\ begun'["failed"] = t /\ begun'["completed"] = begun["completed"]
        /\ cut'["failed"] = None
    BY <1>0, <1>1, <1>3 DEF Open, TypeOK, TimeInv, Calls
  <2>2. \A c \in Calls : cut'[c] = "limit" => Late(c)'
    BY <1>3, <2>1 DEF Late, Calls
  <2>3. posted'["failed"] \in Nat
    BY <1>0, <2>1 DEF TypeOK
  <2>4. clock' <= begun'[call'] + posted'[call'] + Elapsed'
    BY <1>3, <2>1, <2>3 DEF Elapsed
  <2> QED BY <2>1, <2>2, <2>4 DEF TimeInv
<1> QED BY <1>2, <1>3 DEF GivesUp, Killed, Escape

LEMMA CarryOn ==
  ASSUME IInv, TimeInv, InCall, Counts, GoesOn,
         pc' # "over" => clock' <= begun[call] + posted'[call] + Elapsed'
  PROVE  TimeInv'
<1>0. call \in Calls /\ UNCHANGED <<call, begun, cut>>
  BY DEF IInv, InCall, CallsInv, GoesOn, Same
<1>1. \A c \in Calls \ {call} : posted'[c] = posted[c]
  BY DEF Counts
<1>2. \A c \in Calls : cut'[c] = "limit" => Late(c)'
  BY <1>0, <1>1 DEF TimeInv, Late
<1>3. InCall' => pc' # "over"
  BY DEF InCall
<1> QED BY <1>0, <1>2, <1>3 DEF TimeInv

LEMMA PostTimes ==
  ASSUME IInv, ClockInv, TimeInv, Post
  PROVE  TimeInv'
<1>0. InCall /\ pc = "post" /\ Counts /\ (GivesUp \/ GoesOn)
  BY Tries DEF Post
<1>1. /\ call \in Calls /\ clock \in Nat /\ begun[call] \in Nat /\ posted[call] \in Nat
      /\ Soft \in Nat /\ Hard \in Nat /\ Soft < Hard /\ Slow \in Nat
      /\ tries[call] \in 0..(MaxAttempts - 1) /\ Elapsed = Slow + Paused(tries[call])
      /\ clock <= begun[call] + posted[call] + Elapsed
  BY <1>0, Numbers
<1>2. posted'[call] = posted[call] + (clock' - clock) /\ tries'[call] = tries[call] + 1
  BY <1>1 DEF Post, IInv, TypeOK
<1>3. clock' \in Nat
  BY <1>0, WaysOut, Onwards DEF IInv, TypeOK
<1>4. Paused(tries[call]) \in Nat /\ Paused(tries[call]) <= Pauses /\ Pauses \in Nat
  BY <1>1, PausesAdd
<1>5. clock' <= begun[call] + posted'[call] + (Slow + Paused(tries[call]))
  BY <1>1, <1>2, <1>3, <1>4
<1>6. CASE GoesOn
  <2>1. pc' \in {"wait", "delivered", "failed"} /\ call' = call
    BY <1>0, <1>6 DEF GoesOn, Same, Inserts, Closes
  <2>2. Elapsed' = Slow + Paused(tries'[call] - 1)
    BY <2>1 DEF Elapsed
  <2>3. tries'[call] - 1 = tries[call]
    BY <1>1, <1>2
  <2>4. clock' <= begun[call] + posted'[call] + Elapsed'
    BY <1>5, <2>2, <2>3
  <2> QED BY <1>0, <1>6, <2>4, CarryOn
<1>7. CASE GivesUp
  <2>1. ASSUME cut'[call] = "limit" PROVE clock' >= Soft
    <3>1. PICK d \in Durations, o \in Outcomes :
            \/ Strikes(clock + d) /\ Attempted(Soft, "limit")
            \/ Killed
            \/ Attempted(clock + d, Result(o))
      BY DEF Post
    <3>2. CASE Attempted(Soft, "limit")
      <4>1. clock' = Soft
        BY <3>2 DEF Attempted, Escape
      <4> QED BY <1>1, <4>1
    <3>3. CASE Killed
      BY <1>1, <3>3 DEF Killed
    <3>4. CASE Attempted(clock + d, Result(o))
      <4>1. Result(o) # "limit"
        BY <3>1 DEF Result, Outcomes
      <4>2. cut'[call] # "limit"
        BY <1>0, <1>1, <3>4, <4>1 DEF Attempted, Escape, IInv, TypeOK, TimeInv
      <4> QED BY <2>1, <4>2
    <3> QED BY <3>1, <3>2, <3>3, <3>4
  <2>2. posted'[call] \in Nat
    BY <1>0, <1>1 DEF Counts
  <2>3. cut'[call] = "limit" => begun[call] + posted'[call] + Pauses + 2 * Slow >= Soft
    BY <1>1, <1>3, <1>4, <1>5, <2>1, <2>2
  <2> QED BY <1>0, <1>7, <2>3, CutOff
<1> QED BY <1>0, <1>6, <1>7

(* What the steps between the attempts, before the first and after the     *)
(* last have in common: the end of the step, reckoned from the beginning   *)
(* of the call.                                                            *)
LEMMA StepTimes ==
  ASSUME IInv, TimeInv, InCall, Counts, GivesUp \/ GoesOn, pc # "post",
         UNCHANGED <<posted, tries>>, NEW d \in Nat,
         IF pc = "wait" THEN d = Wait(tries[call]) ELSE d <= Slow,
         cut'[call] = "limit" => clock + d >= Soft,
         GoesOn => clock' = clock + d
  PROVE  TimeInv'
<1> DEFINE k == tries[call]
           B == begun[call] + posted[call]
<1>1. /\ call \in Calls /\ clock \in Nat /\ B \in Nat /\ Soft \in Nat /\ Slow \in Nat
      /\ clock <= B + Elapsed
      /\ pc = "insert" => k = 0 /\ Elapsed = 0
      /\ pc = "wait" => k \in 1..(MaxAttempts - 1) /\ Elapsed = Slow + Paused(k - 1)
      /\ pc \in {"delivered", "failed"} => k \in 1..MaxAttempts /\ Elapsed = Slow + Paused(k - 1)
  BY Numbers
<1>2. /\ Paused(0) = 0 /\ Pauses \in Nat
      /\ pc # "insert" => Paused(k - 1) \in Nat /\ Paused(k - 1) <= Pauses
      /\ pc = "wait" => /\ Paused(k) \in Nat /\ Paused(k) <= Pauses
                        /\ Paused(k) = Paused(k - 1) + Pause(k)
  <2>1. /\ pc = "wait" => k - 1 \in 0..(MaxAttempts - 1) /\ k \in 0..(MaxAttempts - 1)
        /\ pc \in {"delivered", "failed"} => k - 1 \in 0..(MaxAttempts - 1)
    BY <1>1, DeliveryAssumption
  <2> QED BY <1>1, <2>1, PausesAdd DEF InCall
<1>3. pc = "wait" => Wait(k) \in Nat /\ Pause(k) \in Nat /\ Wait(k) <= Pause(k)
  <2>1. pc = "wait" => k \in Nat \ {0}
    BY <1>1
  <2> QED BY <2>1, WaitIs
<1>4. IF pc = "wait" THEN d = Wait(k) ELSE d <= Slow
  OBVIOUS
<1> HIDE DEF k
<1>5. pc = "insert" => clock + d <= B + Slow
  BY <1>1, <1>4
<1>6. pc = "wait" => clock + d <= B + Slow + Paused(k)
  BY <1>1, <1>2, <1>3, <1>4
<1>7. pc \in {"delivered", "failed"} => clock + d <= B + Slow + Pauses + Slow
  BY <1>1, <1>2, <1>4
<1>8. clock + d <= B + Pauses + 2 * Slow
  BY <1>1, <1>2, <1>5, <1>6, <1>7 DEF InCall
<1>9. CASE GivesUp
  <2>1. cut'[call] = "limit" => B + Pauses + 2 * Slow >= Soft
    BY <1>1, <1>2, <1>8
  <2> QED BY <1>9, <2>1, CutOff
<1>10. CASE GoesOn
  <2>1. clock' = clock + d /\ call' = call /\ posted' = posted /\ tries'[call] = k
    BY <1>10 DEF GoesOn, Same, k
  <2>2. CASE pc = "insert"
    <3>1. pc' = "post"
      BY <1>10, <2>2 DEF GoesOn, Closes
    <3>2. Elapsed' = Slow + Paused(0)
      BY <1>1, <2>1, <2>2, <3>1 DEF Elapsed
    <3>3. clock' <= B + Elapsed'
      BY <1>1, <1>2, <1>5, <2>1, <2>2, <3>2
    <3> QED BY <1>10, <2>1, <3>3, CarryOn
  <2>3. CASE pc = "wait"
    <3>1. pc' = "post"
      BY <1>10, <2>3 DEF GoesOn, Closes, Inserts
    <3>2. Elapsed' = Slow + Paused(k)
      BY <2>1, <3>1 DEF Elapsed
    <3>3. clock' <= B + Elapsed'
      BY <1>1, <1>2, <1>6, <2>1, <2>3, <3>2
    <3> QED BY <1>10, <2>1, <3>3, CarryOn
  <2>4. CASE pc \in {"delivered", "failed"}
    <3>1. pc' = "over"
      BY <1>10, <2>4 DEF GoesOn, Inserts
    <3> QED BY <1>10, <3>1, CarryOn
  <2> QED BY <2>2, <2>3, <2>4 DEF InCall
<1> QED BY <1>9, <1>10

LEMMA SleepTimes ==
  ASSUME IInv, ClockInv, TimeInv, Sleep
  PROVE  TimeInv'
<1>0. InCall /\ pc = "wait" /\ Counts /\ (GivesUp \/ GoesOn) /\ UNCHANGED <<posted, tries>>
  BY Waits DEF Sleep
<1>1. /\ call \in Calls /\ clock \in Nat /\ Soft \in Nat /\ Hard \in Nat /\ Soft < Hard
      /\ tries[call] \in 1..(MaxAttempts - 1)
  BY <1>0, Numbers
<1> DEFINE d == Wait(tries[call])
<1>2. d \in Nat
  BY <1>1, WaitLasts
<1>3. \/ Strikes(clock + d) /\ Escape(Soft, "limit")
      \/ Kills(clock + d) /\ Killed
      \/ clock' = clock + d /\ UNCHANGED cut
  BY DEF Sleep
<1>4. d = Wait(tries[call])
  OBVIOUS
<1> HIDE DEF d
<1>5. cut'[call] = "limit" => clock + d >= Soft
  BY <1>0, <1>1, <1>2, <1>3 DEF Strikes, Kills, TimeInv
<1>6. GoesOn => clock' = clock + d
  <2>1. GoesOn => UNCHANGED cut /\ cut[call] # "limit"
    BY <1>0 DEF GoesOn, Same, TimeInv
  <2>2. Escape(Soft, "limit") \/ Killed => cut'[call] = "limit"
    BY <1>1 DEF Escape, Killed, IInv, TypeOK
  <2> QED BY <1>3, <2>1, <2>2
<1> QED BY <1>0, <1>2, <1>4, <1>5, <1>6, StepTimes

LEMMA CommitTimes ==
  ASSUME IInv, TimeInv, InCall, Counts, GivesUp \/ GoesOn, pc \notin {"post", "wait"},
         UNCHANGED <<posted, tries>>, NEW h, NEW l, Commit(h, l)
  PROVE  TimeInv'
<1>1. /\ call \in Calls /\ clock \in Nat /\ Soft \in Nat /\ Hard \in Nat /\ Soft < Hard
      /\ \A d \in Saving : d \in Nat /\ d <= Slow
  BY Numbers
<1>2. PICK d \in Saving :
        \/ Strikes(clock + d) /\ Escape(Soft, "limit")
        \/ Kills(clock + d) /\ Killed
        \/ Escape(clock + d, "error")
        \/ clock' = clock + d /\ UNCHANGED cut
  BY DEF Commit
<1>3. /\ Escape(Soft, "limit") \/ Killed => cut'[call] = "limit"
      /\ Escape(clock + d, "error") => cut'[call] = "error"
  BY <1>1 DEF Escape, Killed, IInv, TypeOK
<1>4. cut[call] # "limit"
  BY DEF TimeInv
<1>5. Strikes(clock + d) \/ Kills(clock + d) => clock + d >= Soft
  BY <1>1 DEF Strikes, Kills
<1>6. cut'[call] = "limit" => clock + d >= Soft
  BY <1>2, <1>3, <1>4, <1>5
<1>7. GoesOn => clock' = clock + d
  <2>1. GoesOn => UNCHANGED cut
    BY DEF GoesOn, Same
  <2>2. Escape(clock + d, "error") => clock' = clock + d
    BY DEF Escape
  <2> QED BY <1>2, <1>3, <1>4, <2>1, <2>2
<1> QED BY <1>1, <1>6, <1>7, StepTimes

LEMMA BeginTimes ==
  ASSUME IInv, TimeInv, NEW c \in Calls, NEW t \in 0..Hard, Report(c, t)
  PROVE  TimeInv'
<1>1. /\ call = None /\ clock' = t /\ UNCHANGED <<posted, cut>>
      /\ pc' = "insert" /\ call' = c
      /\ begun' = [begun EXCEPT ![c] = t] /\ begun \in [Calls -> 0..Hard]
      /\ posted \in [Calls -> Nat]
  BY Beginning DEF Report, Open, IInv, TypeOK
<1>2. \A d \in Calls : cut[d] = None
  BY <1>1, DeliveryAssumption DEF TimeInv, Calls
<1>3. clock' <= begun'[call'] + posted'[call'] + Elapsed'
  BY <1>1 DEF Elapsed
<1> QED BY <1>1, <1>2, <1>3, DeliveryAssumption DEF TimeInv, Calls

(* A call that a limit cuts off began too late or spent too long in its    *)
(* POSTs, for any number of attempts.                                      *)
THEOREM UndisturbedCalls == Spec => []Undisturbed
<1>1. Init => TimeInv
  BY DeliveryAssumption DEF Init, TimeInv, InCall, Calls
<1>2. ASSUME IInv, ClockInv, TimeInv, [Next]_vars PROVE TimeInv'
  <2>1. CASE UNCHANGED vars
    BY <1>2, <2>1 DEF vars, TimeInv, Elapsed, Late, InCall
  <2>2. CASE Complete \/ Fail
    <3>1. \A t \in Ends : t \in 0..Hard
      BY DeliveryAssumption
    <3> QED BY <1>2, <2>2, <3>1, BeginTimes DEF Complete, Fail, Calls
  <2>3. CASE Insert
    BY <1>2, <2>3, Insertion, CommitTimes DEF Insert
  <2>4. CASE Finalize
    BY <1>2, <2>4, Finalization, CommitTimes DEF Finalize
  <2> QED BY <1>2, <2>1, <2>2, <2>3, <2>4, PostTimes, SleepTimes DEF Next
<1>3. TimeInv => Undisturbed
  BY DEF TimeInv, Undisturbed, Late, Slow
<1> QED BY <1>1, <1>2, <1>3, DeliverySafe, PTL DEF Spec
=============================================================================
