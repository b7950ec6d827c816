----------------------------- MODULE ComfyProvider -----------------------------
(***************************************************************************)
(* Generation on ComfyUI (app/providers/comfyui.py): the run of a task     *)
(* uploads the images, submits a job and asks for its entry in the history *)
(* until it is there or has waited long enough, while the soft time limit  *)
(* of the task may end the run first.  ComfyUI, which the workers share,   *)
(* runs one job at a time, knows nothing of the calls and keeps its jobs   *)
(* in memory.  What the run does before and after is in Attempt.           *)
(*                                                                         *)
(* Time is counted in poll intervals since the run began.                  *)
(***************************************************************************)
EXTENDS Integers, FiniteSets

CONSTANTS Workers,
          Timeout,       \* COMFYUI_TIMEOUT: sleeping this long, a call gives up
          Soft, Hard,    \* TASK_SOFT_TIMEOUT, TASK_HARD_TIMEOUT
          Delays,        \* bound: how long a request may take
          MaxCalls       \* bound: runs of each worker

ASSUME ComfyAssumption ==
    /\ Timeout \in Nat \ {0} /\ Soft \in Nat \ {0} /\ MaxCalls \in Nat
    /\ Hard \in Nat /\ Soft <= Hard
    /\ Delays \subseteq Nat /\ 0 \in Delays

VARIABLES pc,            \* where each worker is
          calls,         \* how many runs it has begun
          elapsed,       \* how long the current one has lasted
          waited,        \* waited
          job,           \* what ComfyUI knows of each run's job
          out            \* history: how each run ended

comfyVars == <<pc, calls, elapsed, waited, job, out>>

Calls == Workers \X (1..MaxCalls)
Current(w) == <<w, calls[w]>>          \* the run, and prompt_id

ComfyInit == /\ pc = [w \in Workers |-> "idle"]
             /\ calls = [w \in Workers |-> 0]
             /\ elapsed = [w \in Workers |-> 0]
             /\ waited = [w \in Workers |-> 0]
             /\ job = [c \in Calls |-> "none"]
             /\ out = [c \in Calls |-> "none"]

----------------------------------------------------------------------------
(* generate                                                                *)
Goto(w, l) == pc' = [pc EXCEPT ![w] = l] /\ UNCHANGED out
End(w, o) == pc' = [pc EXCEPT ![w] = "idle"] /\ out' = [out EXCEPT ![Current(w)] = o]

(* Something that takes d intervals: the soft limit's exception, raised    *)
(* once, ends the run, and the hard limit kills the worker.                *)
Strikes(w, d) == elapsed[w] < Soft /\ elapsed[w] + d >= Soft
LastsAny(w, d, done) ==  \* mutant: no hard limit
    elapsed' = [elapsed EXCEPT ![w] = @ + d] /\ done
Lasts(w, d, done) ==
    IF elapsed[w] + d >= Hard
    THEN elapsed' = [elapsed EXCEPT ![w] = Hard] /\ End(w, "cut")
    ELSE elapsed' = [elapsed EXCEPT ![w] = @ + d] /\ done
Takes(w, d, done) ==
    IF Strikes(w, d)
    THEN elapsed' = [elapsed EXCEPT ![w] = Soft] /\ End(w, "cut")
    ELSE Lasts(w, d, done)

(* load_bytes and the check take any exception, also the soft limit's, for *)
(* a failure of their own, so that the run goes on without a soft limit.   *)
TakesLoading(w, d, failed, done) ==
    \/ Takes(w, d, done)
    \/ Strikes(w, d) /\ failed /\ elapsed' = [elapsed EXCEPT ![w] = Soft] /\ done

(* The uploads, of which some pictures may have failed to load, and the    *)
(* workflow, any of which may fail.                                        *)
Upload(w, failed) ==
    /\ pc[w] = "upload"
    /\ \E d \in Delays : TakesLoading(w, d, failed, Goto(w, "submit") \/ End(w, "error"))
    /\ UNCHANGED <<calls, waited, job>>

(* POST /prompt: the job may be queued although no answer arrives.         *)
Submit(w) ==
    /\ pc[w] = "submit"
    /\ \E d \in Delays :
         \/ /\ job' = [job EXCEPT ![Current(w)] = "queued"]
            /\ Takes(w, d, Goto(w, "poll") \/ End(w, "error"))
         \/ /\ Takes(w, d, End(w, "error"))
            /\ UNCHANGED job
    /\ UNCHANGED <<calls, waited>>

(* An entry in the history decides; without one, reporting progress may    *)
(* fail.                                                                   *)
AnyEntry(w) ==           \* mutant: takes any entry for its own
    IF \E c \in Calls : job[c] = "output" THEN Goto(w, "download") ELSE Goto(w, "poll")

Entry(w) ==
    IF job[Current(w)] = "output" THEN Goto(w, "download")
    ELSE IF job[Current(w)] = "failed" THEN End(w, "failed")
    ELSE Goto(w, "poll") \/ End(w, "error")

(* Sleep, then GET /history: a request that fails is ignored, an answer    *)
(* that is not JSON is not.                                                *)
Poll(w) ==
    /\ pc[w] = "poll" /\ waited[w] < Timeout
    /\ waited' = [waited EXCEPT ![w] = @ + 1]
    /\ \E d \in Delays : Takes(w, 1 + d, Goto(w, "poll") \/ Entry(w) \/ End(w, "error"))
    /\ UNCHANGED <<calls, job>>

GiveUp(w) ==
    /\ pc[w] = "poll" /\ waited[w] >= Timeout
    /\ End(w, "timeout")
    /\ UNCHANGED <<calls, elapsed, waited, job>>

Download(w) ==
    /\ pc[w] = "download"
    /\ \E d \in Delays : Takes(w, d, Goto(w, "save") \/ End(w, "error"))
    /\ UNCHANGED <<calls, waited, job>>

----------------------------------------------------------------------------
(* ComfyUI                                                                 *)
JobStep(c, from, to) == /\ job[c] = from
                        /\ job' = [job EXCEPT ![c] = to]
                        /\ UNCHANGED <<pc, calls, elapsed, waited, out>>
Start(c) == (\A o \in Calls : job[o] # "running") /\ JobStep(c, "queued", "running")
Finish(c) == JobStep(c, "running", "output") \/ JobStep(c, "running", "failed")

(* Started again, it has forgotten its queue and its history.              *)
Restart == /\ job' = [c \in Calls |-> "none"]
           /\ UNCHANGED <<pc, calls, elapsed, waited, out>>

Engine == Restart \/ \E c \in Calls : Start(c) \/ Finish(c)
=============================================================================
