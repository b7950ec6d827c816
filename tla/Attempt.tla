-------------------------------- MODULE Attempt --------------------------------
(***************************************************************************)
(* One task run by several workers at once, as late acknowledgement may    *)
(* have it: what process_generation does in its try block                  *)
(* (app/queues/tasks.py).  A run loads the input pictures and has them     *)
(* checked, takes the mode and builds the prompt, calls the provider, for  *)
(* which the pictures are loaded again, saves the file under the task's    *)
(* name and reports the task completed.  Which run may start when, and     *)
(* what becomes of one that fails, is in Generation.                       *)
(***************************************************************************)
EXTENDS ComfyProvider

CONSTANTS Urls,          \* reference_urls and image_url of the task
          Image,         \* image_url
          Settings,      \* settings, and simulate_minor of the task's metadata
          MaxChanges     \* bound: changes of what the URLs lead to

ASSUME AttemptAssumption ==
    /\ Image \in Urls /\ MaxChanges \in Nat
    /\ Settings \subseteq [checker : {"insightface", "mock", "none"}, closed : BOOLEAN,
                           flagged : BOOLEAN, provider : {"comfyui", "mock"},
                           local : BOOLEAN]

VARIABLES conf,          \* settings
          page,          \* what each URL leads to, by what the checker would say
          changes,
          seen, used,    \* history: pictures the check and the provider loaded
          file,          \* the task's file
          reported,      \* history: a run has reported its result
          spoilt         \* history: two saves overlapped, or one was cut off

inputs == <<conf, page, changes>>
results == <<file, reported, spoilt>>
vars == <<comfyVars, inputs, seen, used, results>>

NoPictures == [u \in Urls |-> "gone"]

Init == /\ ComfyInit
        /\ conf \in Settings
        /\ page \in [Urls -> {"allowed", "refused", "gone"}]
        /\ changes = 0
        /\ seen = [w \in Workers |-> NoPictures]
        /\ used = [w \in Workers |-> NoPictures]
        /\ file = "none" /\ reported = FALSE /\ spoilt = FALSE

(* People change what a URL leads to.                                      *)
Change == /\ changes < MaxChanges /\ changes' = changes + 1
          /\ \E u \in Urls, c \in {"allowed", "refused", "gone"} :
                page' = [page EXCEPT ![u] = c]
          /\ UNCHANGED <<comfyVars, conf, seen, used, results>>

----------------------------------------------------------------------------
(* load_bytes: any error, also of a moment, is a picture that is not there *)
Loads(us) == {s \in [Urls -> {"allowed", "refused", "gone"}] :
                \A u \in Urls : s[u] = "gone" \/ (u \in us /\ s[u] = page[u])}
Fetched(s) == {u \in Urls : s[u] # "gone"}

(* The pictures of a run are remembered until the provider has them.       *)
Remember(w, s, g) ==
    LET over == pc'[w] \in {"idle", "poll", "write", "report"} IN
    /\ seen' = [seen EXCEPT ![w] = IF over THEN NoPictures ELSE s]
    /\ used' = [used EXCEPT ![w] = IF over THEN NoPictures ELSE g]
Forget(w) == Remember(w, seen[w], used[w])

Begin(w) ==
    /\ pc[w] = "idle" /\ calls[w] < MaxCalls
    /\ calls' = [calls EXCEPT ![w] = @ + 1]
    /\ elapsed' = [elapsed EXCEPT ![w] = 0]
    /\ waited' = [waited EXCEPT ![w] = 0]
    /\ Goto(w, "check")
    /\ UNCHANGED <<job, inputs, seen, used, results>>

----------------------------------------------------------------------------
(* enforce_safety                                                          *)
FirstRefuses(s, broken) ==   \* mutant: the first picture decides
    IF s[Image] = "gone" THEN \E u \in Fetched(s) : s[u] = "refused"
    ELSE s[Image] = "refused"

(* The check of pictures s, of which those in broken cannot be analysed.   *)
Refuses(s, broken) ==
    \/ \E u \in Fetched(s) \ broken : s[u] = "refused"
    \/ conf.closed /\ (broken # {} \/ Fetched(s) = {})

(* The pictures are loaded one after the other and then analysed; what     *)
(* each URL leads to changes by itself, so that one step stands for all.   *)
InsightFace(w) ==
    \E d \in Delays, s \in Loads(Urls), broken \in SUBSET Urls :
      /\ broken \subseteq Fetched(s)
      /\ TakesLoading(w, d, broken # {} \/ Fetched(s) # Urls,
            IF Refuses(s, broken) THEN End(w, "blocked") ELSE Goto(w, "prompt"))
      /\ Remember(w, [u \in Urls |-> IF u \in broken THEN "unread" ELSE s[u]], used[w])

Unchecked(w) == /\ IF conf.checker = "mock" /\ conf.flagged
                   THEN End(w, "blocked") ELSE Goto(w, "prompt")
                /\ Forget(w) /\ UNCHANGED elapsed

(* Loading the age model may fail, as may the updates before it.           *)
Check(w) ==
    /\ pc[w] = "check"
    /\ \/ conf.checker = "insightface" /\ InsightFace(w)
       \/ conf.checker # "insightface" /\ Unchecked(w)
       \/ End(w, "error") /\ Forget(w) /\ UNCHANGED elapsed
    /\ UNCHANGED <<calls, waited, job, inputs, results>>

(* A mode that is disabled and a template that fails are final, a mode     *)
(* this worker does not know is an error like others.                      *)
Prompt(w) ==
    /\ pc[w] = "prompt"
    /\ \/ End(w, "invalid") \/ End(w, "error")
       \/ Goto(w, IF conf.provider = "comfyui" THEN "upload" ELSE "draw")
    /\ Forget(w)
    /\ UNCHANGED <<calls, elapsed, waited, job, inputs, results>>

----------------------------------------------------------------------------
(* The providers.  A picture that cannot be loaded is left out.            *)
ComfyUI(w) ==
    /\ \/ \E g \in Loads(Urls) : Upload(w, Fetched(g) # Urls) /\ Remember(w, seen[w], g)
       \/ (Submit(w) \/ Poll(w) \/ GiveUp(w) \/ Download(w)) /\ Forget(w)
    /\ UNCHANGED <<inputs, results>>

(* MockProvider draws on the image, or on nothing.                         *)
Draw(w) ==
    /\ pc[w] = "draw"
    /\ \E d \in Delays, g \in Loads({Image}) :
         /\ TakesLoading(w, d, g[Image] = "gone", Goto(w, "save") \/ End(w, "error"))
         /\ Remember(w, seen[w], g)
    /\ UNCHANGED <<calls, waited, job, inputs, results>>

----------------------------------------------------------------------------
(* StorageProvider.save                                                    *)
Elsewhere(w) == \E o \in Workers \ {w} : pc[o] = "write"

PutAnyway(w) ==          \* mutant: errors of put_object ignored
    Goto(w, "report") /\ file' \in {file, "whole"} /\ UNCHANGED spoilt

(* put_object replaces the file at once, even if its answer is lost.       *)
Put(w) == /\ Goto(w, "report") \/ End(w, "error")
          /\ file' \in {file, "whole"} /\ (pc'[w] = "report" => file' = "whole")
          /\ UNCHANGED spoilt

(* open(path, "wb") empties the file that an earlier run has left.         *)
Open(w) == /\ Goto(w, "write") /\ file' = "empty"
           /\ spoilt' = (spoilt \/ Elsewhere(w))

Save(w) ==
    /\ pc[w] = "save"
    /\ \/ IF conf.local THEN Open(w) ELSE Put(w)
       \/ End(w, "error") /\ UNCHANGED <<file, spoilt>>
    /\ Forget(w)
    /\ UNCHANGED <<calls, elapsed, waited, job, inputs, reported>>

(* The bytes are written over those another run has written meanwhile,     *)
(* which may be more, unless the disk is full.                             *)
Write(w) ==
    /\ pc[w] = "write"
    /\ \/ /\ Goto(w, "report")
          /\ file' \in (IF file = "empty" THEN {"whole"} ELSE {"whole", "mixed"})
          /\ UNCHANGED spoilt
       \/ End(w, "error") /\ file' \in {file, "mixed"} /\ spoilt' = TRUE
    /\ Forget(w)
    /\ UNCHANGED <<calls, elapsed, waited, job, inputs, reported>>

(* The result, the status and the callback, each of which may fail.        *)
Report(w) ==
    /\ pc[w] = "report"
    /\ \/ End(w, "done") /\ reported' = TRUE
       \/ End(w, "error") /\ reported' \in {reported, TRUE}
    /\ Forget(w)
    /\ UNCHANGED <<calls, elapsed, waited, job, inputs, file, spoilt>>

(* A time limit, or the loss of the worker, between the timed calls.       *)
Cut(w) ==
    /\ pc[w] \in {"prompt", "save", "write", "report"} /\ End(w, "cut")
    /\ IF pc[w] = "write" THEN file' \in {file, "mixed"} /\ spoilt' = TRUE
                          ELSE UNCHANGED <<file, spoilt>>
    /\ Forget(w)
    /\ UNCHANGED <<calls, elapsed, waited, job, inputs, reported>>

Run(w) == \/ Check(w) \/ Prompt(w) \/ ComfyUI(w) \/ Draw(w)
          \/ Save(w) \/ Write(w) \/ Report(w) \/ Cut(w)

Next == \/ \E w \in Workers : Begin(w) \/ Run(w)
        \/ Engine /\ UNCHANGED <<inputs, seen, used, results>>
        \/ Change

Spec == Init /\ [][Next]_vars
----------------------------------------------------------------------------
AfterComfy == {"save", "write", "report"}

(* Every variable keeps its type; no run outlives the hard limit.          *)
TypeOK ==
    /\ pc \in [Workers -> {"idle", "check", "prompt", "upload", "submit", "poll",
                           "download", "draw"} \cup AfterComfy]
    /\ calls \in [Workers -> 0..MaxCalls]
    /\ elapsed \in [Workers -> 0..Hard] /\ waited \in [Workers -> 0..Timeout]
    /\ job \in [Calls -> {"none", "queued", "running", "output", "failed"}]
    /\ out \in [Calls -> {"none", "done", "blocked", "invalid", "failed", "error",
                          "timeout", "cut"}]
    /\ conf \in Settings /\ changes \in 0..MaxChanges
    /\ page \in [Urls -> {"allowed", "refused", "gone"}]
    /\ seen \in [Workers -> [Urls -> {"allowed", "refused", "gone", "unread"}]]
    /\ used \in [Workers -> [Urls -> {"allowed", "refused", "gone"}]]
    /\ file \in {"none", "empty", "whole", "mixed"}
    /\ reported \in BOOLEAN /\ spoilt \in BOOLEAN

(* A run that learns how its job has ended leaves nothing behind: once it  *)
(* has the result or ComfyUI's error, its own job is neither queued nor    *)
(* running, although other jobs end at the same time and ComfyUI may have  *)
(* been restarted.                                                         *)
LeavesNothing ==
    \A w \in Workers : calls[w] > 0 /\ job[Current(w)] \in {"queued", "running"} =>
        pc[w] \notin AfterComfy /\ out[Current(w)] \notin {"done", "failed"}

(* Pictures reach the provider only after a check that has refused none of *)
(* those it loaded and, where a check that fails must refuse, has judged   *)
(* at least one and every one it loaded.                                   *)
UsedAfterCheck ==
    \A w \in Workers : conf.checker = "insightface" /\ Fetched(used[w]) # {} =>
        /\ \A u \in Urls : seen[w][u] # "refused" /\ (conf.closed => seen[w][u] # "unread")
        /\ conf.closed => \E u \in Urls : seen[w][u] = "allowed"

(* A task that was reported with a result has its whole file: only a run   *)
(* that is writing it again at this moment, or saves that overlapped or    *)
(* were cut off, can take it away, and with object storage nothing can.    *)
ReportedWhole ==
    reported /\ file # "whole" =>
        conf.local /\ (spoilt \/ \E w \in Workers : pc[w] = "write")

(* app/services/safety.py:122: a picture that cannot be checked because it *)
(* was not loaded blocks the task.                                         *)
NothingUnchecked ==
    \A w \in Workers : conf.checker = "insightface" /\ conf.closed =>
        \A u \in Fetched(used[w]) : seen[w][u] # "gone"
=============================================================================
