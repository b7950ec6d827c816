----------------------------- MODULE AttemptProofs -----------------------------
(***************************************************************************)
(* Proofs about module Attempt, for any number of workers and of pictures  *)
(* and any settings.                                                       *)
(***************************************************************************)
EXTENDS Attempt, TLAPS

Places == {"idle", "check", "prompt", "upload", "submit", "poll", "download", "draw"}
            \cup AfterComfy
Outcomes == {"done", "blocked", "invalid", "failed", "error", "timeout", "cut"}
Timed == {"check", "upload", "submit", "poll", "download", "draw"}

(* Where a step takes its run: to its next place, or to its end.           *)
Moves(w) ==
    \E l \in Places :
      /\ pc' = [pc EXCEPT ![w] = l]
      /\ \/ out' = out /\ l # "idle"
         \/ l = "idle" /\ \E o \in Outcomes : out' = [out EXCEPT ![Current(w)] = o]
Ages(w) == \E e \in 0..Hard : elapsed' = [elapsed EXCEPT ![w] = e]
KeepsFile == UNCHANGED <<file, spoilt, reported>>
JobOf(w) == job' = job \/ (pc[w] = "submit" /\ job' = [job EXCEPT ![Current(w)] = "queued"])

Looks(w) == \E s \in [Urls -> {"allowed", "refused", "gone", "unread"}],
               g \in [Urls -> {"allowed", "refused", "gone"}] :
               seen' = [seen EXCEPT ![w] = s] /\ used' = [used EXCEPT ![w] = g]

(* What a step of a run does to the run itself, whatever the step is.      *)
Moving(w) ==
    /\ Moves(w) /\ Ages(w) /\ JobOf(w) /\ Looks(w)
    /\ \E n \in 0..Timeout : waited' = [waited EXCEPT ![w] = n]
    /\ UNCHANGED <<calls, inputs>>

LEMMA RunMoves ==
  ASSUME TypeOK, NEW w \in Workers, Run(w)
  PROVE  Moving(w)
<1> USE ComfyAssumption, AttemptAssumption
<1>0. /\ UNCHANGED calls => \A x : Current(w)' = Current(w)
      /\ elapsed[w] \in 0..Hard /\ waited[w] \in 0..Timeout
      /\ elapsed = [elapsed EXCEPT ![w] = elapsed[w]]
      /\ waited = [waited EXCEPT ![w] = waited[w]]
      /\ seen[w] \in [Urls -> {"allowed", "refused", "gone", "unread"}]
      /\ used[w] \in [Urls -> {"allowed", "refused", "gone"}]
  BY DEF TypeOK, Current
<1>f. ASSUME Forget(w) PROVE Looks(w)
  <2>1. NoPictures \in [Urls -> {"allowed", "refused", "gone"}]
    BY DEF NoPictures
  <2> QED BY <1>0, <1>f, <2>1 DEF Forget, Remember, Looks
<1>l. ASSUME NEW us, NEW s \in Loads(us) PROVE s \in [Urls -> {"allowed", "refused", "gone"}]
  BY <1>l DEF Loads
<1>r. ASSUME NEW s \in [Urls -> {"allowed", "refused", "gone", "unread"}],
             NEW g \in [Urls -> {"allowed", "refused", "gone"}], Remember(w, s, g)
      PROVE  Looks(w)
  <2>1. NoPictures \in [Urls -> {"allowed", "refused", "gone"}]
    BY DEF NoPictures
  <2> QED BY <1>r, <2>1 DEF Remember, Looks
<1>g. ASSUME NEW l \in Places, Goto(w, l), l # "idle" PROVE Moves(w)
  BY <1>g DEF Goto, Moves
<1>e. ASSUME NEW o \in Outcomes, End(w, o) PROVE Moves(w)
  BY <1>e DEF End, Moves, Places
<1>s. UNCHANGED elapsed => Ages(w)
  BY <1>0 DEF Ages
<1>w. UNCHANGED waited => \E n \in 0..Timeout : waited' = [waited EXCEPT ![w] = n]
  BY <1>0
<1>1. CASE Check(w)
  <2>1. CASE conf.checker = "insightface" /\ InsightFace(w)
    <3>1. PICK d \in Delays, s \in Loads(Urls), broken \in SUBSET Urls :
            /\ TakesLoading(w, d, broken # {} \/ Fetched(s) # Urls,
                  IF Refuses(s, broken) THEN End(w, "blocked") ELSE Goto(w, "prompt"))
            /\ Remember(w, [u \in Urls |-> IF u \in broken THEN "unread" ELSE s[u]], used[w])
      BY <2>1 DEF InsightFace
    <3>2. Moves(w)
      BY <3>1, <1>g, <1>e DEF TakesLoading, Takes, Lasts, Places, Outcomes
    <3>3. Ages(w)
      BY <3>1, <1>0 DEF TakesLoading, Takes, Lasts, Ages
    <3>4. Looks(w)
      <4>1. [u \in Urls |-> IF u \in broken THEN "unread" ELSE s[u]]
              \in [Urls -> {"allowed", "refused", "gone", "unread"}]
        BY <3>1, <1>l
      <4> QED BY <4>1, <3>1, <1>r, <1>0
    <3> QED BY <1>1, <3>2, <3>3, <3>4, <1>w DEF Check, Moving, JobOf
  <2>2. CASE ~(conf.checker = "insightface" /\ InsightFace(w))
    BY <1>1, <2>2, <1>f, <1>g, <1>e, <1>s, <1>w DEF Check, Unchecked, Moving, JobOf, Places, Outcomes
  <2> QED BY <2>1, <2>2
<1>2. CASE Prompt(w)
  BY <1>2, <1>f, <1>g, <1>e, <1>s, <1>w DEF Prompt, Moving, JobOf, Places, Outcomes
<1>3. CASE ComfyUI(w)
  <2>1. ASSUME NEW g \in Loads(Urls), Upload(w, Fetched(g) # Urls), Remember(w, seen[w], g)
        PROVE  Moving(w)
    <3>1. Moves(w)
      BY <2>1, <1>g, <1>e DEF Upload, TakesLoading, Takes, Lasts, Places, Outcomes
    <3>2. Ages(w)
      BY <2>1, <1>0 DEF Upload, TakesLoading, Takes, Lasts, Ages
    <3> QED BY <1>3, <2>1, <3>1, <3>2, <1>w, <1>l, <1>r, <1>0 DEF ComfyUI, Upload, Moving, JobOf
  <2>2. CASE Submit(w) /\ Forget(w)
    <3>1. Moves(w)
      BY <2>2, <1>g, <1>e DEF Submit, Takes, Lasts, Places, Outcomes
    <3>2. Ages(w)
      BY <2>2, <1>0 DEF Submit, Takes, Lasts, Ages
    <3> QED BY <1>3, <2>2, <3>1, <3>2, <1>w, <1>f DEF ComfyUI, Submit, Moving, JobOf
  <2>3. CASE Poll(w) /\ Forget(w)
    <3>1. Moves(w)
      BY <2>3, <1>g, <1>e DEF Poll, Entry, Takes, Lasts, Places, Outcomes
    <3>2. Ages(w)
      BY <2>3, <1>0 DEF Poll, Takes, Lasts, Ages
    <3>3. waited[w] + 1 \in 0..Timeout /\ waited' = [waited EXCEPT ![w] = waited[w] + 1]
      BY <2>3, <1>0 DEF Poll
    <3> QED BY <1>3, <2>3, <3>1, <3>2, <3>3, <1>f DEF ComfyUI, Poll, Moving, JobOf
  <2>4. CASE GiveUp(w) /\ Forget(w)
    BY <1>3, <2>4, <1>e, <1>s, <1>w, <1>f DEF ComfyUI, GiveUp, Moving, JobOf, Outcomes
  <2>5. CASE Download(w) /\ Forget(w)
    <3>1. Moves(w)
      BY <2>5, <1>g, <1>e DEF Download, Takes, Lasts, Places, Outcomes, AfterComfy
    <3>2. Ages(w)
      BY <2>5, <1>0 DEF Download, Takes, Lasts, Ages
    <3> QED BY <1>3, <2>5, <3>1, <3>2, <1>w, <1>f DEF ComfyUI, Download, Moving, JobOf
  <2> QED BY <1>3, <2>1, <2>2, <2>3, <2>4, <2>5 DEF ComfyUI
<1>4. CASE Draw(w)
  <2>1. PICK d \in Delays, g \in Loads({Image}) :
         /\ TakesLoading(w, d, g[Image] = "gone", Goto(w, "save") \/ End(w, "error"))
         /\ Remember(w, seen[w], g)
    BY <1>4 DEF Draw
  <2>2. Moves(w)
    BY <2>1, <1>g, <1>e DEF TakesLoading, Takes, Lasts, Places, Outcomes, AfterComfy
  <2>3. Ages(w)
    BY <2>1, <1>0 DEF TakesLoading, Takes, Lasts, Ages
  <2>4. Looks(w)
    BY <2>1, <1>0, <1>l, <1>r
  <2> QED BY <1>4, <2>2, <2>3, <2>4, <1>w DEF Draw, Moving, JobOf
<1>5. CASE Save(w)
  BY <1>5, <1>f, <1>g, <1>e, <1>s, <1>w
     DEF Save, Open, Put, Moving, JobOf, Places, Outcomes, AfterComfy
<1>6. CASE Write(w)
  BY <1>6, <1>f, <1>g, <1>e, <1>s, <1>w
     DEF Write, Moving, JobOf, Places, Outcomes, AfterComfy
<1>7. CASE Report(w)
  BY <1>7, <1>f, <1>g, <1>e, <1>s, <1>w
     DEF Report, Moving, JobOf, Places, Outcomes, AfterComfy
<1>8. CASE Cut(w)
  BY <1>8, <1>f, <1>g, <1>e, <1>s, <1>w
     DEF Cut, Moving, JobOf, Places, Outcomes, AfterComfy
<1> QED BY <1>1, <1>2, <1>3, <1>4, <1>5, <1>6, <1>7, <1>8 DEF Run

----------------------------------------------------------------------------
(* The worker's own data after its step, and everyone else's.              *)
LEMMA OnlyOwn ==
  ASSUME TypeOK, NEW w \in Workers, Moving(w)
  PROVE  /\ pc'[w] \in Places
         /\ calls[w] > 0 /\ pc'[w] # "idle" => out'[Current(w)] = out[Current(w)]
         /\ \A v \in Workers \ {w} : /\ pc'[v] = pc[v]
                                     /\ seen'[v] = seen[v] /\ used'[v] = used[v]
         /\ \A c \in Calls : c # Current(w) => job'[c] = job[c] /\ out'[c] = out[c]
BY DEF TypeOK, Moving, Moves, Looks, JobOf, Calls, Current, Places, AfterComfy

THEOREM TypeCorrect == Spec => []TypeOK
<1> USE ComfyAssumption, AttemptAssumption
<1>1. Init => TypeOK
  <2> SUFFICES ASSUME Init PROVE TypeOK
    OBVIOUS
  <2>1. NoPictures \in [Urls -> {"allowed", "refused", "gone"}]
    BY DEF NoPictures
  <2>2. /\ seen \in [Workers -> [Urls -> {"allowed", "refused", "gone", "unread"}]]
        /\ used \in [Workers -> [Urls -> {"allowed", "refused", "gone"}]]
    BY <2>1 DEF Init
  <2>3. conf \in Settings /\ changes \in 0..MaxChanges
    BY DEF Init
  <2>4. page \in [Urls -> {"allowed", "refused", "gone"}]
    BY DEF Init
  <2>5. /\ calls \in [Workers -> 0..MaxCalls]
        /\ elapsed \in [Workers -> 0..Hard] /\ waited \in [Workers -> 0..Timeout]
    BY DEF Init, ComfyInit
  <2>6. /\ pc \in [Workers -> Places]
        /\ job \in [Calls -> {"none", "queued", "running", "output", "failed"}]
        /\ out \in [Calls -> {"none"} \cup Outcomes]
    BY DEF Init, ComfyInit, Places
  <2> QED BY <2>2, <2>3, <2>4, <2>5, <2>6 DEF Init, TypeOK, Places, Outcomes
<1>2. TypeOK /\ [Next]_vars => TypeOK'
  <2> SUFFICES ASSUME TypeOK, [Next]_vars PROVE TypeOK'
    OBVIOUS
  <2>1. ASSUME NEW w \in Workers, Begin(w) PROVE TypeOK'
    BY <2>1 DEF Begin, Goto, inputs, results, TypeOK
  <2>2. ASSUME NEW w \in Workers, Run(w) PROVE TypeOK'
    <3>1. Moving(w)
      BY <2>2, RunMoves
    <3>2. /\ file' \in {"none", "empty", "whole", "mixed"}
          /\ reported' \in BOOLEAN /\ spoilt' \in BOOLEAN
      BY <2>2 DEF Run, Check, Prompt, ComfyUI, Draw, Save, Open, Put, Write, Report, Cut,
         results, TypeOK
    <3>3. /\ pc' \in [Workers -> Places] /\ calls' \in [Workers -> 0..MaxCalls]
          /\ elapsed' \in [Workers -> 0..Hard] /\ waited' \in [Workers -> 0..Timeout]
      BY <3>1 DEF Moving, Moves, Ages, TypeOK, Places
    <3>4. /\ job' \in [Calls -> {"none", "queued", "running", "output", "failed"}]
          /\ out' \in [Calls -> {"none"} \cup Outcomes]
      <4>1. job' \in [Calls -> {"none", "queued", "running", "output", "failed"}]
        BY <3>1 DEF Moving, JobOf, TypeOK
      <4>2. out' \in [Calls -> {"none"} \cup Outcomes]
        BY <3>1, SMTT(30) DEF Moving, Moves, TypeOK, Outcomes
      <4> QED BY <4>1, <4>2
    <3>5. /\ seen' \in [Workers -> [Urls -> {"allowed", "refused", "gone", "unread"}]]
          /\ used' \in [Workers -> [Urls -> {"allowed", "refused", "gone"}]]
      BY <3>1 DEF Moving, Looks, TypeOK
    <3> QED BY <3>1, <3>2, <3>3, <3>4, <3>5 DEF Moving, inputs, TypeOK, Places, Outcomes
  <2>3. ASSUME Engine, UNCHANGED <<inputs, seen, used, results>> PROVE TypeOK'
    <3>1. job' \in [Calls -> {"none", "queued", "running", "output", "failed"}]
      <4>1. \/ job' = [c \in Calls |-> "none"]
            \/ \E c \in Calls, to \in {"running", "output", "failed"} :
                  job' = [job EXCEPT ![c] = to]
        BY <2>3 DEF Engine, Restart, Start, Finish, JobStep
      <4> QED BY <4>1 DEF TypeOK
    <3>2. UNCHANGED <<pc, calls, elapsed, waited, out>>
      BY <2>3 DEF Engine, Restart, Start, Finish, JobStep
    <3> QED BY <2>3, <3>1, <3>2 DEF inputs, results, TypeOK
  <2>4. CASE Change
    BY <2>4 DEF Change, comfyVars, results, TypeOK
  <2>5. CASE UNCHANGED vars
    BY <2>5 DEF vars, comfyVars, inputs, results, TypeOK
  <2> QED BY <2>1, <2>2, <2>3, <2>4, <2>5 DEF Next
<1> QED BY <1>1, <1>2, PTL DEF Spec

----------------------------------------------------------------------------
(* A run's job does not exist before it is submitted and has ended once    *)
(* the run has its result; a run that has learnt the end of its job was    *)
(* not misled.                                                             *)
JobOfRun(w) ==
    LET c == Current(w) IN
    /\ pc[w] # "idle" => calls[w] > 0
    /\ \A n \in 1..MaxCalls : n > calls[w] => job[<<w, n>>] = "none" /\ out[<<w, n>>] = "none"
    /\ calls[w] > 0 =>
         /\ pc[w] # "idle" => out[c] = "none"
         /\ pc[w] \in {"check", "prompt", "upload", "submit", "draw"} => job[c] = "none"
         /\ pc[w] \in {"download"} \cup AfterComfy => job[c] \notin {"queued", "running"}
         /\ out[c] \in {"done", "failed"} => job[c] \notin {"queued", "running"}
JobInv == \A w \in Workers : JobOfRun(w)

(* A step of run w keeps what is said of its job.                          *)
LEMMA OwnJob ==
  ASSUME TypeOK, NEW w \in Workers, Run(w), JobOfRun(w)
  PROVE  JobOfRun(w)'
<1> USE ComfyAssumption
<1> DEFINE c == Current(w)
<1>1. Moving(w)
  BY RunMoves
<1>2. /\ calls[w] \in 1..MaxCalls /\ c \in Calls /\ UNCHANGED calls
      /\ Current(w)' = c /\ out[c] = "none" /\ pc[w] # "idle"
      /\ pc[w] \in Places /\ job[c] \in {"none", "queued", "running", "output", "failed"}
  <2>1. pc[w] # "idle"
    BY DEF Run, Check, Prompt, ComfyUI, Upload, Submit, Poll, GiveUp, Download, Draw, Save,
       Write, Report, Cut
  <2> QED BY <1>1, <2>1 DEF JobOfRun, Moving, TypeOK, Calls, Current, Places
<1>3. \A n \in 1..MaxCalls : n > calls[w] => job'[<<w, n>>] = "none" /\ out'[<<w, n>>] = "none"
  BY <1>1, <1>2, OnlyOwn DEF JobOfRun, Calls, Current
<1>4. pc'[w] # "idle" => out'[c] = "none"
  BY <1>1, <1>2, OnlyOwn DEF Current
<1>5. /\ pc'[w] \in {"check", "prompt", "upload", "submit", "draw"} => job'[c] = "none"
      /\ pc'[w] \in {"download"} \cup AfterComfy => job'[c] \notin {"queued", "running"}
      /\ out'[c] \in {"done", "failed"} => job'[c] \notin {"queued", "running"}
  <2>1. CASE Check(w) \/ Prompt(w)
    BY <2>1, <1>2 DEF Check, InsightFace, Unchecked, Prompt, TakesLoading, Takes, Lasts, Goto,
       End, JobOfRun, TypeOK, AfterComfy
  <2>2. CASE ComfyUI(w)
    <3>1. CASE \E failed \in BOOLEAN : Upload(w, failed)
      BY <3>1, <1>2 DEF Upload, TakesLoading, Takes, Lasts, Goto, End, JobOfRun, TypeOK,
         AfterComfy
    <3>2. CASE Submit(w)
      BY <3>2, <1>2 DEF Submit, Takes, Lasts, Goto, End, JobOfRun, TypeOK, AfterComfy
    <3>3. CASE Poll(w)
      BY <3>3, <1>2 DEF Poll, Entry, Takes, Lasts, Goto, End, JobOfRun, TypeOK, AfterComfy
    <3>4. CASE GiveUp(w) \/ Download(w)
      BY <3>4, <1>2 DEF GiveUp, Download, Takes, Lasts, Goto, End, JobOfRun, TypeOK, AfterComfy
    <3> QED BY <2>2, <3>1, <3>2, <3>3, <3>4 DEF ComfyUI
  <2>3. CASE Draw(w)
    BY <2>3, <1>2 DEF Draw, TakesLoading, Takes, Lasts, Goto, End, JobOfRun, TypeOK, AfterComfy
  <2>4. CASE Save(w) \/ Write(w) \/ Report(w) \/ Cut(w)
    BY <2>4, <1>2 DEF Save, Open, Put, Write, Report, Cut, Goto, End, JobOfRun, TypeOK,
       AfterComfy
  <2> QED BY <2>1, <2>2, <2>3, <2>4 DEF Run
<1> QED BY <1>2, <1>3, <1>4, <1>5 DEF JobOfRun

(* LeavesNothing: whatever the other runs and ComfyUI do meanwhile.        *)
THEOREM NothingLeft == Spec => []LeavesNothing
<1> USE ComfyAssumption
<1>1. Init => JobInv
  BY DEF Init, ComfyInit, JobInv, JobOfRun, Calls, Current, AfterComfy
<1>2. TypeOK /\ JobInv /\ [Next]_vars => JobInv'
  <2> SUFFICES ASSUME TypeOK, JobInv, [Next]_vars, NEW v \in Workers PROVE JobOfRun(v)'
    BY DEF JobInv
  <2>1. ASSUME NEW w \in Workers, Begin(w) PROVE JobOfRun(v)'
    BY <2>1 DEF Begin, Goto, inputs, results, TypeOK, JobInv, JobOfRun, Calls, Current,
       AfterComfy
  <2>2. ASSUME NEW w \in Workers, Run(w), w # v PROVE JobOfRun(v)'
    <3>1. Moving(w) /\ UNCHANGED calls
      BY <2>2, RunMoves DEF Moving
    <3>2. Current(v)' = Current(v) /\ \A n \in 1..MaxCalls : <<v, n>> # Current(w)
      BY <2>2, <3>1 DEF Current
    <3>3. pc'[v] = pc[v] /\ \A n \in 1..MaxCalls :
            job'[<<v, n>>] = job[<<v, n>>] /\ out'[<<v, n>>] = out[<<v, n>>]
      BY <2>2, <3>1, <3>2, OnlyOwn DEF Calls
    <3>4. calls[v] > 0 => /\ job'[Current(v)] = job[Current(v)]
                          /\ out'[Current(v)] = out[Current(v)]
      BY <3>3 DEF TypeOK, Current
    <3>5. JobOfRun(v)
      BY DEF JobInv
    <3> QED BY <3>1, <3>2, <3>3, <3>4, <3>5 DEF JobOfRun
  <2>3. CASE Run(v)
    BY <2>3, OwnJob DEF JobInv
  <2>4. ASSUME Engine PROVE JobOfRun(v)'
    <3> DEFINE c == Current(v)
    <3>1. UNCHANGED <<pc, calls, out>> /\ Current(v)' = c
      BY <2>4 DEF Engine, Restart, Start, Finish, JobStep, Current
    <3>2. ASSUME NEW x \in Calls
          PROVE  /\ job[x] = "none" => job'[x] = "none"
                 /\ job[x] \notin {"queued", "running"} => job'[x] \notin {"queued", "running"}
      BY <2>4 DEF Engine, Restart, Start, Finish, JobStep, TypeOK
    <3>3. \A n \in 1..MaxCalls : <<v, n>> \in Calls
      BY DEF Calls
    <3>4. calls[v] > 0 => c \in Calls
      BY DEF TypeOK, Calls, Current
    <3>5. JobOfRun(v)
      BY DEF JobInv
    <3> QED BY <3>1, <3>2, <3>3, <3>4, <3>5 DEF JobOfRun
  <2>5. CASE Change \/ UNCHANGED vars
    BY <2>5 DEF Change, vars, comfyVars, JobInv, JobOfRun, Current
  <2> QED BY <2>1, <2>2, <2>3, <2>4, <2>5 DEF Next
<1>3. JobInv => LeavesNothing
  BY DEF JobInv, JobOfRun, LeavesNothing
<1> QED BY <1>1, <1>2, <1>3, TypeCorrect, PTL DEF Spec

----------------------------------------------------------------------------
(* What the check of run w has found allows its pictures to be used.       *)
Allowed(w) ==
    conf.checker = "insightface" =>
        /\ \A u \in Urls : seen[w][u] # "refused" /\ (conf.closed => seen[w][u] # "unread")
        /\ conf.closed => \E u \in Urls : seen[w][u] = "allowed"

(* The pictures a run remembers are loaded after its check has allowed it. *)
PicturesOfRun(w) ==
    /\ pc[w] \in {"prompt", "upload", "draw"} => Allowed(w)
    /\ Fetched(used[w]) # {} => pc[w] \in {"prompt", "upload", "draw", "submit", "save"} /\ Allowed(w)

PicturesInv == \A w \in Workers : PicturesOfRun(w)

(* A check that does not refuse allows what it has loaded.                 *)
LEMMA NotRefused ==
  ASSUME NEW s \in Loads(Urls), NEW broken \in SUBSET Urls, broken \subseteq Fetched(s),
         ~Refuses(s, broken),
         NEW r, r = [u \in Urls |-> IF u \in broken THEN "unread" ELSE s[u]]
  PROVE  /\ \A u \in Urls : r[u] # "refused" /\ (conf.closed => r[u] # "unread")
         /\ conf.closed => \E u \in Urls : r[u] = "allowed"
<1>1. \A u \in Urls : s[u] \in {"allowed", "refused", "gone"}
  BY DEF Loads
<1>2. \A u \in Urls : u \in broken <=> r[u] = "unread"
  BY <1>1
<1>3. \A u \in Urls : r[u] # "refused"
  BY <1>1, <1>2 DEF Refuses, Fetched
<1>4. conf.closed => broken = {} /\ Fetched(s) # {}
  BY DEF Refuses
<1>5. ASSUME conf.closed PROVE \E u \in Urls : r[u] = "allowed"
  <2>1. PICK u \in Urls : s[u] # "gone"
    BY <1>4, <1>5 DEF Fetched
  <2> QED BY <1>1, <1>3, <1>4, <1>5, <2>1
<1> QED BY <1>2, <1>3, <1>4, <1>5

LEMMA OwnPictures ==
  ASSUME TypeOK, NEW w \in Workers, Run(w), PicturesOfRun(w)
  PROVE  PicturesOfRun(w)'
<1>1. Moving(w) /\ UNCHANGED conf
  BY RunMoves DEF Moving, inputs
<1>2. Fetched(NoPictures) = {}
  BY DEF Fetched, NoPictures
<1>3. ASSUME NEW s, NEW g, Remember(w, s, g)
      PROVE  IF pc'[w] \in {"idle", "poll", "write", "report"}
             THEN seen'[w] = NoPictures /\ used'[w] = NoPictures
             ELSE seen'[w] = s /\ used'[w] = g
  BY <1>3 DEF Remember, TypeOK
<1>4. ASSUME pc'[w] \in {"idle", "poll", "write", "report"}, NEW s, NEW g, Remember(w, s, g)
      PROVE  PicturesOfRun(w)'
  BY <1>2, <1>3, <1>4 DEF PicturesOfRun
<1>5. CASE Check(w)
  <2>1. CASE conf.checker = "insightface" /\ InsightFace(w)
    <3>1. PICK d \in Delays, s \in Loads(Urls), broken \in SUBSET Urls :
            /\ broken \subseteq Fetched(s)
            /\ TakesLoading(w, d, broken # {} \/ Fetched(s) # Urls,
                  IF Refuses(s, broken) THEN End(w, "blocked") ELSE Goto(w, "prompt"))
            /\ Remember(w, [u \in Urls |-> IF u \in broken THEN "unread" ELSE s[u]], used[w])
      BY <2>1 DEF InsightFace
    <3> DEFINE r == [u \in Urls |-> IF u \in broken THEN "unread" ELSE s[u]]
    <3>2. pc'[w] = "idle" \/ (pc'[w] = "prompt" /\ ~Refuses(s, broken))
      BY <3>1 DEF TakesLoading, Takes, Lasts, Goto, End, TypeOK
    <3>3. CASE pc'[w] = "prompt" /\ ~Refuses(s, broken)
      <4>1. seen'[w] = r /\ used'[w] = used[w]
        BY <3>1, <3>3, <1>3
      <4>2. /\ \A u \in Urls : r[u] # "refused" /\ (conf.closed => r[u] # "unread")
            /\ conf.closed => \E u \in Urls : r[u] = "allowed"
        BY <3>1, <3>3, NotRefused
      <4> HIDE DEF r
      <4> QED BY <1>1, <3>3, <4>1, <4>2 DEF PicturesOfRun, Allowed
    <3> QED BY <3>1, <3>2, <3>3, <1>4
  <2>2. CASE conf.checker # "insightface" /\ Unchecked(w)
    BY <1>1, <2>2, <1>2, <1>3, <1>5 DEF Check, Unchecked, Goto, End, Forget, PicturesOfRun,
       Allowed, TypeOK
  <2>3. CASE End(w, "error") /\ Forget(w)
    BY <2>3, <1>4 DEF End, Forget, TypeOK
  <2> QED BY <1>5, <2>1, <2>2, <2>3 DEF Check
<1>6. ASSUME Forget(w), Allowed(w) \/ Fetched(used[w]) = {},
             pc'[w] \in {"prompt", "upload", "draw"} => Allowed(w),
             pc'[w] \in {"prompt", "upload", "draw", "submit", "save"} \/ Fetched(used[w]) = {}
                \/ pc'[w] \in {"idle", "poll", "write", "report"}
      PROVE  PicturesOfRun(w)'
  BY <1>1, <1>2, <1>3, <1>6 DEF Forget, PicturesOfRun, Allowed
<1>7. Fetched(used[w]) = {} \/ Allowed(w)
  BY DEF PicturesOfRun
<1>8. CASE Prompt(w)
  BY <1>6, <1>7, <1>8 DEF Prompt, Goto, End, PicturesOfRun, TypeOK
<1>9. CASE ComfyUI(w)
  <2>1. ASSUME NEW g \in Loads(Urls), Upload(w, Fetched(g) # Urls), Remember(w, seen[w], g)
        PROVE  PicturesOfRun(w)'
    <3>1. pc[w] = "upload" /\ pc'[w] \in {"idle", "submit"}
      BY <2>1 DEF Upload, TakesLoading, Takes, Lasts, Goto, End, TypeOK
    <3> QED BY <1>1, <2>1, <3>1, <1>3, <1>4 DEF PicturesOfRun, Allowed
  <2>2. CASE Submit(w) /\ Forget(w)
    BY <2>2, <1>6, <1>7 DEF Submit, Takes, Lasts, Goto, End, TypeOK
  <2>3. CASE Poll(w) /\ Forget(w)
    BY <2>3, <1>6, <1>7 DEF Poll, Entry, Takes, Lasts, Goto, End, PicturesOfRun, TypeOK
  <2>4. CASE GiveUp(w) /\ Forget(w)
    BY <2>4, <1>6, <1>7 DEF GiveUp, Goto, End, TypeOK
  <2>5. CASE Download(w) /\ Forget(w)
    BY <2>5, <1>6, <1>7 DEF Download, Takes, Lasts, Goto, End, TypeOK
  <2> QED BY <1>9, <2>1, <2>2, <2>3, <2>4, <2>5 DEF ComfyUI
<1>10. CASE Draw(w)
  <2>1. PICK g \in Loads({Image}) : Remember(w, seen[w], g)
    BY <1>10 DEF Draw
  <2>2. pc[w] = "draw" /\ pc'[w] \in {"idle", "save"}
    BY <1>10 DEF Draw, TakesLoading, Takes, Lasts, Goto, End, TypeOK
  <2> QED BY <1>1, <2>1, <2>2, <1>3, <1>4 DEF PicturesOfRun, Allowed
<1>11. CASE Save(w)
  BY <1>6, <1>7, <1>11 DEF Save, Open, Put, Goto, End, TypeOK
<1>12. CASE Write(w) \/ Report(w)
  BY <1>6, <1>7, <1>12 DEF Write, Report, Goto, End, TypeOK
<1>13. CASE Cut(w)
  BY <1>6, <1>7, <1>13 DEF Cut, End, TypeOK
<1> QED BY <1>5, <1>8, <1>9, <1>10, <1>11, <1>12, <1>13 DEF Run

(* UsedAfterCheck: nothing that a check has not allowed reaches a provider.*)
THEOREM CheckBeforeUse == Spec => []UsedAfterCheck
<1>1. Init => PicturesInv
  BY DEF Init, ComfyInit, NoPictures, Fetched, PicturesInv, PicturesOfRun
<1>2. TypeOK /\ PicturesInv /\ [Next]_vars => PicturesInv'
  <2> SUFFICES ASSUME TypeOK, PicturesInv, [Next]_vars, NEW v \in Workers
               PROVE  PicturesOfRun(v)'
    BY DEF PicturesInv
  <2>0. PicturesOfRun(v)
    BY DEF PicturesInv
  <2>1. ASSUME NEW w \in Workers, Begin(w) PROVE PicturesOfRun(v)'
    BY <2>0, <2>1 DEF Begin, Goto, inputs, TypeOK, PicturesOfRun, Allowed
  <2>2. ASSUME NEW w \in Workers, Run(w), w # v PROVE PicturesOfRun(v)'
    <3>1. Moving(w) /\ UNCHANGED conf
      BY <2>2, RunMoves DEF Moving, inputs
    <3>2. pc'[v] = pc[v] /\ seen'[v] = seen[v] /\ used'[v] = used[v]
      BY <2>2, <3>1, OnlyOwn
    <3> QED BY <2>0, <3>1, <3>2 DEF PicturesOfRun, Allowed
  <2>3. CASE Run(v)
    BY <2>0, <2>3, OwnPictures
  <2>4. CASE Engine /\ UNCHANGED <<inputs, seen, used, results>>
    BY <2>0, <2>4 DEF Engine, Restart, Start, Finish, JobStep, inputs, PicturesOfRun, Allowed
  <2>5. CASE Change
    BY <2>0, <2>5 DEF Change, comfyVars, PicturesOfRun, Allowed
  <2>6. CASE UNCHANGED vars
    BY <2>0, <2>6 DEF vars, comfyVars, inputs, PicturesOfRun, Allowed
  <2> QED BY <2>1, <2>2, <2>3, <2>4, <2>5, <2>6 DEF Next
<1>3. PicturesInv => UsedAfterCheck
  BY DEF PicturesInv, PicturesOfRun, Allowed, UsedAfterCheck
<1> QED BY <1>1, <1>2, <1>3, TypeCorrect, PTL DEF Spec

----------------------------------------------------------------------------
(* The file is whole, or something is about to happen or has happened to   *)
(* it that the property allows.                                            *)
Writing == \E w \in Workers : pc[w] = "write"
Sound == file = "whole" \/ (conf.local /\ (spoilt \/ Writing))

(* Two that write at once have spoilt the file, and so has what lies       *)
(* between a run and the file it has emptied.                              *)
FileInv ==
    /\ \A w \in Workers : pc[w] = "write" => conf.local /\ (spoilt \/ file = "empty")
    /\ \A v, w \in Workers : pc[v] = "write" /\ pc[w] = "write" /\ v # w => spoilt
    /\ \A w \in Workers : pc[w] = "report" => Sound
    /\ reported => Sound

(* A step that writes nothing.                                             *)
LEMMA NoWrite ==
  ASSUME FileInv, TypeOK, UNCHANGED <<conf, file, spoilt>>,
         \A w \in Workers : (pc'[w] = "write") = (pc[w] = "write"),
         \A w \in Workers : pc'[w] = "report" => pc[w] = "report",
         reported' => reported \/ \E w \in Workers : pc[w] = "report"
  PROVE  FileInv'
<1>1. Sound => Sound'
  BY DEF Sound, Writing
<1> QED BY <1>1 DEF FileInv

(* ReportedWhole: only a run that is writing, or saves that overlapped or  *)
(* were cut off, can take away the file of a task that was reported.       *)
THEOREM ReportedFile == Spec => []ReportedWhole
<1>1. Init => FileInv
  BY DEF Init, ComfyInit, FileInv
<1>2. TypeOK /\ FileInv /\ [Next]_vars => FileInv'
  <2> SUFFICES ASSUME TypeOK, FileInv, [Next]_vars PROVE FileInv'
    OBVIOUS
  <2>1. ASSUME NEW w \in Workers, Begin(w) PROVE FileInv'
    <3>1. pc[w] = "idle" /\ pc' = [pc EXCEPT ![w] = "check"] /\ UNCHANGED <<conf, file, spoilt, reported>>
      BY <2>1 DEF Begin, Goto, inputs, results
    <3> QED BY <3>1, NoWrite DEF TypeOK
  <2>2. ASSUME NEW w \in Workers, Run(w) PROVE FileInv'
    <3>1. UNCHANGED conf /\ Moving(w)
      BY <2>2, RunMoves DEF Moving, inputs
    <3>2. pc'[w] \in Places /\ \A v \in Workers \ {w} : pc'[v] = pc[v]
      BY <3>1, OnlyOwn
    <3>3. CASE Check(w) \/ Prompt(w) \/ ComfyUI(w) \/ Draw(w)
      <4>1. pc[w] \notin {"write", "report"} /\ pc'[w] \notin {"write", "report"}
        BY <3>3 DEF Check, InsightFace, Unchecked, Prompt, ComfyUI, Upload, Submit, Poll, Entry,
           GiveUp, Download, Draw, TakesLoading, Takes, Lasts, Goto, End, TypeOK
      <4>2. UNCHANGED <<file, spoilt, reported>>
        BY <3>3 DEF Check, Prompt, ComfyUI, Draw, results
      <4> QED BY <3>1, <3>2, <4>1, <4>2, NoWrite
    <3>4. CASE Save(w)
      <4>1. pc[w] = "save" /\ UNCHANGED reported
        BY <3>4 DEF Save
      <4>2. CASE End(w, "error") /\ UNCHANGED <<file, spoilt>>
        BY <3>1, <3>2, <4>1, <4>2, NoWrite DEF End, TypeOK
      <4>3. CASE conf.local /\ Open(w)
        <5>1. /\ pc'[w] = "write" /\ file' = "empty" /\ conf'.local
              /\ spoilt' = (spoilt \/ \E o \in Workers \ {w} : pc[o] = "write")
          BY <3>1, <4>3 DEF Open, Elsewhere, Goto, TypeOK
        <5>2. Sound'
          BY <5>1 DEF Sound, Writing
        <5> QED BY <3>2, <5>1, <5>2 DEF FileInv
      <4>4. CASE ~conf.local /\ Put(w)
        <5>1. /\ pc'[w] \in {"report", "idle"} /\ UNCHANGED spoilt
              /\ file' \in {file, "whole"} /\ (pc'[w] = "report" => file' = "whole")
          BY <4>4 DEF Put, Goto, End, TypeOK
        <5>2. \A v \in Workers : pc[v] # "write" /\ pc'[v] # "write"
          BY <3>2, <4>4, <5>1 DEF FileInv
        <5>3. Sound => Sound'
          BY <3>1, <4>4, <5>1 DEF Sound
        <5>4. pc'[w] = "report" => Sound'
          BY <5>1 DEF Sound
        <5> QED BY <3>2, <4>1, <5>1, <5>2, <5>3, <5>4 DEF FileInv
      <4> QED BY <3>4, <4>2, <4>3, <4>4 DEF Save
    <3>5. CASE Write(w)
      <4>1. pc[w] = "write" /\ UNCHANGED reported /\ conf'.local /\ conf.local
        BY <3>1, <3>5 DEF Write, FileInv
      <4>2. CASE /\ Goto(w, "report")
                 /\ file' \in (IF file = "empty" THEN {"whole"} ELSE {"whole", "mixed"})
                 /\ UNCHANGED spoilt
        <5>1. pc'[w] = "report" /\ (file # "empty" => spoilt)
          BY <4>1, <4>2 DEF Goto, TypeOK, FileInv
        <5>2. Sound'
          BY <4>1, <4>2, <5>1 DEF Sound
        <5>3. \A v \in Workers : pc'[v] = "write" => spoilt' /\ v # w
          BY <3>2, <4>1, <4>2, <5>1 DEF FileInv
        <5> QED BY <4>1, <5>2, <5>3 DEF FileInv
      <4>3. CASE End(w, "error") /\ spoilt' = TRUE
        <5>1. Sound'
          BY <4>1, <4>3 DEF Sound
        <5> QED BY <4>1, <4>3, <5>1 DEF FileInv
      <4> QED BY <3>5, <4>2, <4>3 DEF Write
    <3>6. CASE Report(w)
      <4>1. pc[w] = "report" /\ pc'[w] = "idle" /\ UNCHANGED <<file, spoilt>>
        BY <3>6 DEF Report, End, TypeOK
      <4> QED BY <3>1, <3>2, <4>1, NoWrite DEF TypeOK
    <3>7. CASE Cut(w)
      <4>1. pc'[w] = "idle" /\ UNCHANGED reported
        BY <3>7 DEF Cut, End, TypeOK
      <4>2. CASE pc[w] = "write" /\ spoilt' = TRUE
        <5>1. conf'.local
          BY <3>1, <4>2 DEF FileInv
        <5>2. Sound'
          BY <4>2, <5>1 DEF Sound
        <5> QED BY <4>2, <5>1, <5>2 DEF FileInv
      <4>3. CASE pc[w] # "write" /\ UNCHANGED <<file, spoilt>>
        BY <3>1, <3>2, <4>1, <4>3, NoWrite
      <4> QED BY <3>7, <4>2, <4>3 DEF Cut
    <3> QED BY <2>2, <3>3, <3>4, <3>5, <3>6, <3>7 DEF Run
  <2>3. CASE Engine /\ UNCHANGED <<inputs, seen, used, results>>
    <3>1. UNCHANGED <<pc, conf, file, spoilt, reported>>
      BY <2>3 DEF Engine, Restart, Start, Finish, JobStep, inputs, results
    <3> QED BY <3>1, NoWrite
  <2>4. CASE Change
    BY <2>4, NoWrite DEF Change, comfyVars, results
  <2>5. CASE UNCHANGED vars
    BY <2>5, NoWrite DEF vars, comfyVars, inputs, results
  <2> QED BY <2>1, <2>2, <2>3, <2>4, <2>5 DEF Next
<1>3. FileInv => ReportedWhole
  BY DEF FileInv, Sound, Writing, ReportedWhole
<1> QED BY <1>1, <1>2, <1>3, TypeCorrect, PTL DEF Spec
=============================================================================
