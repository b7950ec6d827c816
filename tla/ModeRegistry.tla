----------------------------- MODULE ModeRegistry -----------------------------
(***************************************************************************)
(* The registry of generation modes (app/services/mode_registry.py).       *)
(* Every API process and every worker keeps its own copy of the modes,     *)
(* read from the YAML files file by file and swapped in at the end, after  *)
(* models.yaml, which must be YAML.  A worker reads them when it starts.   *)
(* An API process reads them when it starts, when an administrator asks it *)
(* to, and once more in the request that is the first to accept a task,    *)
(* which imports app.queues.tasks: there is no lock, and these loads may   *)
(* overlap.  Content managers edit the files at any time.                  *)
(***************************************************************************)
EXTENDS Integers, FiniteSetsExt

CONSTANTS Apis, Workers, \* processes
          Loaders,       \* threads that may load the modes
          Owner,         \* the process of each
          Files,         \* 1..n: mode files, in the order of their paths
          Ids,           \* mode identifiers
          Modes,         \* what a file may define
          MaxEdits,      \* bound: edits
          None,          \* no mode, no file
          Broken         \* not YAML, or not a mode

Procs == Apis \cup Workers
Contents == Modes \cup {None, Broken}

ASSUME RegistryAssumption ==
    /\ Files \subseteq Nat \ {0} /\ MaxEdits \in Nat
    /\ Owner \in [Loaders -> Procs]
    /\ \A p \in Procs : \E l \in Loaders : Owner[l] = p
    /\ Modes \subseteq [id : Ids, enabled : BOOLEAN, type : {"photo", "video"}]
    /\ None # Broken /\ {None, Broken} \cap Modes = {}

VARIABLES dir,           \* the files of modes
          models,        \* whether models.yaml can be read
          edits,         \* how many edits there have been
          copy,          \* _modes of each process
          up,            \* processes that have loaded their modes and serve
          imported,      \* API processes that have imported app.queues.tasks
          todo,          \* files a loader has listed and not read
          acc,           \* the modes it has read
          lpc,           \* where it is
          edited,        \* history: files that were ever edited
          skipped,       \* history: modes a loader could not read
          lost,          \* history: modes missing in a process for that reason
          since,         \* history: loads that began after the last edit and read every file
          fresh          \* history: processes whose last load to return was such a one

vars == <<dir, models, edits, copy, up, imported, todo, acc, lpc,
          edited, skipped, lost, since, fresh>>

NoModes == [id \in Ids |-> None]

(* What the files say: of the files with an id, the first one counts.      *)
Claims(d, id) == {f \in Files : d[f] \in Modes /\ d[f].id = id}
Reference(d) == [id \in Ids |-> IF Claims(d, id) = {} THEN None ELSE d[Min(Claims(d, id))]]

Init == /\ dir \in [Files -> Contents] /\ models = TRUE
        /\ edits = 0
        /\ copy = [p \in Procs |-> Reference(dir)]
        /\ up = Procs /\ imported = {}
        /\ todo = [l \in Loaders |-> {}]
        /\ acc = [l \in Loaders |-> NoModes]
        /\ lpc = [l \in Loaders |-> "idle"]
        /\ edited = {} /\ since = {} /\ fresh = Procs
        /\ skipped = [l \in Loaders |-> {}] /\ lost = [p \in Procs |-> {}]

----------------------------------------------------------------------------
(* A file is added, changed, broken or removed; or models.yaml is broken,  *)
(* or repaired.                                                            *)
Edit == /\ edits < MaxEdits
        /\ edits' = edits + 1
        /\ \/ \E f \in Files, c \in Contents :
                 /\ c # dir[f]
                 /\ dir' = [dir EXCEPT ![f] = c]
                 /\ edited' = edited \cup {f}
                 /\ UNCHANGED models
           \/ models' = ~models /\ UNCHANGED <<dir, edited>>
        /\ since' = {} /\ fresh' = {}
        /\ UNCHANGED <<copy, up, imported, todo, acc, lpc, skipped, lost>>

(* reload lists the files, reads them one by one, and swaps the result in. *)
Listed(l) == /\ todo' = [todo EXCEPT ![l] = {f \in Files : dir[f] # None}]
             /\ acc' = [acc EXCEPT ![l] = NoModes]
             /\ since' = since \cup {l}
             /\ skipped' = [skipped EXCEPT ![l] = {}]

Dropped(L) == /\ todo' = [l \in Loaders |-> IF l \in L THEN {} ELSE todo[l]]
              /\ acc' = [l \in Loaders |-> IF l \in L THEN NoModes ELSE acc[l]]
              /\ skipped' = [l \in Loaders |-> IF l \in L THEN {} ELSE skipped[l]]

Loading(l) == lpc[l] \in {"reading", "importing"}

ReloadInPlace(l) ==     \* mutant: the modes in use are cleared first
    /\ lpc[l] = "idle" /\ Owner[l] \in Apis \cap up
    /\ copy' = [copy EXCEPT ![Owner[l]] = NoModes]
    /\ lpc' = [lpc EXCEPT ![l] = "reading"]
    /\ Listed(l)
    /\ UNCHANGED <<dir, models, edits, up, imported, edited, lost, fresh>>

(* POST /admin/modes/reload, in the process that serves it.  It fails, and *)
(* changes nothing, if models.yaml cannot be read.                         *)
Reload(l) ==
    /\ lpc[l] = "idle" /\ Owner[l] \in Apis \cap up /\ models
    /\ lpc' = [lpc EXCEPT ![l] = "reading"]
    /\ Listed(l)
    /\ UNCHANGED <<dir, models, edits, copy, up, imported, edited, lost, fresh>>

(* A process ends, with every thread of it, and is started again: it loads *)
(* the modes before it serves; if models.yaml cannot be read it ends.      *)
Restart(p) ==
    LET gone == {l \in Loaders : Owner[l] = p} IN
    /\ up' = up \ {p} /\ imported' = imported \ {p}
    /\ copy' = [copy EXCEPT ![p] = NoModes]
    /\ lost' = [lost EXCEPT ![p] = {}]
    /\ Dropped(gone)
    /\ lpc' = [l \in Loaders |-> IF l \in gone THEN "idle" ELSE lpc[l]]
    /\ since' = since \ gone /\ fresh' = fresh \ {p}
    /\ UNCHANGED <<dir, models, edits, edited>>

Start(l) ==
    /\ Owner[l] \notin up /\ models
    /\ \A k \in Loaders : Owner[k] = Owner[l] => lpc[k] = "idle"
    /\ lpc' = [lpc EXCEPT ![l] = "reading"]
    /\ Listed(l)
    /\ UNCHANGED <<dir, models, edits, copy, up, imported, edited, lost, fresh>>

(* The next file, which may be gone or changed since it was listed: a file *)
(* that is no mode and a mode whose id has been seen are left out; so is a *)
(* mode that cannot be read for a moment.                                  *)
ReadText(l) ==          \* mutant: what is no mode is not left out
    /\ Loading(l) /\ todo[l] # {}
    /\ LET f == Min(todo[l]) IN
         /\ todo' = [todo EXCEPT ![l] = @ \ {f}]
         /\ acc' = [acc EXCEPT ![l] = [id \in Ids |-> dir[f]]]
    /\ UNCHANGED <<dir, models, edits, copy, up, imported, lpc,
                   edited, skipped, lost, since, fresh>>

ReadOver(l) ==          \* mutant: a later file with the same id wins
    /\ Loading(l) /\ todo[l] # {}
    /\ LET f == Min(todo[l]) IN
         /\ todo' = [todo EXCEPT ![l] = @ \ {f}]
         /\ acc' = IF dir[f] \in Modes THEN [acc EXCEPT ![l][dir[f].id] = dir[f]] ELSE acc
    /\ UNCHANGED <<dir, models, edits, copy, up, imported, lpc,
                   edited, skipped, lost, since, fresh>>

Read(l) ==
    /\ Loading(l) /\ todo[l] # {}
    /\ LET f == Min(todo[l])
           new == dir[f] \in Modes /\ acc[l][dir[f].id] = None
       IN  /\ todo' = [todo EXCEPT ![l] = @ \ {f}]
           /\ \/ /\ acc' = IF new THEN [acc EXCEPT ![l][dir[f].id] = dir[f]] ELSE acc
                 /\ UNCHANGED <<skipped, since>>
              \/ /\ new /\ acc' = acc
                 /\ skipped' = [skipped EXCEPT ![l] = @ \cup {f}]
                 /\ since' = since \ {l}
    /\ UNCHANGED <<dir, models, edits, copy, up, imported, lpc, edited, lost, fresh>>

Swap(l) ==
    LET p == Owner[l] IN
    /\ Loading(l) /\ todo[l] = {}
    /\ copy' = [copy EXCEPT ![p] = acc[l]]
    /\ up' = up \cup {p}
    /\ lost' = [lost EXCEPT ![p] = skipped[l]]
    /\ Dropped({l}) /\ since' = since \ {l}
    /\ fresh' = IF l \in since THEN fresh \cup {p} ELSE fresh \ {p}
    /\ \/ lpc[l] = "reading" /\ lpc' = [lpc EXCEPT ![l] = "idle"] /\ UNCHANGED imported
       \/ /\ lpc[l] = "importing" /\ lpc' = [lpc EXCEPT ![l] = "accepting"]
          /\ imported' = imported \cup {p}
    /\ UNCHANGED <<dir, models, edits, edited>>

----------------------------------------------------------------------------
(* get: a mode that is there and enabled.  create_task refuses any other.  *)
Get(p, id) == copy[p][id] # None /\ copy[p][id].enabled

Accept(l) ==
    /\ lpc[l] = "idle" /\ Owner[l] \in Apis \cap up
    /\ \E id \in Ids : Get(Owner[l], id)
    /\ lpc' = [lpc EXCEPT ![l] = "accepting"]
    /\ UNCHANGED <<dir, models, edits, copy, up, imported, todo, acc,
                   edited, skipped, lost, since, fresh>>

(* The import of app.queues.tasks, one thread of a process at a time: its  *)
(* body reloads the modes.  If models.yaml cannot be read the import and   *)
(* the request fail, and the next task tries again.                        *)
Importable(l) ==
    /\ lpc[l] = "accepting" /\ Owner[l] \notin imported
    /\ \A k \in Loaders : Owner[k] = Owner[l] => lpc[k] # "importing"

Import(l) ==
    /\ Importable(l) /\ models
    /\ lpc' = [lpc EXCEPT ![l] = "importing"]
    /\ Listed(l)
    /\ UNCHANGED <<dir, models, edits, copy, up, imported, edited, lost, fresh>>

(* The request ends: its task is queued, or its import has failed.         *)
Answer(l) ==
    /\ \/ lpc[l] = "accepting" /\ Owner[l] \in imported
       \/ Importable(l) /\ ~models
    /\ lpc' = [lpc EXCEPT ![l] = "idle"]
    /\ UNCHANGED <<dir, models, edits, copy, up, imported, todo, acc,
                   edited, skipped, lost, since, fresh>>

Next == \/ Edit
        \/ \E p \in Procs : Restart(p)
        \/ \E l \in Loaders : \/ Start(l) \/ Reload(l) \/ Read(l) \/ Swap(l)
                              \/ Accept(l) \/ Import(l) \/ Answer(l)

Spec == Init /\ [][Next]_vars
----------------------------------------------------------------------------
(* Every variable keeps its type.                                          *)
TypeOK ==
    /\ dir \in [Files -> Contents] /\ models \in BOOLEAN
    /\ edits \in 0..MaxEdits
    /\ copy \in [Procs -> [Ids -> Modes \cup {None}]]
    /\ up \subseteq Procs /\ imported \subseteq Procs
    /\ todo \in [Loaders -> SUBSET Files]
    /\ acc \in [Loaders -> [Ids -> Modes \cup {None}]]
    /\ lpc \in [Loaders -> {"idle", "reading", "accepting", "importing"}]
    /\ edited \subseteq Files /\ skipped \in [Loaders -> SUBSET Files]
    /\ lost \in [Procs -> SUBSET Files]
    /\ since \subseteq Loaders /\ fresh \subseteq Procs

(* A load takes effect: a process whose last load to return began after    *)
(* the last edit, and could read its files, has exactly the modes the      *)
(* files define, although it read them one by one, other loads of the      *)
(* process overlapped it and the files were edited before.  A load that    *)
(* began earlier and returns later takes that away again: reload has no    *)
(* lock.                                                                   *)
LoadApplies == \A p \in fresh : copy[p] = Reference(dir)

(* Reloads disturb nobody: a mode that comes first for its id and whose    *)
(* file, like those before it, nobody edits is served by every process     *)
(* whose last load could read it, at every moment: while others are loaded *)
(* or edited, while loads overlap, and while models.yaml is broken.        *)
UntouchedServed ==
    \A f \in Files : dir[f] \in Modes /\ edited \cap 1..f = {} =>
        \A p \in up : f = Min(Claims(dir, dir[f].id)) /\ f \notin lost[p] =>
            copy[p][dir[f].id] = dir[f]
=============================================================================
