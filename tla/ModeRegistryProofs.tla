-------------------------- MODULE ModeRegistryProofs --------------------------
(***************************************************************************)
(* Proofs about module ModeRegistry, for any processes, any threads that   *)
(* load, any files, modes and tasks, and any number of edits.              *)
(***************************************************************************)
EXTENDS ModeRegistry, Sums

(* The least of a set of file numbers.                                     *)
LEMMA MinIs ==
  ASSUME NEW S \in SUBSET Nat, S # {}
  PROVE  Min(S) \in S /\ \A x \in S : Min(S) <= x
<1> DEFINE Below == {n \in Nat : \A m \in 0..n : m \notin S}
<1>1. \E m \in S : \A x \in S : m <= x
  <2> SUFFICES ASSUME \A m \in S : \E x \in S : ~(m <= x) PROVE FALSE
    OBVIOUS
  <2>1. 0 \in Below
    OBVIOUS
  <2>2. ASSUME NEW n \in Nat, n \in Below PROVE n + 1 \in Below
    <3>1. n + 1 \notin S
      <4> SUFFICES ASSUME n + 1 \in S PROVE FALSE
        OBVIOUS
      <4>1. PICK x \in S : ~(n + 1 <= x)
        OBVIOUS
      <4>2. x \in 0..n
        BY <4>1
      <4> QED BY <2>2, <4>2
    <3>2. \A m \in 0..(n + 1) : m \in 0..n \/ m = n + 1
      OBVIOUS
    <3> QED BY <2>2, <3>1, <3>2
  <2>3. Nat \subseteq Below
    <3> HIDE DEF Below
    <3> QED BY <2>1, <2>2, NatSetInduction
  <2>4. PICK y \in S : TRUE
    OBVIOUS
  <2>5. y \in 0..y
    OBVIOUS
  <2> QED BY <2>3, <2>4, <2>5
<1> QED BY <1>1 DEF Min

----------------------------------------------------------------------------
(* Types.                                                                  *)
ModesRead == [Ids -> Modes \cup {None}]

LEMMA ReferenceRead ==
  ASSUME NEW d \in [Files -> Contents]
  PROVE  /\ Reference(d) \in ModesRead
         /\ \A id \in Ids : IF Claims(d, id) = {} THEN Reference(d)[id] = None
                            ELSE \E f \in Claims(d, id) :
                                    Reference(d)[id] = d[f] /\ \A g \in Claims(d, id) : f <= g
<1>1. \A id \in Ids : Claims(d, id) \subseteq Nat
  BY RegistryAssumption DEF Claims
<1>2. ASSUME NEW id \in Ids, Claims(d, id) # {}
      PROVE  /\ Min(Claims(d, id)) \in Claims(d, id)
             /\ \A g \in Claims(d, id) : Min(Claims(d, id)) <= g
             /\ d[Min(Claims(d, id))] \in Modes
  <2>1. Min(Claims(d, id)) \in Claims(d, id) /\ \A g \in Claims(d, id) : Min(Claims(d, id)) <= g
    BY <1>1, <1>2, MinIs
  <2> QED BY <2>1 DEF Claims
<1>3. Reference(d) \in ModesRead
  BY <1>2 DEF Reference, ModesRead
<1>4. ASSUME NEW id \in Ids
      PROVE  IF Claims(d, id) = {} THEN Reference(d)[id] = None
             ELSE \E f \in Claims(d, id) :
                    Reference(d)[id] = d[f] /\ \A g \in Claims(d, id) : f <= g
  BY <1>2 DEF Reference
<1> QED BY <1>3, <1>4

LEMMA TypeInit == Init => TypeOK
<1> SUFFICES ASSUME Init PROVE TypeOK
  OBVIOUS
<1>1. NoModes \in ModesRead
  BY DEF NoModes, ModesRead
<1>2. /\ dir \in [Files -> Contents] /\ models \in BOOLEAN /\ edits \in 0..MaxEdits
      /\ edited \subseteq Files /\ since \subseteq Loaders /\ fresh \subseteq Procs
      /\ imported \subseteq Procs /\ up \subseteq Procs
  BY RegistryAssumption DEF Init
<1>3. copy \in [Procs -> [Ids -> Modes \cup {None}]]
  BY <1>2, ReferenceRead DEF Init, ModesRead
<1>4. /\ todo \in [Loaders -> SUBSET Files] /\ skipped \in [Loaders -> SUBSET Files]
      /\ lost \in [Procs -> SUBSET Files]
      /\ acc \in [Loaders -> [Ids -> Modes \cup {None}]]
      /\ lpc \in [Loaders -> {"idle", "reading", "accepting", "importing"}]
  BY <1>1 DEF Init, ModesRead
<1> QED BY <1>2, <1>3, <1>4 DEF TypeOK

(* The file a loader reads next, and what it keeps of it.                  *)
LEMMA NextFile ==
  ASSUME TypeOK, NEW l \in Loaders, todo[l] # {}
  PROVE  /\ Min(todo[l]) \in todo[l] /\ Min(todo[l]) \in Files /\ Min(todo[l]) \in Nat \ {0}
         /\ \A f \in todo[l] : Min(todo[l]) <= f
<1>1. todo[l] \in SUBSET Nat /\ todo[l] \subseteq Files
  BY RegistryAssumption DEF TypeOK
<1> QED BY <1>1, MinIs, RegistryAssumption

LEMMA ReadKeeps ==
  ASSUME TypeOK, NEW l \in Loaders, Read(l)
  PROVE  \E f \in todo[l], a \in ModesRead :
           /\ f \in Files /\ f \in Nat \ {0} /\ \A g \in todo[l] : f <= g
           /\ todo' = [todo EXCEPT ![l] = todo[l] \ {f}]
           /\ acc' = [acc EXCEPT ![l] = a]
           /\ \/ /\ UNCHANGED <<skipped, since>>
                 /\ \A id \in Ids :
                      a[id] = IF dir[f] \in Modes /\ dir[f].id = id /\ acc[l][id] = None
                              THEN dir[f] ELSE acc[l][id]
              \/ /\ a = acc[l] /\ since' = since \ {l}
                 /\ skipped' = [skipped EXCEPT ![l] = skipped[l] \cup {f}]
<1> DEFINE f == Min(todo[l])
           new == dir[f] \in Modes /\ acc[l][dir[f].id] = None
<1>1. /\ f \in todo[l] /\ f \in Files /\ f \in Nat \ {0} /\ \A g \in todo[l] : f <= g
  BY NextFile DEF Read
<1>2. /\ todo' = [todo EXCEPT ![l] = todo[l] \ {f}]
      /\ \/ /\ acc' = IF new THEN [acc EXCEPT ![l] = [acc[l] EXCEPT ![dir[f].id] = dir[f]]] ELSE acc
            /\ UNCHANGED <<skipped, since>>
         \/ /\ new /\ acc' = acc
            /\ skipped' = [skipped EXCEPT ![l] = skipped[l] \cup {f}]
            /\ since' = since \ {l}
  BY DEF Read
<1>3. acc[l] \in ModesRead /\ acc \in [Loaders -> ModesRead]
  BY DEF TypeOK, ModesRead
<1> HIDE DEF f
<1>4. \A m \in Modes : m.id \in Ids
  BY RegistryAssumption
<1>5. CASE /\ new /\ UNCHANGED <<skipped, since>>
           /\ acc' = [acc EXCEPT ![l] = [acc[l] EXCEPT ![dir[f].id] = dir[f]]]
  <2> DEFINE a == [acc[l] EXCEPT ![dir[f].id] = dir[f]]
  <2>1. a \in ModesRead
    BY <1>3, <1>4, <1>5 DEF ModesRead
  <2>2. \A id \in Ids : a[id] = IF dir[f] \in Modes /\ dir[f].id = id /\ acc[l][id] = None
                                THEN dir[f] ELSE acc[l][id]
    BY <1>3, <1>4, <1>5 DEF ModesRead
  <2>3. acc' = [acc EXCEPT ![l] = a]
    BY <1>5
  <2> HIDE DEF a
  <2> QED BY <1>1, <1>2, <1>5, <2>1, <2>2, <2>3
<1>6. CASE ~new
  <2>1. acc' = [acc EXCEPT ![l] = acc[l]] /\ UNCHANGED <<skipped, since>>
    BY <1>2, <1>3, <1>6
  <2>2. \A id \in Ids : acc[l][id] = IF dir[f] \in Modes /\ dir[f].id = id /\ acc[l][id] = None
                                     THEN dir[f] ELSE acc[l][id]
    BY <1>6
  <2> QED BY <1>1, <1>2, <1>3, <2>1, <2>2
<1>7. CASE /\ acc' = acc /\ since' = since \ {l}
           /\ skipped' = [skipped EXCEPT ![l] = skipped[l] \cup {f}]
  <2>1. acc' = [acc EXCEPT ![l] = acc[l]]
    BY <1>3, <1>7
  <2> QED BY <1>1, <1>2, <1>3, <1>7, <2>1
<1> QED BY <1>2, <1>5, <1>6, <1>7

LEMMA TypeNext ==
  ASSUME TypeOK, [Next]_vars
  PROVE  TypeOK'
<1> USE RegistryAssumption
<1>0. NoModes \in [Ids -> Modes \cup {None}]
  BY DEF NoModes
<1>1. CASE UNCHANGED vars
  BY <1>1 DEF TypeOK, vars
<1>2. CASE Edit
  <2>1. dir' \in [Files -> Contents] /\ edited' \subseteq Files
    <3>1. \/ UNCHANGED <<dir, edited>>
          \/ \E f \in Files, c \in Contents : /\ dir' = [dir EXCEPT ![f] = c]
                                              /\ edited' = edited \cup {f}
      BY <1>2 DEF Edit
    <3> QED BY <3>1 DEF TypeOK
  <2>2. models' \in BOOLEAN
    <3>1. models' = models \/ models' = ~models
      BY <1>2 DEF Edit
    <3> QED BY <3>1 DEF TypeOK
  <2>3. edits' \in 0..MaxEdits
    <3>1. edits \in 0..MaxEdits /\ edits < MaxEdits /\ edits' = edits + 1 /\ MaxEdits \in Nat
      BY <1>2 DEF Edit, TypeOK
    <3> QED BY <3>1
  <2> QED BY <1>2, <2>1, <2>2, <2>3 DEF Edit, TypeOK
<1>3. ASSUME NEW l \in Loaders, Listed(l)
      PROVE  /\ todo' \in [Loaders -> SUBSET Files] /\ skipped' \in [Loaders -> SUBSET Files]
             /\ acc' \in [Loaders -> [Ids -> Modes \cup {None}]]
             /\ since' \subseteq Loaders
  <2>1. {f \in Files : dir[f] # None} \in SUBSET Files
    OBVIOUS
  <2> QED BY <1>0, <1>3, <2>1 DEF Listed, TypeOK
<1>4. ASSUME NEW L, Dropped(L)
      PROVE  /\ todo' \in [Loaders -> SUBSET Files] /\ skipped' \in [Loaders -> SUBSET Files]
             /\ acc' \in [Loaders -> [Ids -> Modes \cup {None}]]
  BY <1>0, <1>4 DEF Dropped, TypeOK
<1>5. ASSUME NEW p \in Procs, Restart(p) PROVE TypeOK'
  <2>1. copy' \in [Procs -> [Ids -> Modes \cup {None}]] /\ lost' \in [Procs -> SUBSET Files]
    BY <1>0, <1>5 DEF Restart, TypeOK
  <2>2. lpc' \in [Loaders -> {"idle", "reading", "accepting", "importing"}]
    BY <1>5 DEF Restart, TypeOK
  <2>3. /\ up' \subseteq Procs /\ fresh' \subseteq Procs /\ imported' \subseteq Procs
        /\ since' \subseteq Loaders
    BY <1>5 DEF Restart, TypeOK
  <2>4. UNCHANGED <<dir, models, edits, edited>> /\ Dropped({l \in Loaders : Owner[l] = p})
    BY <1>5 DEF Restart
  <2> QED BY <1>4, <2>1, <2>2, <2>3, <2>4 DEF TypeOK
<1>6. ASSUME NEW l \in Loaders, Read(l) PROVE TypeOK'
  <2>1. PICK f \in todo[l], a \in ModesRead :
          /\ f \in Files
          /\ todo' = [todo EXCEPT ![l] = todo[l] \ {f}]
          /\ acc' = [acc EXCEPT ![l] = a]
          /\ \/ UNCHANGED <<skipped, since>>
             \/ /\ since' = since \ {l}
                /\ skipped' = [skipped EXCEPT ![l] = skipped[l] \cup {f}]
    BY <1>6, ReadKeeps
  <2>2. /\ todo \in [Loaders -> SUBSET Files] /\ acc \in [Loaders -> ModesRead]
        /\ skipped \in [Loaders -> SUBSET Files] /\ since \subseteq Loaders
    BY DEF TypeOK, ModesRead
  <2>3. todo' \in [Loaders -> SUBSET Files] /\ acc' \in [Loaders -> ModesRead]
    BY <2>1, <2>2
  <2>4. skipped' \in [Loaders -> SUBSET Files] /\ since' \subseteq Loaders
    BY <2>1, <2>2
  <2> QED BY <1>6, <2>3, <2>4 DEF Read, TypeOK, ModesRead
<1>7. ASSUME NEW l \in Loaders, Swap(l) PROVE TypeOK'
  <2>1. Owner[l] \in Procs /\ acc[l] \in [Ids -> Modes \cup {None}] /\ skipped[l] \in SUBSET Files
    BY DEF TypeOK
  <2>2. copy' \in [Procs -> [Ids -> Modes \cup {None}]] /\ lost' \in [Procs -> SUBSET Files]
    BY <1>7, <2>1 DEF Swap, TypeOK
  <2>3. lpc' \in [Loaders -> {"idle", "reading", "accepting", "importing"}]
    BY <1>7 DEF Swap, TypeOK
  <2>4. /\ up' \subseteq Procs /\ fresh' \subseteq Procs /\ imported' \subseteq Procs
        /\ since' \subseteq Loaders
    BY <1>7, <2>1 DEF Swap, TypeOK
  <2>5. UNCHANGED <<dir, models, edits, edited>> /\ Dropped({l})
    BY <1>7 DEF Swap
  <2> QED BY <1>4, <2>2, <2>3, <2>4, <2>5 DEF TypeOK
<1>8. ASSUME NEW l \in Loaders, Start(l) \/ Reload(l) \/ Import(l) PROVE TypeOK'
  BY <1>3, <1>8 DEF Start, Reload, Import, TypeOK
<1>9. ASSUME NEW l \in Loaders, Accept(l) \/ Answer(l) PROVE TypeOK'
  BY <1>9 DEF Accept, Answer, TypeOK
<1> QED BY <1>1, <1>2, <1>5, <1>6, <1>7, <1>8, <1>9 DEF Next

(* Every variable keeps its type.                                          *)
THEOREM TypeCorrect == Spec => []TypeOK
BY TypeInit, TypeNext, PTL DEF Spec

----------------------------------------------------------------------------
(* A mode whose file comes first for its id, and that nobody has edited,   *)
(* nor a file before it.                                                   *)
Leads(f, id) == /\ f \in Claims(dir, id)
                /\ \A g \in Claims(dir, id) : f <= g
                /\ edited \cap 1..f = {}

(* A loader that has not come to the file has no other for the id, and one *)
(* that has keeps it, unless it could not read it.                         *)
UntouchedInv ==
    \A f \in Files, id \in Ids : Leads(f, id) =>
       /\ \A p \in up : f \notin lost[p] => copy[p][id] = dir[f]
       /\ \A l \in Loaders : Loading(l) /\ f \notin skipped[l] =>
             acc[l][id] = IF f \in todo[l] THEN None ELSE dir[f]

LEMMA UntouchedInit == Init => UntouchedInv
<1> SUFFICES ASSUME Init, NEW f \in Files, NEW id \in Ids, Leads(f, id)
             PROVE  \A p \in up : copy[p][id] = dir[f]
  BY DEF Init, UntouchedInv, Loading
<1>1. /\ dir \in [Files -> Contents] /\ up = Procs
      /\ copy = [p \in Procs |-> Reference(dir)]
  BY DEF Init
<1>2. Reference(dir)[id] = dir[f]
  <2>1. PICK g \in Claims(dir, id) :
          Reference(dir)[id] = dir[g] /\ \A h \in Claims(dir, id) : g <= h
    BY <1>1, ReferenceRead DEF Leads
  <2>2. f <= g /\ g <= f /\ f \in Nat /\ g \in Nat
    BY <2>1, RegistryAssumption DEF Leads, Claims
  <2>3. f = g
    BY <2>2
  <2> QED BY <2>1, <2>3
<1> QED BY <1>1, <1>2

(* Who led before an edit of another file leads after it, and nobody else. *)
LEMMA LeadsStill ==
  ASSUME TypeOK, [Next]_vars, NEW f \in Files, NEW id \in Ids, Leads(f, id)'
  PROVE  Leads(f, id) /\ dir'[f] = dir[f]
<1>1. CASE UNCHANGED <<dir, edited>>
  BY <1>1 DEF Leads, Claims
<1>2. ASSUME NEW e \in Files, NEW c \in Contents,
             dir' = [dir EXCEPT ![e] = c], edited' = edited \cup {e}
      PROVE  Leads(f, id) /\ dir'[f] = dir[f]
  <2>1. e \notin 1..f /\ edited \cap 1..f = {}
    BY <1>2 DEF Leads
  <2>2. f \in Nat \ {0} /\ e \in Nat \ {0} /\ f < e
    BY <2>1, RegistryAssumption
  <2>3. \A g \in Files : g # e => dir'[g] = dir[g]
    BY <1>2 DEF TypeOK
  <2>4. dir'[f] = dir[f]
    BY <2>2, <2>3
  <2>5. \A g \in Claims(dir, id) : f <= g
    <3> SUFFICES ASSUME NEW g \in Claims(dir, id) PROVE f <= g
      OBVIOUS
    <3>1. CASE g = e
      BY <2>2, <3>1
    <3>2. CASE g # e
      <4>1. g \in Claims(dir, id)'
        BY <2>3, <3>2 DEF Claims
      <4> QED BY <4>1 DEF Leads
    <3> QED BY <3>1, <3>2
  <2>6. f \in Claims(dir, id)
    BY <2>4 DEF Leads, Claims
  <2> QED BY <2>1, <2>4, <2>5, <2>6 DEF Leads
<1>3. UNCHANGED <<dir, edited>> \/ Edit
  BY DEF Next, Start, Reload, Restart, Read, Swap, Accept, Import, Answer, vars
<1> QED BY <1>1, <1>2, <1>3 DEF Edit

LEMMA ListedAll ==
  ASSUME TypeOK, NEW l \in Loaders, Listed(l)
  PROVE  /\ \A id \in Ids : acc'[l][id] = None
         /\ \A id \in Ids : Claims(dir, id) \subseteq todo'[l]
         /\ \A k \in Loaders \ {l} :
              acc'[k] = acc[k] /\ todo'[k] = todo[k] /\ skipped'[k] = skipped[k]
<1>1. acc'[l] = NoModes /\ todo'[l] = {f \in Files : dir[f] # None}
  BY DEF Listed, TypeOK
<1>2. \A k \in Loaders \ {l} :
        acc'[k] = acc[k] /\ todo'[k] = todo[k] /\ skipped'[k] = skipped[k]
  BY DEF Listed, TypeOK
<1>3. \A id \in Ids : Claims(dir, id) \subseteq todo'[l]
  BY <1>1, RegistryAssumption DEF Claims
<1> QED BY <1>1, <1>2, <1>3 DEF NoModes

LEMMA UntouchedNext ==
  ASSUME TypeOK, UntouchedInv, [Next]_vars
  PROVE  UntouchedInv'
<1> SUFFICES ASSUME NEW f \in Files, NEW id \in Ids, Leads(f, id)'
             PROVE  (/\ \A p \in up : f \notin lost[p] => copy[p][id] = dir[f]
                     /\ \A l \in Loaders : Loading(l) /\ f \notin skipped[l] =>
                          acc[l][id] = IF f \in todo[l] THEN None ELSE dir[f])'
  BY DEF UntouchedInv
<1> DEFINE Copies == \A p \in up : f \notin lost[p] => copy[p][id] = dir[f]
           Holds(l) == Loading(l) /\ f \notin skipped[l] =>
                         acc[l][id] = IF f \in todo[l] THEN None ELSE dir[f]
<1>0. /\ Leads(f, id) /\ dir'[f] = dir[f] /\ f \in Nat
      /\ Copies /\ \A l \in Loaders : Holds(l)
  BY LeadsStill, RegistryAssumption DEF UntouchedInv
<1> SUFFICES Copies' /\ \A l \in Loaders : Holds(l)'
  OBVIOUS
<1>1. ASSUME NEW k \in Loaders, Loading(k)' => Loading(k),
             acc'[k] = acc[k], todo'[k] = todo[k], skipped'[k] = skipped[k]
      PROVE  Holds(k)'
  BY <1>0, <1>1
<1>2. CASE UNCHANGED vars \/ Edit
  <2>1. UNCHANGED <<copy, up, lost, todo, acc, lpc, skipped>>
    BY <1>2 DEF vars, Edit
  <2> QED BY <1>0, <2>1 DEF Loading
<1>3. ASSUME NEW l \in Loaders, Accept(l) \/ Answer(l)
      PROVE  Copies' /\ \A k \in Loaders : Holds(k)'
  <2>1. UNCHANGED <<copy, up, lost, todo, acc, skipped>>
    BY <1>3 DEF Accept, Answer
  <2>2. \A k \in Loaders : Loading(k)' => Loading(k)
    BY <1>3 DEF Accept, Answer, TypeOK, Loading
  <2> QED BY <1>0, <2>1, <2>2
<1>4. ASSUME NEW l \in Loaders, Start(l) \/ Reload(l) \/ Import(l)
      PROVE  Copies' /\ \A k \in Loaders : Holds(k)'
  <2>1. UNCHANGED <<copy, up, lost, dir>> /\ Listed(l)
    BY <1>4 DEF Start, Reload, Import
  <2>2. \A k \in Loaders \ {l} : Loading(k)' => Loading(k)
    BY <1>4 DEF Start, Reload, Import, TypeOK, Loading
  <2>3. \A k \in Loaders \ {l} : Holds(k)'
    BY <1>1, <2>1, <2>2, ListedAll
  <2>4. acc'[l][id] = None /\ f \in todo'[l]
    BY <1>0, <2>1, ListedAll DEF Leads
  <2> QED BY <1>0, <2>1, <2>3, <2>4
<1>5. ASSUME NEW p \in Procs, Restart(p) PROVE Copies' /\ \A k \in Loaders : Holds(k)'
  <2>1. Copies'
    BY <1>0, <1>5 DEF Restart, TypeOK
  <2>2. ASSUME NEW k \in Loaders PROVE Holds(k)'
    <3>1. CASE Owner[k] = p
      BY <1>5, <3>1 DEF Restart, Loading
    <3>2. CASE Owner[k] # p
      <4>1. lpc'[k] = lpc[k] /\ acc'[k] = acc[k] /\ todo'[k] = todo[k] /\ skipped'[k] = skipped[k]
        BY <1>5, <3>2 DEF Restart, Dropped
      <4> QED BY <1>1, <4>1 DEF Loading
    <3> QED BY <3>1, <3>2
  <2> QED BY <2>1, <2>2
<1>6. ASSUME NEW l \in Loaders, Read(l) PROVE Copies' /\ \A k \in Loaders : Holds(k)'
  <2>1. PICK g \in todo[l], a \in ModesRead :
           /\ g \in Files /\ g \in Nat \ {0} /\ \A h \in todo[l] : g <= h
           /\ todo' = [todo EXCEPT ![l] = todo[l] \ {g}]
           /\ acc' = [acc EXCEPT ![l] = a]
           /\ \/ /\ UNCHANGED <<skipped, since>>
                 /\ a[id] = IF dir[g] \in Modes /\ dir[g].id = id /\ acc[l][id] = None
                            THEN dir[g] ELSE acc[l][id]
              \/ /\ a = acc[l]
                 /\ skipped' = [skipped EXCEPT ![l] = skipped[l] \cup {g}]
    BY <1>6, ReadKeeps
  <2>2. /\ acc'[l] = a /\ todo'[l] = todo[l] \ {g} /\ Loading(l)
        /\ UNCHANGED <<copy, up, lost, lpc>>
        /\ \A k \in Loaders \ {l} :
              acc'[k] = acc[k] /\ todo'[k] = todo[k] /\ skipped'[k] = skipped[k]
    BY <1>6, <2>1 DEF Read, TypeOK
  <2>3. dir[f] \in Modes /\ dir[f].id = id /\ dir[f] # None
    BY <1>0, RegistryAssumption DEF Leads, Claims
  <2>4. \A k \in Loaders \ {l} : Holds(k)'
    BY <1>1, <2>2 DEF Loading
  <2>5. ASSUME f \notin skipped'[l] PROVE acc'[l][id] = IF f \in todo'[l] THEN None ELSE dir[f]
    <3>1. f \notin skipped[l] /\ (g = f \/ UNCHANGED <<skipped, since>> \/ a = acc[l])
      BY <2>1, <2>5 DEF TypeOK
    <3>2. acc[l][id] = IF f \in todo[l] THEN None ELSE dir[f]
      BY <1>0, <2>2, <3>1
    <3>3. CASE f \notin todo[l]
      BY <2>1, <2>2, <2>3, <3>2, <3>3
    <3>4. CASE f \in todo[l] /\ g = f
      <4>1. UNCHANGED <<skipped, since>>
        BY <2>1, <2>5, <3>4 DEF TypeOK
      <4>2. f \in skipped'[l] \/ a[id] = dir[f]
        BY <2>1, <2>3, <3>2, <3>4 DEF TypeOK
      <4> QED BY <2>2, <2>5, <3>4, <4>2
    <3>5. CASE f \in todo[l] /\ g # f
      <4>1. ~(dir[g] \in Modes /\ dir[g].id = id)
        BY <1>0, <2>1, <3>5 DEF Leads, Claims
      <4> QED BY <2>1, <2>2, <3>2, <3>5, <4>1
    <3> QED BY <3>3, <3>4, <3>5
  <2> QED BY <1>0, <2>2, <2>4, <2>5
<1>7. ASSUME NEW l \in Loaders, Swap(l) PROVE Copies' /\ \A k \in Loaders : Holds(k)'
  <2>1. f \notin skipped[l] => acc[l][id] = dir[f]
    BY <1>0, <1>7 DEF Swap
  <2>2. Copies'
    <3>1. Owner[l] \in Procs /\ up \subseteq Procs
      BY RegistryAssumption DEF TypeOK
    <3> QED BY <1>0, <1>7, <2>1, <3>1 DEF Swap, TypeOK
  <2>3. ~Loading(l)'
    BY <1>7 DEF Swap, TypeOK, Loading
  <2>4. ASSUME NEW k \in Loaders \ {l} PROVE Holds(k)'
    <3>1. lpc'[k] = lpc[k] /\ acc'[k] = acc[k] /\ todo'[k] = todo[k] /\ skipped'[k] = skipped[k]
      BY <1>7 DEF Swap, Dropped, TypeOK
    <3> QED BY <1>1, <3>1 DEF Loading
  <2> QED BY <2>2, <2>3, <2>4
<1> QED BY <1>2, <1>3, <1>4, <1>5, <1>6, <1>7 DEF Next

(* Reloads disturb nobody: a mode that comes first for its id, and whose   *)
(* file and those before it nobody edits, is served at every moment by     *)
(* every process whose last load could read it, however many threads of it *)
(* load the modes at once.                                                 *)
THEOREM ServesUntouched == Spec => []UntouchedServed
<1>1. ASSUME TypeOK, UntouchedInv PROVE UntouchedServed
  <2> SUFFICES ASSUME NEW f \in Files, dir[f] \in Modes, edited \cap 1..f = {}, NEW p \in up,
                      f = Min(Claims(dir, dir[f].id)), f \notin lost[p]
               PROVE  copy[p][dir[f].id] = dir[f]
    BY DEF UntouchedServed
  <2> DEFINE id == dir[f].id
  <2>1. id \in Ids /\ f \in Claims(dir, id) /\ Claims(dir, id) \in SUBSET Nat
    BY RegistryAssumption DEF Claims
  <2>2. \A g \in Claims(dir, id) : f <= g
    BY <2>1, MinIs
  <2>3. Leads(f, id)
    BY <2>1, <2>2 DEF Leads
  <2> QED BY <1>1, <2>1, <2>3 DEF UntouchedInv
<1> QED BY TypeInit, TypeNext, UntouchedInit, UntouchedNext, <1>1, PTL DEF Spec

----------------------------------------------------------------------------
(* What a loader that began after the last edit has read so far: the first *)
(* of the files with the id that are no longer to do.                      *)
Seen(l, id) == Claims(dir, id) \ todo[l]
IsFirst(m, S) == IF S = {} THEN m = None
                 ELSE \E f \in S : m = dir[f] /\ \A g \in S : f <= g
ReadSoFar(l) ==
    \A id \in Ids : /\ IsFirst(acc[l][id], Seen(l, id))
                    /\ \A f \in Seen(l, id), g \in todo[l] : f < g
LoadInv ==
    /\ LoadApplies
    /\ \A l \in Loaders : Loading(l) /\ l \in since => ReadSoFar(l)

(* Files in their order give each id the file that comes first.            *)
LEMMA ReadInOrder ==
  ASSUME TypeOK, NEW l \in Loaders, Read(l), ReadSoFar(l), l \in since'
  PROVE  ReadSoFar(l)'
<1>1. PICK f \in todo[l], a \in ModesRead :
         /\ f \in Files /\ f \in Nat \ {0} /\ \A g \in todo[l] : f <= g
         /\ todo' = [todo EXCEPT ![l] = todo[l] \ {f}]
         /\ acc' = [acc EXCEPT ![l] = a]
         /\ \A id \in Ids :
              a[id] = IF dir[f] \in Modes /\ dir[f].id = id /\ acc[l][id] = None
                      THEN dir[f] ELSE acc[l][id]
  BY ReadKeeps
<1>2. acc'[l] = a /\ todo'[l] = todo[l] \ {f} /\ dir' = dir /\ todo[l] \subseteq Nat
  <2>1. acc \in [Loaders -> ModesRead] /\ todo \in [Loaders -> SUBSET Files] /\ dir' = dir
    BY DEF Read, TypeOK, ModesRead
  <2>2. acc'[l] = a /\ todo'[l] = todo[l] \ {f}
    BY <1>1, <2>1
  <2>3. todo[l] \subseteq Nat
    BY <2>1, RegistryAssumption
  <2> QED BY <2>1, <2>2, <2>3
<1> SUFFICES ASSUME NEW id \in Ids
             PROVE  /\ IsFirst(acc[l][id], Seen(l, id))'
                    /\ (\A e \in Seen(l, id), g \in todo[l] : e < g)'
  BY DEF ReadSoFar
<1>3. /\ IsFirst(acc[l][id], Seen(l, id))
      /\ \A e \in Seen(l, id), g \in todo[l] : e < g
      /\ Seen(l, id) \subseteq Nat
  BY RegistryAssumption DEF ReadSoFar, Seen, Claims
<1>4. Seen(l, id)' = IF f \in Claims(dir, id) THEN Seen(l, id) \cup {f} ELSE Seen(l, id)
  BY <1>2 DEF Seen, Claims
<1>5. \A e \in Seen(l, id)', g \in todo'[l] : e < g
  BY <1>1, <1>2, <1>3, <1>4
<1>6. IsFirst(a[id], Seen(l, id)')
  <2>1. CASE f \notin Claims(dir, id)
    <3>1. a[id] = acc[l][id]
      BY <1>1, <2>1 DEF Claims
    <3> QED BY <1>3, <1>4, <2>1, <3>1
  <2>2. CASE f \in Claims(dir, id) /\ Seen(l, id) = {}
    <3>1. acc[l][id] = None /\ a[id] = dir[f]
      BY <1>1, <1>3, <2>2 DEF IsFirst, Claims
    <3>2. Seen(l, id)' = {f} /\ f <= f
      BY <1>1, <1>4, <2>2
    <3> QED BY <3>1, <3>2 DEF IsFirst
  <2>3. CASE f \in Claims(dir, id) /\ Seen(l, id) # {}
    <3>1. PICK e \in Seen(l, id) : acc[l][id] = dir[e] /\ \A g \in Seen(l, id) : e <= g
      BY <1>3, <2>3 DEF IsFirst
    <3>2. acc[l][id] # None /\ a[id] = dir[e]
      BY <1>1, <3>1, RegistryAssumption DEF Seen, Claims
    <3>3. e <= f
      BY <1>1, <1>3, <3>1
    <3>4. e \in Seen(l, id)' /\ \A g \in Seen(l, id)' : e <= g
      BY <1>4, <2>3, <3>1, <3>3
    <3> QED BY <3>2, <3>4 DEF IsFirst
  <2> QED BY <2>1, <2>2, <2>3
<1>7. IsFirst(acc[l][id], Seen(l, id))'
  BY <1>2, <1>6 DEF IsFirst
<1> QED BY <1>5, <1>7

(* With every file read, that is what the files define.                    *)
LEMMA WholeLoad ==
  ASSUME TypeOK, NEW l \in Loaders, todo[l] = {}, ReadSoFar(l)
  PROVE  acc[l] = Reference(dir)
<1>1. acc[l] \in ModesRead /\ dir \in [Files -> Contents]
  BY DEF TypeOK, ModesRead
<1>2. ASSUME NEW id \in Ids PROVE acc[l][id] = Reference(dir)[id]
  <2>1. Seen(l, id) = Claims(dir, id) /\ IsFirst(acc[l][id], Claims(dir, id))
    BY DEF Seen, ReadSoFar
  <2>2. CASE Claims(dir, id) = {}
    BY <1>1, <2>1, <2>2, ReferenceRead DEF IsFirst
  <2>3. CASE Claims(dir, id) # {}
    <3>1. PICK e \in Claims(dir, id) :
            acc[l][id] = dir[e] /\ \A g \in Claims(dir, id) : e <= g
      BY <2>1, <2>3 DEF IsFirst
    <3>2. PICK f \in Claims(dir, id) :
            Reference(dir)[id] = dir[f] /\ \A g \in Claims(dir, id) : f <= g
      BY <1>1, <2>3, ReferenceRead
    <3>3. e <= f /\ f <= e /\ e \in Nat /\ f \in Nat
      BY <3>1, <3>2, RegistryAssumption DEF Claims
    <3>4. e = f
      BY <3>3
    <3> QED BY <3>1, <3>2, <3>4
  <2> QED BY <2>2, <2>3
<1> QED BY <1>1, <1>2, ReferenceRead DEF ModesRead

LEMMA LoadNext ==
  ASSUME TypeOK, LoadInv, [Next]_vars
  PROVE  LoadInv'
<1>1. ASSUME NEW k \in Loaders, dir' = dir, acc'[k] = acc[k], todo'[k] = todo[k], ReadSoFar(k)
      PROVE  ReadSoFar(k)'
  BY <1>1 DEF ReadSoFar, IsFirst, Seen, Claims
<1>2. CASE UNCHANGED vars
  BY <1>2 DEF vars, LoadInv, LoadApplies, Loading, ReadSoFar, IsFirst, Seen, Claims
<1>3. CASE Edit
  BY <1>3 DEF Edit, LoadInv, LoadApplies
<1>4. ASSUME NEW l \in Loaders, Accept(l) \/ Answer(l) PROVE LoadInv'
  <2>1. UNCHANGED <<dir, copy, fresh, todo, acc, since>>
    BY <1>4 DEF Accept, Answer
  <2>2. \A k \in Loaders : Loading(k)' => Loading(k)
    BY <1>4 DEF Accept, Answer, TypeOK, Loading
  <2> QED BY <1>1, <2>1, <2>2 DEF LoadInv, LoadApplies
<1>5. ASSUME NEW l \in Loaders, Start(l) \/ Reload(l) \/ Import(l) PROVE LoadInv'
  <2>1. UNCHANGED <<dir, copy, fresh>> /\ Listed(l)
    BY <1>5 DEF Start, Reload, Import
  <2>2. ReadSoFar(l)'
    <3>1. \A id \in Ids : Seen(l, id)' = {} /\ acc'[l][id] = None
      BY <2>1, ListedAll DEF Seen
    <3>2. \A id \in Ids : IsFirst(acc[l][id], Seen(l, id))'
      BY <3>1 DEF IsFirst
    <3> QED BY <3>1, <3>2 DEF ReadSoFar
  <2>3. ASSUME NEW k \in Loaders \ {l}, Loading(k)', k \in since' PROVE ReadSoFar(k)'
    <3>1. Loading(k) /\ k \in since
      BY <1>5, <2>1, <2>3 DEF Start, Reload, Import, TypeOK, Loading, Listed
    <3> QED BY <1>1, <2>1, <3>1, ListedAll DEF LoadInv
  <2>4. LoadApplies'
    BY <2>1 DEF LoadInv, LoadApplies
  <2> QED BY <2>2, <2>3, <2>4 DEF LoadInv
<1>6. ASSUME NEW p \in Procs, Restart(p) PROVE LoadInv'
  <2>1. LoadApplies'
    <3>1. \A q \in Procs \ {p} : copy'[q] = copy[q]
      BY <1>6 DEF Restart, TypeOK
    <3> QED BY <1>6, <3>1 DEF Restart, LoadInv, LoadApplies, TypeOK
  <2>2. ASSUME NEW k \in Loaders, Loading(k)', k \in since' PROVE ReadSoFar(k)'
    <3>1. Owner[k] # p /\ k \in since
      BY <1>6, <2>2 DEF Restart
    <3>2. lpc'[k] = lpc[k] /\ acc'[k] = acc[k] /\ todo'[k] = todo[k] /\ dir' = dir
      BY <1>6, <3>1 DEF Restart, Dropped
    <3> QED BY <1>1, <2>2, <3>1, <3>2 DEF LoadInv, Loading
  <2> QED BY <2>1, <2>2 DEF LoadInv
<1>7. ASSUME NEW l \in Loaders, Read(l) PROVE LoadInv'
  <2>1. LoadApplies' /\ Loading(l) /\ UNCHANGED <<dir, lpc, fresh>> /\ since' \subseteq since
    BY <1>7 DEF Read, LoadInv, LoadApplies
  <2>2. l \in since' => ReadSoFar(l)'
    BY <1>7, <2>1, ReadInOrder DEF LoadInv
  <2>3. \A k \in Loaders \ {l} : acc'[k] = acc[k] /\ todo'[k] = todo[k]
    BY <1>7 DEF Read, TypeOK
  <2>4. ASSUME NEW k \in Loaders \ {l}, Loading(k)', k \in since' PROVE ReadSoFar(k)'
    BY <1>1, <2>1, <2>3, <2>4 DEF LoadInv, Loading
  <2> QED BY <2>1, <2>2, <2>4 DEF LoadInv
<1>8. ASSUME NEW l \in Loaders, Swap(l) PROVE LoadInv'
  <2>1. l \in since => copy'[Owner[l]] = Reference(dir)
    <3>1. Owner[l] \in Procs
      BY RegistryAssumption
    <3> QED BY <1>8, <3>1, WholeLoad DEF Swap, LoadInv, TypeOK
  <2>2. \A p \in Procs \ {Owner[l]} : copy'[p] = copy[p]
    BY <1>8 DEF Swap, TypeOK
  <2>3. LoadApplies'
    BY <1>8, <2>1, <2>2 DEF Swap, LoadInv, LoadApplies, TypeOK
  <2>4. ASSUME NEW k \in Loaders, Loading(k)', k \in since' PROVE ReadSoFar(k)'
    <3>1. k # l /\ k \in since
      BY <1>8, <2>4 DEF Swap
    <3>2. lpc'[k] = lpc[k] /\ acc'[k] = acc[k] /\ todo'[k] = todo[k] /\ dir' = dir
      BY <1>8, <3>1 DEF Swap, Dropped, TypeOK
    <3> QED BY <1>1, <2>4, <3>1, <3>2 DEF LoadInv, Loading
  <2> QED BY <2>3, <2>4 DEF LoadInv
<1> QED BY <1>2, <1>3, <1>4, <1>5, <1>6, <1>7, <1>8 DEF Next

(* A load takes effect: a process whose last load to return began after    *)
(* the last edit, and could read its files, has the modes the files        *)
(* define, although it read them one by one, other loads overlapped it and *)
(* the files were edited before.                                           *)
THEOREM LoadTakesEffect == Spec => []LoadApplies
<1>1. Init => LoadInv
  BY DEF Init, LoadInv, LoadApplies
<1>2. LoadInv => LoadApplies
  BY DEF LoadInv
<1> QED BY <1>1, <1>2, LoadNext, TypeInit, TypeNext, PTL DEF Spec
=============================================================================
