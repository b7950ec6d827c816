---------------------------- MODULE PricingProofs ----------------------------
(***************************************************************************)
(* Proofs about Pricing, for any number of handlers and reloaders, any     *)
(* contents of the file and any overrides.                                 *)
(***************************************************************************)
EXTENDS Pricing, TLAPS

(* Each table is what some version of the file said, though not            *)
(* necessarily the same version.                                           *)
FromFiles ==
    /\ \E f \in Files \cup {Empty} : tables.defaults = f.defaults
    /\ \E f \in Files \cup {Empty} : tables.modes = f.modes
    /\ \E f \in Files \cup {Empty} : tables.keys = f.keys

(* What a handler has already ruled out: its own overrides for good, a     *)
(* table for as long as none is assigned.                                  *)
RuledOut(h) ==
    /\ pc[h] # "idle" => ov[h].mode = None /\ ov[h].type = None
    /\ quiet[h] /\ pc[h] \in {"modes", "mode", "defaults", "type"}
          => tables.keys.mode = None /\ tables.keys.type = None
    /\ quiet[h] /\ pc[h] = "mode" => tables.modes # None
    /\ quiet[h] /\ pc[h] \in {"defaults", "type"} => tables.modes = None
    /\ quiet[h] /\ pc[h] = "type" => tables.defaults # None

PricingInv == /\ TypeOK
              /\ FromFiles
              /\ \A h \in Handlers : RuledOut(h)
              /\ PriceIsReference
              /\ Configured

----------------------------------------------------------------------------
(* What _as_int returns is a positive integer or a refusal.                *)
LEMMA AsIntType ==
  ASSUME NEW v \in Raw
  PROVE  /\ AsInt(v) \in Int \cup {Refused}
         /\ AsInt(v) \in Int => AsInt(v) > 0
         /\ AsInt(v) # Idle
BY PricingAssumption DEF PricingAssumption, AsInt, Raw

(* Entries are raw values or nothing; the empty file is one of the tables. *)
LEMMA FileTypes ==
  ASSUME NEW f \in Files \cup {Empty}
  PROVE  /\ f \in Tables /\ f.keys \in Overrides
         /\ f.defaults \in Entry /\ f.modes \in Entry
         /\ f.keys.mode \in Entry /\ f.keys.type \in Entry
BY PricingAssumption DEF PricingAssumption, Tables, Overrides, Entry, Empty, NoOverrides

(* The override that counts is one of the two, and there is none only when *)
(* both are missing.                                                       *)
LEMMA PickIs ==
  ASSUME NEW o \in Overrides
  PROVE  /\ Pick(o) \in Entry
         /\ Pick(o) # None => Pick(o) \in Raw
         /\ Pick(o) = None <=> o.mode = None /\ o.type = None
BY DEF Pick, Overrides, Entry

(* The layers that decide when all those before are missing.               *)
LEMMA ReferenceLast ==
  ASSUME NEW o \in Overrides, NEW t \in Tables, NEW i \in 1..6,
         \A j \in 1..(i - 1) : Layers(o, t)[j] = None,
         Layers(o, t)[i] # None
  PROVE  Reference(AsInt(Layers(o, t)[i]), o, t)
BY DEF Reference, Decides

----------------------------------------------------------------------------
(* The invariant holds when the application has loaded the file.           *)
THEOREM PricingInit == Init => PricingInv
<1> SUFFICES ASSUME Init PROVE PricingInv
    OBVIOUS
<1>1. TypeOK
  <2>1. disk \in Tables
        BY FileTypes DEF Init
  <2> QED  BY <2>1, PricingAssumption DEF Init, TypeOK
<1>2. FromFiles
      BY DEF Init, FromFiles
<1>3. \A h \in Handlers : RuledOut(h)
      BY DEF Init, RuledOut
<1>4. PriceIsReference /\ Configured
      BY PricingAssumption DEF Init, PriceIsReference, Configured, PricingAssumption
<1> QED  BY <1>1, <1>2, <1>3, <1>4 DEF PricingInv

(* Assigning a table ends the quiet of every handler.                      *)
LEMMA AssignInv ==
  ASSUME PricingInv, NEW r \in Reloaders,
         NEW from \in {"defaults", "modes", "keys"}, NEW to \in {"idle", "modes", "keys"},
         Assign(r, from, to)
  PROVE  PricingInv'
<1> USE DEF PricingInv
<1>1. rfile[r] \in Files \cup {Empty} /\ rfile[r] \in Tables
      BY FileTypes DEF TypeOK
<1>2. /\ tables' \in Tables
      /\ tables'.defaults = IF from = "defaults" THEN rfile[r].defaults ELSE tables.defaults
      /\ tables'.modes = IF from = "modes" THEN rfile[r].modes ELSE tables.modes
      /\ tables'.keys = IF from = "keys" THEN rfile[r].keys ELSE tables.keys
      BY <1>1 DEF Assign, Tables, TypeOK
<1>3. TypeOK'
      BY <1>2 DEF Assign, TypeOK
<1>4. FromFiles'
      BY <1>1, <1>2 DEF FromFiles
<1>5. (\A h \in Handlers : RuledOut(h))' /\ PriceIsReference'
      BY DEF Assign, RuledOut, PriceIsReference
<1>6. Configured'
      BY DEF Assign, Configured, Said
<1> QED  BY <1>3, <1>4, <1>5, <1>6

(* A handler that goes on has ruled out one thing more.                    *)
LEMMA GotoInv ==
  ASSUME PricingInv, NEW h \in Handlers,
         NEW l \in {"keys", "modes", "mode", "defaults", "type"},
         Goto(h, l), ov' \in [Handlers -> OverrideSets \cup {NoOverrides}],
         quiet' \in [Handlers -> BOOLEAN],
         \A k \in Handlers \ {h} : ov'[k] = ov[k] /\ quiet'[k] = quiet[k],
         RuledOut(h)'
  PROVE  PricingInv'
<1> USE DEF PricingInv
<1>1. TypeOK'
      BY DEF TypeOK, Goto
<1>2. FromFiles'
      BY DEF FromFiles, Goto
<1>3. (\A k \in Handlers : RuledOut(k))'
  <2>1. ASSUME NEW k \in Handlers, k # h PROVE RuledOut(k)'
        BY <2>1 DEF Goto, RuledOut, TypeOK
  <2> QED  BY <2>1
<1>4. PriceIsReference'
      BY DEF Goto, PriceIsReference, TypeOK
<1>5. Configured'
      BY PricingAssumption DEF Goto, Configured, Said, TypeOK, PricingAssumption
<1> QED  BY <1>1, <1>2, <1>3, <1>4, <1>5

(* A handler that returns gives the price of the layer that decides, which *)
(* some version of the file or its own overrides have named.               *)
LEMMA ReturnInv ==
  ASSUME PricingInv, NEW h \in Handlers, NEW p,
         Return(h, p), ov' \in [Handlers -> OverrideSets \cup {NoOverrides}],
         quiet' \in [Handlers -> BOOLEAN],
         \A k \in Handlers \ {h} : ov'[k] = ov[k] /\ quiet'[k] = quiet[k],
         p \in Int \cup {Refused, KeyError},
         quiet'[h] => Reference(p, ov'[h], tables),
         p \in Int => p > 0 /\ \E v \in Said(ov'[h]) \ {None} : p = AsInt(v)
  PROVE  PricingInv'
<1> USE DEF PricingInv
<1>1. TypeOK'
      BY DEF TypeOK, Return
<1>2. FromFiles'
      BY DEF FromFiles, Return
<1>3. (\A k \in Handlers : RuledOut(k))'
      BY DEF Return, RuledOut, TypeOK
<1>4. PriceIsReference'
  <2>1. tables' = tables /\ price' = [price EXCEPT ![h] = p] /\ pc' = [pc EXCEPT ![h] = "idle"]
        BY DEF Return
  <2>2. ASSUME NEW k \in Handlers, pc'[k] = "idle", quiet'[k], price'[k] # Idle
        PROVE  Reference(price'[k], ov'[k], tables')
    <3>1. CASE k = h
          BY <2>1, <2>2, <3>1 DEF TypeOK
    <3>2. CASE k # h
          BY <2>1, <2>2, <3>2 DEF TypeOK, PriceIsReference
    <3> QED  BY <3>1, <3>2
  <2> QED  BY <2>2 DEF PriceIsReference
<1>5. Configured'
  <2>1. ASSUME NEW k \in Handlers, price'[k] \in Int
        PROVE  price'[k] > 0 /\ \E v \in Said(ov'[k]) \ {None} : price'[k] = AsInt(v)
    <3>1. CASE k = h
          BY <2>1, <3>1 DEF TypeOK, Return
    <3>2. CASE k # h
          BY <2>1, <3>2 DEF TypeOK, Return, Configured
    <3> QED  BY <3>1, <3>2
  <2> QED  BY <2>1 DEF Configured, Said
<1> QED  BY <1>1, <1>2, <1>3, <1>4, <1>5

(* A price from a layer is one that was said; from the first layer that is *)
(* there, it is the documented one.                                        *)
LEMMA LayerPrice ==
  ASSUME NEW o \in OverrideSets \cup {NoOverrides}, TypeOK, FromFiles,
         NEW i \in 1..6, Layers(o, tables)[i] # None
  PROVE  LET p == AsInt(Layers(o, tables)[i])
         IN  /\ p \in Int \cup {Refused, KeyError}
             /\ (\A j \in 1..(i - 1) : Layers(o, tables)[j] = None) => Reference(p, o, tables)
             /\ p \in Int => p > 0 /\ \E v \in Said(o) \ {None} : p = AsInt(v)
<1> DEFINE v == Layers(o, tables)[i]
<1>1. o \in Overrides /\ tables \in Tables
      BY PricingAssumption DEF PricingAssumption, TypeOK, NoOverrides, Overrides, Entry
<1>2. v \in Raw
      BY <1>1 DEF Layers, Tables, Overrides, Entry
<1>3. v \in Said(o)
  <2>1. i \in {1, 2} => v \in {o.mode, o.type}
        BY DEF Layers
  <2>2. ASSUME i \in 3..6 PROVE \E f \in Files : v = Layers(o, f)[i]
    <3>1. \A k \in 3..6 : Layers(o, Empty)[k] = None
          BY DEF Layers, Empty, NoOverrides
    <3>2. \E f \in Files \cup {Empty} : v = Layers(o, f)[i]
          BY <2>2 DEF Layers, FromFiles
    <3> QED  BY <2>2, <3>1, <3>2
  <2>3. i \in {1, 2} \/ i \in 3..6
        OBVIOUS
  <2> QED  BY <2>1, <2>2, <2>3 DEF Said
<1> QED  BY <1>1, <1>2, <1>3, AsIntType, ReferenceLast

----------------------------------------------------------------------------
(* Begin: the overrides decide, or there are none.                         *)
LEMMA BeginInv == ASSUME PricingInv, NEW h \in Handlers, Begin(h) PROVE PricingInv'
<1> USE DEF PricingInv
<1>1. PICK o \in OverrideSets :
         /\ ov' = [ov EXCEPT ![h] = o]
         /\ IF Pick(o) # None THEN Return(h, AsInt(Pick(o))) ELSE Goto(h, "keys")
      BY DEF Begin
<1>2. /\ ov' \in [Handlers -> OverrideSets \cup {NoOverrides}]
      /\ quiet' \in [Handlers -> BOOLEAN]
      /\ \A k \in Handlers \ {h} : ov'[k] = ov[k] /\ quiet'[k] = quiet[k]
      /\ ov'[h] = o
      /\ o \in Overrides
      BY <1>1, PricingAssumption DEF Begin, TypeOK, PricingAssumption
<1>3. CASE o.mode # None
  <2>1. Layers(o, tables)[1] = o.mode /\ Pick(o) = o.mode /\ Pick(o) # None
        BY <1>3 DEF Layers, Pick
  <2> QED  BY <1>1, <1>2, <1>3, <2>1, LayerPrice, ReturnInv
<1>4. CASE o.mode = None /\ o.type # None
  <2>1. /\ Layers(o, tables)[2] = o.type /\ Pick(o) = o.type /\ Pick(o) # None
        /\ \A j \in 1..1 : Layers(o, tables)[j] = None
        BY <1>4 DEF Layers, Pick
  <2> QED  BY <1>1, <1>2, <1>4, <2>1, LayerPrice, ReturnInv
<1>5. CASE o.mode = None /\ o.type = None
  <2>1. Goto(h, "keys")
        BY <1>1, <1>5 DEF Pick
  <2>2. RuledOut(h)'
        BY <1>2, <1>5, <2>1 DEF RuledOut, Goto, TypeOK
  <2> QED  BY <1>2, <2>1, <2>2, GotoInv
<1> QED  BY <1>3, <1>4, <1>5

(* The tables of the key decide, or there is nothing in them.              *)
LEMMA ReadKeysInv == ASSUME PricingInv, NEW h \in Handlers, ReadKeys(h) PROVE PricingInv'
<1> USE DEF PricingInv
<1> DEFINE k == tables.keys
<1>1. /\ ov' = ov /\ quiet' = quiet /\ ov[h].mode = None /\ ov[h].type = None
      /\ ov \in [Handlers -> OverrideSets \cup {NoOverrides}]
      /\ quiet \in [Handlers -> BOOLEAN] /\ k \in Overrides
      BY DEF ReadKeys, RuledOut, TypeOK, Tables
<1>2. CASE k.mode # None
  <2>1. /\ Layers(ov[h], tables)[3] = k.mode /\ Pick(k) = k.mode
        /\ \A j \in 1..2 : Layers(ov[h], tables)[j] = None
        BY <1>1, <1>2 DEF Layers, Pick
  <2>2. Return(h, AsInt(k.mode))
        BY <1>2, <2>1 DEF ReadKeys
  <2> QED  BY <1>1, <1>2, <2>1, <2>2, LayerPrice, ReturnInv
<1>3. CASE k.mode = None /\ k.type # None
  <2>1. /\ Layers(ov[h], tables)[4] = k.type /\ Pick(k) = k.type
        /\ \A j \in 1..3 : Layers(ov[h], tables)[j] = None
        BY <1>1, <1>3 DEF Layers, Pick
  <2>2. Return(h, AsInt(k.type))
        BY <1>3, <2>1 DEF ReadKeys
  <2> QED  BY <1>1, <1>3, <2>1, <2>2, LayerPrice, ReturnInv
<1>4. CASE k.mode = None /\ k.type = None
  <2>1. Goto(h, "modes")
        BY <1>4 DEF ReadKeys, Pick
  <2>2. RuledOut(h)'
        BY <1>1, <1>4, <2>1 DEF RuledOut, Goto, TypeOK
  <2> QED  BY <1>1, <2>1, <2>2, GotoInv
<1> QED  BY <1>2, <1>3, <1>4

(* "in self._modes": a dictionary looked at, and looked at again.          *)
LEMMA FindModeInv == ASSUME PricingInv, NEW h \in Handlers, FindMode(h) PROVE PricingInv'
<1> USE DEF PricingInv
<1>1. PICK l \in {"mode", "defaults"} :
         Goto(h, l) /\ (l = "mode" <=> tables.modes # None)
      BY DEF FindMode
<1>2. ov' = ov /\ quiet' = quiet /\ ov \in [Handlers -> OverrideSets \cup {NoOverrides}]
      /\ quiet \in [Handlers -> BOOLEAN] /\ pc[h] = "modes" /\ pc'[h] = l /\ tables' = tables
      BY <1>1 DEF FindMode, TypeOK, Goto
<1>3. RuledOut(h)'
      BY <1>1, <1>2 DEF RuledOut
<1> QED  BY <1>1, <1>2, <1>3, GotoInv

(* The mode's price, unless the table it was seen in has been replaced.    *)
LEMMA ReadModeInv == ASSUME PricingInv, NEW h \in Handlers, ReadMode(h) PROVE PricingInv'
<1> USE DEF PricingInv
<1>1. ov' = ov /\ quiet' = quiet /\ ov \in [Handlers -> OverrideSets \cup {NoOverrides}]
      /\ quiet \in [Handlers -> BOOLEAN] /\ pc[h] = "mode"
      BY DEF ReadMode, TypeOK
<1>2. CASE tables.modes # None
  <2>1. Layers(ov[h], tables)[5] = tables.modes /\ Return(h, AsInt(tables.modes))
        BY <1>2 DEF Layers, ReadMode
  <2>2. quiet[h] => \A j \in 1..4 : Layers(ov[h], tables)[j] = None
        BY <1>1 DEF RuledOut, Layers
  <2> QED  BY <1>1, <1>2, <2>1, <2>2, LayerPrice, ReturnInv
<1>3. CASE tables.modes = None
  <2>1. Return(h, KeyError) /\ ~quiet[h]
        BY <1>1, <1>3 DEF ReadMode, RuledOut
  <2> QED  BY <1>1, <2>1, PricingAssumption, ReturnInv DEF PricingAssumption
<1> QED  BY <1>2, <1>3

(* No default either: refused, which is what the priority says.            *)
LEMMA FindTypeInv == ASSUME PricingInv, NEW h \in Handlers, FindType(h) PROVE PricingInv'
<1> USE DEF PricingInv
<1>1. ov' = ov /\ quiet' = quiet /\ ov \in [Handlers -> OverrideSets \cup {NoOverrides}]
      /\ quiet \in [Handlers -> BOOLEAN] /\ pc[h] = "defaults"
      BY DEF FindType, TypeOK
<1>2. CASE tables.defaults # None
  <2>1. Goto(h, "type")
        BY <1>2 DEF FindType
  <2>2. pc'[h] = "type" /\ tables' = tables
        BY <2>1 DEF Goto, TypeOK
  <2>3. RuledOut(h)'
        BY <1>1, <1>2, <2>2 DEF RuledOut
  <2> QED  BY <1>1, <2>1, <2>3, GotoInv
<1>3. CASE tables.defaults = None
  <2>1. Return(h, Refused)
        BY <1>3 DEF FindType
  <2>2. quiet[h] => \A j \in 1..6 : Layers(ov[h], tables)[j] = None
        BY <1>1, <1>3 DEF RuledOut, Layers
  <2>3. quiet[h] => Reference(Refused, ov[h], tables)
        BY <2>2 DEF Reference
  <2> QED  BY <1>1, <2>1, <2>3, PricingAssumption, ReturnInv DEF PricingAssumption
<1> QED  BY <1>2, <1>3

(* The default of the task type.                                           *)
LEMMA ReadTypeInv == ASSUME PricingInv, NEW h \in Handlers, ReadType(h) PROVE PricingInv'
<1> USE DEF PricingInv
<1>1. ov' = ov /\ quiet' = quiet /\ ov \in [Handlers -> OverrideSets \cup {NoOverrides}]
      /\ quiet \in [Handlers -> BOOLEAN] /\ pc[h] = "type"
      BY DEF ReadType, TypeOK
<1>2. CASE tables.defaults # None
  <2>1. Layers(ov[h], tables)[6] = tables.defaults /\ Return(h, AsInt(tables.defaults))
        BY <1>2 DEF Layers, ReadType
  <2>2. quiet[h] => \A j \in 1..5 : Layers(ov[h], tables)[j] = None
        BY <1>1 DEF RuledOut, Layers
  <2> QED  BY <1>1, <1>2, <2>1, <2>2, LayerPrice, ReturnInv
<1>3. CASE tables.defaults = None
  <2>1. Return(h, KeyError) /\ ~quiet[h]
        BY <1>1, <1>3 DEF ReadType, RuledOut
  <2> QED  BY <1>1, <2>1, PricingAssumption, ReturnInv DEF PricingAssumption
<1> QED  BY <1>2, <1>3

----------------------------------------------------------------------------
(* Steps that touch neither a table nor a handler.                         *)
LEMMA OtherInv ==
  ASSUME PricingInv,
         UNCHANGED <<tables, pc, ov, price, quiet>>, TypeOK'
  PROVE  PricingInv'
BY DEF PricingInv, FromFiles, RuledOut, PriceIsReference, Configured, Said

(* Every step keeps the invariant.                                         *)
THEOREM PricingNext == PricingInv /\ [Next]_vars => PricingInv'
<1> SUFFICES ASSUME PricingInv, [Next]_vars PROVE PricingInv'
    OBVIOUS
<1>1. CASE Edit
      BY <1>1, OtherInv DEF Edit, PricingInv, TypeOK
<1>2. ASSUME NEW r \in Reloaders, Reload(r) PROVE PricingInv'
  <2>1. CASE ReadFile(r)
        BY <2>1, OtherInv DEF ReadFile, PricingInv, TypeOK
  <2> QED  BY <1>2, <2>1, AssignInv DEF Reload
<1>3. ASSUME NEW h \in Handlers, PriceFor(h) PROVE PricingInv'
      BY <1>3, BeginInv, ReadKeysInv, FindModeInv, ReadModeInv, FindTypeInv, ReadTypeInv
      DEF PriceFor
<1>4. CASE UNCHANGED vars
      BY <1>4, OtherInv DEF vars, PricingInv, TypeOK
<1> QED  BY <1>1, <1>2, <1>3, <1>4 DEF Next

(* So it always holds.                                                     *)
THEOREM PricingAlways == Spec => []PricingInv
BY PricingInit, PricingNext, PTL DEF Spec

(* Every variable keeps its type, whatever the file says.                  *)
THEOREM PricingTypes == Spec => []TypeOK
BY PricingAlways, PTL DEF PricingInv

(* A price computed while nothing is reloaded follows the documented       *)
(* priority, and the dictionary accesses do not fail then.                 *)
THEOREM PriceFollowsPriority == Spec => []PriceIsReference
BY PricingAlways, PTL DEF PricingInv

(* No generation is ever free, and no price is ever one that nobody set.   *)
THEOREM NeverFree == Spec => []Configured
BY PricingAlways, PTL DEF PricingInv
=============================================================================
