------------------------------- MODULE Pricing -------------------------------
(***************************************************************************)
(* Prices (app/services/pricing.py) in one API process: handler threads    *)
(* compute the price of a generation from three tables in memory while     *)
(* administrators reload those tables from config/pricing.yaml.  There is  *)
(* no lock: a step is one read or one assignment of an attribute.          *)
(*                                                                         *)
(* One mode, its task type and one API key are priced; a table is what it  *)
(* says of them.  Values are in half credits, so that a price that is not  *)
(* an integer, which int() truncates, can be written.                      *)
(***************************************************************************)
EXTENDS Integers

CONSTANTS Handlers,      \* threads that serve POST /generate
          Reloaders,     \* threads that serve POST /admin/pricing/reload
          Files,         \* contents pricing.yaml may have
          OverrideSets,  \* ApiKey.price_overrides a request may come with
          None,          \* no entry
          Text,          \* a value int() does not accept
          Refused,       \* ValidationAppError: 422
          KeyError,      \* an exception of the dictionary access: 500
          Idle           \* nothing read, nothing priced

Raw == Int \cup {Text}
Entry == Raw \cup {None}
Overrides == [mode : Entry, type : Entry]
Tables == [defaults : Entry, modes : Entry, keys : Overrides]

ASSUME PricingAssumption ==
    /\ Files \subseteq Tables
    /\ OverrideSets \subseteq Overrides
    /\ None \notin Raw
    /\ {Text, Refused, KeyError, Idle} \cap Int = {}
    /\ Refused # KeyError /\ Idle \notin {Refused, KeyError}

VARIABLES disk,          \* the file
          tables,        \* _defaults, _modes and _api_keys of the registry
          rpc,           \* the assignment each reload makes next
          rfile,         \* what each reload has read
          pc,            \* where each price_for is
          ov,            \* the overrides it was called with
          price,         \* what it returned
          quiet          \* whether no table was assigned since it began

vars == <<disk, tables, rpc, rfile, pc, ov, price, quiet>>

NoOverrides == [mode |-> None, type |-> None]
Empty == [defaults |-> None, modes |-> None, keys |-> NoOverrides]

(* _as_int, for an entry that is there: truncated, and positive.           *)
AsIntText(v) == IF v = Text THEN v ELSE v \div 2         \* mutant: returned as it is
AsIntFree(v) == IF v = Text THEN Refused ELSE v \div 2    \* mutant: 0 is a price
AsInt(v) == IF v = Text THEN Refused ELSE IF v \div 2 > 0 THEN v \div 2 ELSE Refused

(* By mode, else by type.                                                  *)
Pick(o) == IF o.mode # None THEN o.mode ELSE o.type

(* The application loads the file when it starts.                          *)
Init == /\ disk \in Files \cup {Empty}
        /\ tables = disk
        /\ rpc = [r \in Reloaders |-> "idle"]
        /\ rfile = [r \in Reloaders |-> Empty]
        /\ pc = [h \in Handlers |-> "idle"]
        /\ ov = [h \in Handlers |-> NoOverrides]
        /\ price = [h \in Handlers |-> Idle]
        /\ quiet = [h \in Handlers |-> TRUE]

----------------------------------------------------------------------------
(* reload; a file that is missing or is not YAML counts as empty.          *)
Edit == /\ disk' \in Files \cup {Empty}
        /\ UNCHANGED <<tables, rpc, rfile, pc, ov, price, quiet>>

ReadFile(r) ==
    /\ rpc[r] = "idle"
    /\ rfile' = [rfile EXCEPT ![r] = disk]
    /\ rpc' = [rpc EXCEPT ![r] = "defaults"]
    /\ UNCHANGED <<disk, tables, pc, ov, price, quiet>>

Assign(r, from, to) ==
    /\ rpc[r] = from
    /\ tables' = [tables EXCEPT ![from] = rfile[r][from]]
    /\ rpc' = [rpc EXCEPT ![r] = to]
    /\ quiet' = [h \in Handlers |-> FALSE]
    /\ UNCHANGED <<disk, rfile, pc, ov, price>>

Reload(r) == \/ ReadFile(r)
             \/ Assign(r, "defaults", "modes")
             \/ Assign(r, "modes", "keys")
             \/ Assign(r, "keys", "idle")

----------------------------------------------------------------------------
(* price_for                                                               *)
Goto(h, l) == /\ pc' = [pc EXCEPT ![h] = l]
              /\ price' = [price EXCEPT ![h] = Idle]
              /\ UNCHANGED <<disk, tables, rpc, rfile>>

Return(h, p) == /\ pc' = [pc EXCEPT ![h] = "idle"]
                /\ price' = [price EXCEPT ![h] = p]
                /\ UNCHANGED <<disk, tables, rpc, rfile>>

(* The overrides belong to the request: nobody else assigns them.          *)
Begin(h) ==
    /\ pc[h] = "idle"
    /\ \E o \in OverrideSets :
          /\ ov' = [ov EXCEPT ![h] = o]
          /\ IF Pick(o) # None THEN Return(h, AsInt(Pick(o))) ELSE Goto(h, "keys")
    /\ quiet' = [quiet EXCEPT ![h] = TRUE]

KeysThenType(h) ==        \* mutant: the task type is looked up before the mode
    /\ pc[h] = "keys"
    /\ IF Pick(tables.keys) # None THEN Return(h, AsInt(Pick(tables.keys)))
       ELSE IF tables.defaults # None THEN Return(h, AsInt(tables.defaults))
       ELSE Goto(h, "modes")
    /\ UNCHANGED <<ov, quiet>>

ReadKeys(h) ==
    /\ pc[h] = "keys"
    /\ IF Pick(tables.keys) # None THEN Return(h, AsInt(Pick(tables.keys)))
                                   ELSE Goto(h, "modes")
    /\ UNCHANGED <<ov, quiet>>

(* "mode in self._modes", then self._modes[mode].                          *)
FindMode(h) ==
    /\ pc[h] = "modes"
    /\ Goto(h, IF tables.modes # None THEN "mode" ELSE "defaults")
    /\ UNCHANGED <<ov, quiet>>

ReadMode(h) ==
    /\ pc[h] = "mode"
    /\ Return(h, IF tables.modes # None THEN AsInt(tables.modes) ELSE KeyError)
    /\ UNCHANGED <<ov, quiet>>

FindType(h) ==
    /\ pc[h] = "defaults"
    /\ IF tables.defaults # None THEN Goto(h, "type") ELSE Return(h, Refused)
    /\ UNCHANGED <<ov, quiet>>

ReadType(h) ==
    /\ pc[h] = "type"
    /\ Return(h, IF tables.defaults # None THEN AsInt(tables.defaults) ELSE KeyError)
    /\ UNCHANGED <<ov, quiet>>

PriceFor(h) == \/ Begin(h) \/ ReadKeys(h) \/ FindMode(h) \/ ReadMode(h)
               \/ FindType(h) \/ ReadType(h)

Next == Edit \/ (\E r \in Reloaders : Reload(r)) \/ (\E h \in Handlers : PriceFor(h))

Spec == Init /\ [][Next]_vars
----------------------------------------------------------------------------
(* Every variable keeps its type.                                          *)
TypeOK ==
    /\ disk \in Files \cup {Empty}
    /\ tables \in Tables
    /\ rpc \in [Reloaders -> {"idle", "defaults", "modes", "keys"}]
    /\ rfile \in [Reloaders -> Files \cup {Empty}]
    /\ pc \in [Handlers -> {"idle", "keys", "modes", "mode", "defaults", "type"}]
    /\ ov \in [Handlers -> OverrideSets \cup {NoOverrides}]
    /\ price \in [Handlers -> Int \cup {Refused, KeyError, Idle}]
    /\ quiet \in [Handlers -> BOOLEAN]

(* The documented priority: the first entry that is there decides, even    *)
(* when its value is refused.                                              *)
Layers(o, t) == <<o.mode, o.type, t.keys.mode, t.keys.type, t.modes, t.defaults>>
Decides(i, o, t) == /\ Layers(o, t)[i] # None
                    /\ \A j \in 1..(i - 1) : Layers(o, t)[j] = None
Reference(p, o, t) == IF \A i \in 1..6 : Layers(o, t)[i] = None
                      THEN p = Refused
                      ELSE \E i \in 1..6 : Decides(i, o, t) /\ p = AsInt(Layers(o, t)[i])

(* A price computed while no table is assigned is the one the documented   *)
(* priority gives, and an unpriced mode is refused, not failed.            *)
PriceIsReference ==
    \A h \in Handlers : pc[h] = "idle" /\ quiet[h] /\ price[h] # Idle
        => Reference(price[h], ov[h], tables)

(* Never free, and never made up: whatever is assigned meanwhile, a price  *)
(* is positive and is what the overrides or some version of the file say   *)
(* of this mode, type or key.                                              *)
Said(o) == {Layers(o, t)[i] : t \in Files, i \in 1..6} \cup {o.mode, o.type}
Configured ==
    \A h \in Handlers : price[h] \in Int =>
        price[h] > 0 /\ \E v \in Said(ov[h]) \ {None} : price[h] = AsInt(v)
=============================================================================
