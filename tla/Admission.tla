------------------------------- MODULE Admission -------------------------------
(***************************************************************************)
(* What a request passes before its handler works (app/api/deps.py): its   *)
(* API key is looked up and must be active and not expired, then the rate  *)
(* limiter counts it.  A replica that finds a key expired by its own clock *)
(* writes this into the row, in a later statement that does not look at    *)
(* what has become of the row since, while administrators edit it.         *)
(***************************************************************************)
EXTENDS RateLimiter

CONSTANTS Keys,          \* the identifiers that are API keys
          Dates,         \* values of expires_at; one after MaxClock is never
          MaxEdits,      \* bound: edits of keys by administrators
          NoKey

ASSUME AdmissionAssumption ==
    /\ Keys \subseteq Ids /\ NoKey \notin Keys
    /\ \A c \in Chains : c # <<>> /\ Head(c) \in Keys
    /\ Dates \subseteq Nat /\ Dates # {} /\ MaxEdits \in Nat

VARIABLES status,        \* api_keys.status
          expires,       \* api_keys.expires_at
          stale,         \* the key a handler is about to write as expired
          edits,
          shut,          \* history: keys answered as expired, or suspended,
                         \* since they were last renewed
          outrun         \* history: keys renewed while a handler was about to
                         \* write them as expired

keyVars == <<status, expires, stale, edits, shut, outrun>>
vars == <<limiterVars, keyVars>>

Init == /\ LimiterInit
        /\ status = [k \in Keys |-> "active"]
        /\ expires \in [Keys -> Dates]
        /\ stale = [h \in Handlers |-> NoKey]
        /\ edits = 0 /\ shut = {} /\ outrun = {}

----------------------------------------------------------------------------
(* get_api_key                                                             *)
ExpiredToday(k, now) == expires[k] <= now  \* mutant: in its last tick
Expired(k, now) == expires[k] < now

(* A request with a key: one SELECT, compared with the replica's clock.    *)
GetKey(h) ==
    /\ chain[h] = <<>> /\ stale[h] = NoKey
    /\ requests < MaxRequests /\ requests' = requests + 1
    /\ \E c \in Chains, lag \in 0..MaxLag :
         LET k == Head(c) IN
         /\ lag <= clock
         /\ \/ status[k] # "active" /\ UNCHANGED <<chain, stale>>
            \/ /\ status[k] = "active" /\ Expired(k, clock - lag)
               /\ stale' = [stale EXCEPT ![h] = k] /\ UNCHANGED chain
            \/ /\ status[k] = "active" /\ ~Expired(k, clock - lag)
               /\ Arrive(h, c) /\ UNCHANGED stale
    /\ UNCHANGED <<clock, counter, expiry, hits, passed, refused,
                   status, expires, edits, shut, outrun>>

StatusKept(k) == status                    \* mutant: never committed
StatusSaved(k) == [status EXCEPT ![k] = "expired"]

(* UPDATE and COMMIT; the request is refused.  If they fail it is an error *)
(* and nothing is written.                                                 *)
SaveExpired(h) ==
    /\ stale[h] # NoKey
    /\ stale' = [stale EXCEPT ![h] = NoKey]
    /\ \/ status' = StatusSaved(stale[h]) /\ shut' = shut \cup {stale[h]}
       \/ UNCHANGED <<status, shut>>
    /\ UNCHANGED <<limiterVars, expires, edits, outrun>>

----------------------------------------------------------------------------
(* Administrators edit the row of a key.                                   *)
Edit(k) == edits < MaxEdits /\ edits' = edits + 1 /\ UNCHANGED <<limiterVars, stale>>

Suspend(k) == /\ Edit(k)
              /\ status' = [status EXCEPT ![k] = "suspended"]
              /\ shut' = shut \cup {k}
              /\ UNCHANGED <<expires, outrun>>

Renew(k) == /\ Edit(k)
            /\ status' = [status EXCEPT ![k] = "active"]
            /\ \E d \in Dates : expires' = [expires EXCEPT ![k] = d]
            /\ shut' = shut \ {k}
            /\ outrun' = IF \E h \in Handlers : stale[h] = k
                         THEN outrun \cup {k} ELSE outrun \ {k}

Next == \/ \E h \in Handlers : GetKey(h) \/ SaveExpired(h) \/ (Hit(h) /\ UNCHANGED keyVars)
        \/ \E k \in Keys : Suspend(k) \/ Renew(k)
        \/ Tick /\ UNCHANGED keyVars

Spec == Init /\ [][Next]_vars
----------------------------------------------------------------------------
(* Every variable keeps its type.                                          *)
TypeOK ==
    /\ LimiterTypeOK
    /\ status \in [Keys -> {"active", "suspended", "expired"}]
    /\ expires \in [Keys -> Dates]
    /\ stale \in [Handlers -> Keys \cup {NoKey}]
    /\ edits \in 0..MaxEdits
    /\ shut \subseteq Keys /\ outrun \subseteq Keys

(* A key that is suspended, or with which one request was answered as      *)
(* expired, admits no other request until it is renewed, although the      *)
(* clocks of the replicas differ and a late write may replace the status.  *)
ShutStaysShut ==
    [][\A h \in Handlers : chain[h] = <<>> /\ chain'[h] # <<>> =>
          Head(chain'[h]) \notin shut]_vars

(* A key is shown as expired only after its date, unless it was renewed    *)
(* while a request that had read the old row was about to write.           *)
ExpiredForCause ==
    \A k \in Keys : status[k] = "expired" => expires[k] < clock \/ k \in outrun
=============================================================================
