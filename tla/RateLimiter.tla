----------------------------- MODULE RateLimiter -----------------------------
(***************************************************************************)
(* The rate limiter (app/services/rate_limiter.py).  Each request is       *)
(* counted under its API key, its user and its IP address, in this order;  *)
(* a counter in Redis lives for one fixed window, whose number is part of  *)
(* its name.  INCR and EXPIRE are one transaction; the three scopes are    *)
(* three, and requests of several API replicas interleave between them.    *)
(* Which requests get here is in Admission.  Time is counted in ticks as   *)
(* short as one likes: a window of the code is Window of them.             *)
(***************************************************************************)
EXTENDS Integers, Sequences, FiniteSets, Functions

CONSTANTS Handlers,      \* threads of all API replicas
          Ids,           \* identifiers counted: keys, users, addresses
          Chains,        \* the identifiers of a request, in the order they are counted
          Limit,         \* RATE_LIMIT_PER_API_KEY, _PER_USER, _PER_IP
          Window,        \* RATE_LIMIT_WINDOW_SECONDS, in ticks
          MaxLag,        \* bound: by how many ticks a replica's clock may be behind
                         \* the first one, and its call to Redis come later still
          MaxClock,      \* bound: the last tick
          MaxRequests    \* bound: requests in all

ASSUME RateAssumption ==
    /\ IsFiniteSet(Handlers)
    /\ Chains \subseteq Seq(Ids) /\ \A c \in Chains : IsInjective(c)
    /\ Limit \in [Ids -> Nat \ {0}]
    /\ Window \in Nat \ {0}
    /\ MaxLag \in Nat /\ MaxClock \in Nat /\ MaxRequests \in Nat

VARIABLES clock,         \* the time of the replica that is ahead, in ticks; Redis
                         \* reckons with durations only
          counter,       \* ratelimit:<scope>:<id>:<bucket>
          expiry,        \* when that key expires
          chain,         \* the identifiers of a handler's request not yet counted
          requests,      \* how many requests there have been
          hits,          \* history: how often each identifier was counted in each tick
          passed,        \* history: how often it was within its limit, in each
                         \* window and tick
          refused        \* history: the refusals, by identifier and tick

limiterVars == <<clock, counter, expiry, chain, requests, hits, passed, refused>>

Ticks == 0..MaxClock
Buckets == 0..(MaxClock \div Window)

LimiterInit ==
        /\ clock = 0
        /\ counter = [id \in Ids |-> [b \in Buckets |-> 0]]
        /\ expiry = [id \in Ids |-> [b \in Buckets |-> 0]]
        /\ chain = [h \in Handlers |-> <<>>]
        /\ requests = 0
        /\ hits = [id \in Ids |-> [s \in Ticks |-> 0]]
        /\ passed = [id \in Ids |-> [b \in Buckets |-> [s \in Ticks |-> 0]]]
        /\ refused = {}

Tick == /\ clock < MaxClock
        /\ clock' = clock + 1
        /\ UNCHANGED <<counter, expiry, chain, requests, hits, passed, refused>>

(* A request reaches enforce with the identifiers it has.                  *)
Arrive(h, c) == chain' = [chain EXCEPT ![h] = c]

(* The window by the replica's clock, and the value INCR returns.          *)
OneBucket(lag) == 0                    \* mutant: no window in the key's name
Bucket(lag) == (clock - lag) \div Window
Incremented(id, b) == (IF clock < expiry[id][b] THEN counter[id][b] ELSE 0) + 1

OverByOne(id, n) == n > Limit[id] + 1  \* mutant: the limit itself plus one passes
Over(id, n) == n > Limit[id]

TtlMillis == 1000 * Window             \* mutant: the time to live in milliseconds
Ttl == Window

(* _hit: count, keep the key for a window more, refuse if over the limit.  *)
Hit(h) ==
    /\ chain[h] # <<>>
    /\ \E lag \in 0..MaxLag :
         /\ lag <= clock
         /\ LET id == Head(chain[h])
                b == Bucket(lag)
                n == Incremented(id, b)
            IN  /\ counter' = [counter EXCEPT ![id][b] = n]
                /\ expiry' = [expiry EXCEPT ![id][b] = clock + Ttl]
                /\ hits' = [hits EXCEPT ![id][clock] = @ + 1]
                /\ \/ /\ Over(id, n)
                      /\ refused' = refused \cup {<<id, clock>>}
                      /\ chain' = [chain EXCEPT ![h] = <<>>]
                      /\ UNCHANGED passed
                   \/ /\ ~Over(id, n)
                      /\ passed' = [passed EXCEPT ![id][b][clock] = @ + 1]
                      /\ chain' = [chain EXCEPT ![h] = Tail(@)]
                      /\ UNCHANGED refused
    /\ UNCHANGED <<clock, requests>>

----------------------------------------------------------------------------
LimiterTypeOK ==
    /\ clock \in Ticks
    /\ counter \in [Ids -> [Buckets -> 0..MaxRequests]]
    /\ expiry \in [Ids -> [Buckets -> 0..(MaxClock + Window)]]
    /\ chain \in [Handlers -> Seq(Ids)]
    /\ requests \in 0..MaxRequests
    /\ hits \in [Ids -> [Ticks -> Nat]]
    /\ passed \in [Ids -> [Buckets -> [Ticks -> Nat]]]
    /\ refused \subseteq (Ids \X Ticks)

Count(f, from, to) == SumFunctionOnSet(f, (from..to) \cap Ticks)
Passed(id, from, to) ==
    SumFunctionOnSet([b \in Buckets |-> Count(passed[id][b], from, to)], Buckets)

(* Fixed windows keep this much of a limit: at no moment has an identifier *)
(* passed more than twice its limit within the last window less the lag,   *)
(* although counters are shared by replicas whose clocks differ and a key  *)
(* may expire while a late call still counts in it.  Within a whole window *)
(* three limits may pass: calls that are late for one, the next, and those *)
(* of the first tick of a third.                                           *)
TwiceAtMost ==
    \A id \in Ids : Passed(id, clock - (Window - MaxLag) + 1, clock) <= 2 * Limit[id]

(* Nobody is refused for old traffic: at a refusal, the identifier has     *)
(* been counted more often than its limit within the last window and the   *)
(* lag.                                                                    *)
RefusedForRecent ==
    \A r \in refused :
        Count(hits[r[1]], r[2] - Window - MaxLag + 1, r[2]) > Limit[r[1]]
=============================================================================
