---------------------------- MODULE AdmissionProofs ----------------------------
(***************************************************************************)
(* Proofs about modules RateLimiter and Admission, for any finite set of   *)
(* handlers, any keys, limits, window and dates.                           *)
(***************************************************************************)
EXTENDS Admission, Sums

(* What holds of the types without counting the requests.                  *)
TypeInv ==
    /\ clock \in Ticks
    /\ counter \in [Ids -> [Buckets -> Nat]]
    /\ expiry \in [Ids -> [Buckets -> 0..(MaxClock + Window)]]
    /\ chain \in [Handlers -> Seq(Ids)]
    /\ requests \in 0..MaxRequests
    /\ hits \in [Ids -> [Ticks -> Nat]]
    /\ passed \in [Ids -> [Buckets -> [Ticks -> Nat]]]
    /\ refused \subseteq (Ids \X Ticks)
    /\ status \in [Keys -> {"active", "suspended", "expired"}]
    /\ expires \in [Keys -> Dates]
    /\ stale \in [Handlers -> Keys \cup {NoKey}]
    /\ edits \in 0..MaxEdits
    /\ shut \subseteq Keys /\ outrun \subseteq Keys

----------------------------------------------------------------------------
(* Where windows begin and end.                                            *)
Begins(b) == b * Window

(* A second lies in the window it is divided into.                         *)
LEMMA InWindow ==
  ASSUME NEW t \in Nat
  PROVE  /\ t \div Window \in Nat /\ Begins(t \div Window) \in Nat
         /\ Begins(t \div Window) <= t /\ t < Begins(t \div Window) + Window
BY RateAssumption DEF Begins

(* Windows follow each other.                                              *)
LEMMA WindowsInOrder ==
  ASSUME NEW a \in Nat, NEW b \in Nat, a < b
  PROVE  Begins(a) + Window <= Begins(b) /\ Begins(a) \in Nat /\ Begins(b) \in Nat
<1>1. PICK d \in Nat : b = a + 1 + d
  <2>1. b - a - 1 \in Nat /\ b = a + 1 + (b - a - 1)
    OBVIOUS
  <2> QED BY <2>1
<1>2. (a + 1 + d) * Window = a * Window + Window + d * Window
  BY RateAssumption
<1>3. a * Window \in Nat /\ d * Window \in Nat
  BY RateAssumption
<1> QED BY <1>1, <1>2, <1>3, RateAssumption DEF Begins

(* Every second of the clock, also as a replica that is late sees it, has  *)
(* a window.                                                               *)
LEMMA HasBucket ==
  ASSUME TypeInv, NEW lag \in 0..MaxLag, lag <= clock
  PROVE  /\ Bucket(lag) \in Buckets /\ Bucket(lag) \in Nat
         /\ Begins(Bucket(lag)) <= clock /\ clock < Begins(Bucket(lag)) + Window + MaxLag
<1>1. clock - lag \in Nat /\ MaxClock \in Nat /\ clock - lag <= MaxClock
  BY RateAssumption DEF TypeInv, Ticks
<1>2. /\ Bucket(lag) \in Nat /\ Begins(Bucket(lag)) \in Nat
      /\ Begins(Bucket(lag)) <= clock - lag
      /\ clock - lag < Begins(Bucket(lag)) + Window
  BY <1>1, InWindow DEF Bucket
<1>3. /\ MaxClock \div Window \in Nat /\ Begins(MaxClock \div Window) \in Nat
      /\ MaxClock < Begins(MaxClock \div Window) + Window
  BY <1>1, InWindow
<1>4. ~ MaxClock \div Window < Bucket(lag)
  <2> SUFFICES ASSUME MaxClock \div Window < Bucket(lag) PROVE FALSE
    OBVIOUS
  <2>1. Begins(MaxClock \div Window) + Window <= Begins(Bucket(lag))
    BY <1>2, <1>3, WindowsInOrder
  <2> QED BY <1>1, <1>2, <1>3, <2>1, RateAssumption
<1>5. Bucket(lag) \in Buckets
  BY <1>2, <1>3, <1>4 DEF Buckets
<1> QED BY <1>1, <1>2, <1>5, RateAssumption DEF TypeInv, Ticks

----------------------------------------------------------------------------
(* The chain of a request that goes on.                                    *)
LEMMA ChainGoesOn ==
  ASSUME NEW c \in Seq(Ids), c # <<>>, IsInjective(c)
  PROVE  /\ Head(c) \in Ids /\ Head(c) \in Range(c)
         /\ Tail(c) \in Seq(Ids) /\ IsInjective(Tail(c))
         /\ Range(Tail(c)) = Range(c) \ {Head(c)}
<1>1. /\ Len(c) \in Nat \ {0} /\ c \in [1..Len(c) -> Ids] /\ Head(c) = c[1]
      /\ Tail(c) \in Seq(Ids) /\ Len(Tail(c)) = Len(c) - 1
      /\ \A i \in 1..(Len(c) - 1) : Tail(c)[i] = c[i + 1]
  OBVIOUS
<1>2. DOMAIN Tail(c) = 1..(Len(c) - 1) /\ DOMAIN c = 1..Len(c)
  BY <1>1
<1>3. IsInjective(Tail(c))
  BY <1>1, <1>2 DEF IsInjective
<1>4. ASSUME NEW x \in Range(Tail(c)) PROVE x \in Range(c) /\ x # Head(c)
  BY <1>1, <1>2, <1>4 DEF IsInjective, Range
<1>5. ASSUME NEW x \in Range(c), x # Head(c) PROVE x \in Range(Tail(c))
  <2>1. PICK i \in 1..Len(c) : x = c[i]
    BY <1>2, <1>5 DEF Range
  <2>2. i - 1 \in 1..(Len(c) - 1) /\ Tail(c)[i - 1] = c[i]
    BY <1>1, <1>5, <2>1
  <2> QED BY <1>2, <2>1, <2>2 DEF Range
<1>6. Head(c) \in Ids /\ Head(c) \in Range(c)
  BY <1>1, <1>2 DEF Range
<1>7. Range(Tail(c)) = Range(c) \ {Head(c)}
  BY <1>4, <1>5
<1> QED BY <1>1, <1>3, <1>6, <1>7

(* Handler h counts its request under id in window b.                      *)
Counts(h, id, b) ==
    LET n == Incremented(id, b) IN
    /\ counter' = [counter EXCEPT ![id] = [counter[id] EXCEPT ![b] = n]]
    /\ expiry' = [expiry EXCEPT ![id] = [expiry[id] EXCEPT ![b] = clock + Window]]
    /\ hits' = [hits EXCEPT ![id] = [hits[id] EXCEPT ![clock] = hits[id][clock] + 1]]
    /\ \/ /\ n > Limit[id]
          /\ refused' = refused \cup {<<id, clock>>}
          /\ chain' = [chain EXCEPT ![h] = <<>>]
          /\ UNCHANGED passed
       \/ /\ ~ n > Limit[id]
          /\ passed' = [passed EXCEPT ![id] = [passed[id] EXCEPT ![b] =
                             [passed[id][b] EXCEPT ![clock] = passed[id][b][clock] + 1]]]
          /\ chain' = [chain EXCEPT ![h] = Tail(chain[h])]
          /\ UNCHANGED refused

LEMMA HitCounts ==
  ASSUME NEW h \in Handlers, Hit(h)
  PROVE  /\ chain[h] # <<>> /\ UNCHANGED <<clock, requests>>
         /\ \E lag \in 0..MaxLag : lag <= clock /\ Counts(h, Head(chain[h]), Bucket(lag))
BY DEF Hit, Counts, Over, Ttl

(* TypeInv is inductive.                                                   *)
LEMMA TypeInvHolds == Spec => []TypeInv
<1> USE RateAssumption, AdmissionAssumption
<1>1. Init => TypeInv
  <2> SUFFICES ASSUME Init PROVE TypeInv
    OBVIOUS
  <2>1. /\ clock \in Ticks /\ requests \in 0..MaxRequests
        /\ expiry \in [Ids -> [Buckets -> 0..(MaxClock + Window)]]
    BY DEF Init, LimiterInit, Ticks
  <2>2. /\ counter \in [Ids -> [Buckets -> Nat]]
        /\ hits \in [Ids -> [Ticks -> Nat]]
        /\ passed \in [Ids -> [Buckets -> [Ticks -> Nat]]]
    BY DEF Init, LimiterInit
  <2>3. chain \in [Handlers -> Seq(Ids)]
    BY DEF Init, LimiterInit
  <2> QED BY <2>1, <2>2, <2>3 DEF Init, LimiterInit, TypeInv
<1>2. TypeInv /\ [Next]_vars => TypeInv'
  <2> SUFFICES ASSUME TypeInv, [Next]_vars PROVE TypeInv'
    OBVIOUS
  <2>1. ASSUME NEW h \in Handlers, GetKey(h) PROVE TypeInv'
    <3>1. PICK c \in Chains : \/ UNCHANGED <<chain, stale>>
                              \/ stale' = [stale EXCEPT ![h] = Head(c)] /\ UNCHANGED chain
                              \/ chain' = [chain EXCEPT ![h] = c] /\ UNCHANGED stale
      BY <2>1 DEF GetKey, Arrive
    <3>2. c \in Seq(Ids) /\ Head(c) \in Keys
      OBVIOUS
    <3>3. chain' \in [Handlers -> Seq(Ids)] /\ stale' \in [Handlers -> Keys \cup {NoKey}]
      BY <3>1, <3>2 DEF TypeInv
    <3>4. requests' \in 0..MaxRequests
      <4>1. requests < MaxRequests /\ requests' = requests + 1
        BY <2>1 DEF GetKey
      <4> QED BY <4>1 DEF TypeInv
    <3> QED BY <2>1, <3>3, <3>4 DEF GetKey, TypeInv
  <2>2. ASSUME NEW h \in Handlers, SaveExpired(h) PROVE TypeInv'
    <3>1. UNCHANGED <<limiterVars, chain, expires, edits, outrun>>
      BY <2>2 DEF SaveExpired, limiterVars
    <3>2. status' \in [Keys -> {"active", "suspended", "expired"}]
      BY <2>2 DEF SaveExpired, StatusSaved, TypeInv
    <3>3. stale' \in [Handlers -> Keys \cup {NoKey}]
      BY <2>2 DEF SaveExpired, TypeInv
    <3>4. shut' \subseteq Keys
      BY <2>2 DEF SaveExpired, TypeInv
    <3> QED BY <3>1, <3>2, <3>3, <3>4 DEF limiterVars, TypeInv
  <2>3. ASSUME NEW h \in Handlers, Hit(h), UNCHANGED keyVars PROVE TypeInv'
    <3>1. PICK lag \in 0..MaxLag :
            lag <= clock /\ Counts(h, Head(chain[h]), Bucket(lag))
      BY <2>3, HitCounts
    <3> DEFINE id == Head(chain[h])
               b == Bucket(lag)
    <3>2. id \in Ids /\ b \in Buckets /\ clock \in Ticks /\ Tail(chain[h]) \in Seq(Ids)
      <4>1. chain[h] # <<>> /\ chain[h] \in Seq(Ids)
        BY <2>3 DEF Hit, TypeInv
      <4>2. b \in Buckets
        BY <3>1, HasBucket
      <4> QED BY <4>1, <4>2 DEF TypeInv
    <3>0. Counts(h, id, b)
      BY <3>1
    <3> HIDE DEF id, b
    <3>3. counter' \in [Ids -> [Buckets -> Nat]]
      <4>0. counter[id][b] \in Nat
        BY <3>2 DEF TypeInv
      <4>1. Incremented(id, b) \in Nat
        BY <4>0 DEF Incremented
      <4>2. [counter[id] EXCEPT ![b] = Incremented(id, b)] \in [Buckets -> Nat]
        BY <3>2, <4>1 DEF TypeInv
      <4> QED BY <3>0, <3>2, <4>2 DEF Counts, TypeInv
    <3>4. expiry' \in [Ids -> [Buckets -> 0..(MaxClock + Window)]]
      <4>1. clock + Window \in 0..(MaxClock + Window)
        BY <3>2 DEF Ticks
      <4>2. [expiry[id] EXCEPT ![b] = clock + Window] \in [Buckets -> 0..(MaxClock + Window)]
        BY <3>2, <4>1 DEF TypeInv
      <4> HIDE RateAssumption
      <4> QED BY <3>0, <3>2, <4>2 DEF Counts, TypeInv
    <3>5. hits' \in [Ids -> [Ticks -> Nat]]
      <4>0. hits[id] \in [Ticks -> Nat]
        BY <3>2 DEF TypeInv
      <4>1. [hits[id] EXCEPT ![clock] = hits[id][clock] + 1] \in [Ticks -> Nat]
        BY <3>2, <4>0
      <4> QED BY <3>0, <3>2, <4>1 DEF Counts, TypeInv
    <3>6. passed' \in [Ids -> [Buckets -> [Ticks -> Nat]]]
      <4> DEFINE F == [Ticks -> Nat]
      <4>a. passed \in [Ids -> [Buckets -> F]]
        BY DEF TypeInv
      <4>b. id \in Ids /\ b \in Buckets
        BY <3>2
      <4> HIDE DEF F
      <4>c. passed[id] \in [Buckets -> F]
        BY <4>a, <4>b
      <4>d. passed[id][b] \in F
        BY <4>b, <4>c
      <4> USE DEF F
      <4>0. passed[id] \in [Buckets -> [Ticks -> Nat]] /\ passed[id][b] \in [Ticks -> Nat]
        BY <4>c, <4>d
      <4>1. [passed[id][b] EXCEPT ![clock] = passed[id][b][clock] + 1] \in [Ticks -> Nat]
        BY <3>2, <4>0
      <4>2. [passed[id] EXCEPT ![b] = [passed[id][b] EXCEPT ![clock] = passed[id][b][clock] + 1]]
              \in [Buckets -> [Ticks -> Nat]]
        BY <3>2, <4>1 DEF TypeInv
      <4> DEFINE G == [Buckets -> [Ticks -> Nat]]
                 g == [passed[id] EXCEPT ![b] =
                         [passed[id][b] EXCEPT ![clock] = passed[id][b][clock] + 1]]
      <4>3. passed' = passed \/ passed' = [passed EXCEPT ![id] = g]
        BY <3>0 DEF Counts
      <4>4. passed \in [Ids -> G] /\ id \in Ids /\ g \in G
        BY <3>2, <4>2 DEF TypeInv
      <4> HIDE DEF F, G, g
      <4>5. passed' \in [Ids -> G]
        BY <4>3, <4>4
      <4> QED BY <4>5 DEF G
    <3>7. chain' \in [Handlers -> Seq(Ids)] /\ refused' \subseteq (Ids \X Ticks)
      <4>1. refused' = refused \/ refused' = refused \cup {<<id, clock>>}
        BY <3>0 DEF Counts
      <4>2. <<>> \in Seq(Ids)
        OBVIOUS
      <4>3. \E c \in Seq(Ids) : chain' = [chain EXCEPT ![h] = c]
        BY <3>0, <3>2, <4>2 DEF Counts
      <4> QED BY <3>2, <4>1, <4>3, SMTT(30) DEF TypeInv
    <3> QED BY <2>3, <3>3, <3>4, <3>5, <3>6, <3>7 DEF Hit, keyVars, TypeInv
  <2>4. ASSUME NEW k \in Keys, Suspend(k) \/ Renew(k) PROVE TypeInv'
    <3>1. edits' \in 0..MaxEdits
      BY <2>4 DEF Suspend, Renew, Edit, TypeInv
    <3>2. status' \in [Keys -> {"active", "suspended", "expired"}]
      BY <2>4 DEF Suspend, Renew, TypeInv
    <3>3. expires' \in [Keys -> Dates]
      <4>1. CASE Suspend(k)
        BY <4>1 DEF Suspend, TypeInv
      <4>2. CASE Renew(k)
        BY <4>2 DEF Renew, TypeInv
      <4> QED BY <2>4, <4>1, <4>2
    <3>4. shut' \subseteq Keys /\ outrun' \subseteq Keys
      <4>1. CASE Suspend(k)
        BY <4>1 DEF Suspend, TypeInv
      <4>2. CASE Renew(k)
        BY <4>2 DEF Renew, TypeInv
      <4> QED BY <2>4, <4>1, <4>2
    <3>5. UNCHANGED <<limiterVars, stale>>
      BY <2>4 DEF Suspend, Renew, Edit
    <3> QED BY <3>1, <3>2, <3>3, <3>4, <3>5 DEF limiterVars, TypeInv
  <2>5. CASE Tick /\ UNCHANGED keyVars
    BY <2>5 DEF Tick, keyVars, TypeInv, Ticks
  <2>6. CASE UNCHANGED vars
    BY <2>6 DEF vars, limiterVars, keyVars, TypeInv
  <2> QED BY <2>1, <2>2, <2>3, <2>4, <2>5, <2>6 DEF Next
<1> QED BY <1>1, <1>2, PTL DEF Spec

----------------------------------------------------------------------------
(* The requests that are still to be counted under an identifier.          *)
Pending(id) == {h \in Handlers : id \in Range(chain[h])}

(* A counter and the requests still to come are no more than there are     *)
(* requests, for none is counted twice.                                    *)
Counted(id) == \A b \in Buckets : counter[id][b] + Cardinality(Pending(id)) <= requests
CountInv == /\ \A h \in Handlers : IsInjective(chain[h])
            /\ \A id \in Ids : Counted(id)

LEMMA PendingFinite ==
  ASSUME NEW S \in SUBSET Handlers, NEW h, h \in Handlers
  PROVE  /\ IsFiniteSet(S) /\ Cardinality(S) \in Nat
         /\ Cardinality(S \cup {h}) \in Nat /\ Cardinality(S \cup {h}) <= Cardinality(S) + 1
         /\ h \in S => Cardinality(S \ {h}) \in Nat /\ Cardinality(S \ {h}) = Cardinality(S) - 1
         /\ \A T \in SUBSET S : Cardinality(T) \in Nat /\ Cardinality(T) <= Cardinality(S)
<1>1. IsFiniteSet(S)
  BY FS_Subset, RateAssumption
<1>2. IsFiniteSet(S \cup {h}) /\ (Cardinality(S \cup {h}) = Cardinality(S) \/ Cardinality(S \cup {h}) = Cardinality(S) + 1)
  BY <1>1, FS_AddElement
<1>3. Cardinality(S) \in Nat /\ Cardinality(S \cup {h}) \in Nat
  BY <1>1, <1>2, FS_CardinalityType
<1>4. h \in S => IsFiniteSet(S \ {h}) /\ Cardinality(S \ {h}) = Cardinality(S) - 1
  BY <1>1, FS_RemoveElement
<1>5. \A T \in SUBSET S : IsFiniteSet(T) /\ Cardinality(T) <= Cardinality(S)
  BY <1>1, FS_Subset
<1> QED BY <1>1, <1>2, <1>3, <1>4, <1>5, FS_CardinalityType

(* TypeOK: with CountInv no counter exceeds MaxRequests.                   *)
THEOREM TypeCorrect == Spec => []TypeOK
<1> USE RateAssumption
<1>0. Range(<<>>) = {} /\ IsInjective(<<>>)
  BY DEF Range, IsInjective
<1>1. Init => CountInv
  <2> SUFFICES ASSUME Init PROVE CountInv
    OBVIOUS
  <2>1. \A h \in Handlers : chain[h] = <<>>
    BY DEF Init, LimiterInit
  <2>2. \A id \in Ids : Pending(id) = {}
    BY <1>0, <2>1 DEF Pending
  <2>3. Cardinality({}) = 0
    BY FS_EmptySet
  <2>4. requests = 0 /\ \A id \in Ids, b \in Buckets : counter[id][b] = 0
    BY DEF Init, LimiterInit
  <2>5. ASSUME NEW id \in Ids PROVE Counted(id)
    <3>1. Cardinality(Pending(id)) = 0
      BY <2>2, <2>3
    <3> QED BY <2>4, <3>1 DEF Counted
  <2> QED BY <1>0, <2>1, <2>5 DEF CountInv
<1>2. TypeInv /\ CountInv /\ [Next]_vars => CountInv'
  <2> SUFFICES ASSUME TypeInv, CountInv, [Next]_vars PROVE CountInv'
    OBVIOUS
  <2>1. ASSUME NEW h \in Handlers, GetKey(h) PROVE CountInv'
    <3>1. PICK c \in Chains : UNCHANGED chain \/ chain' = [chain EXCEPT ![h] = c]
      BY <2>1 DEF GetKey, Arrive
    <3>2. requests' = requests + 1 /\ UNCHANGED counter
      BY <2>1 DEF GetKey
    <3>3. \A i \in Handlers : IsInjective(chain'[i])
      BY <3>1 DEF CountInv, TypeInv
    <3>4. ASSUME NEW id \in Ids PROVE Counted(id)'
      <4> DEFINE P == Pending(id)
      <4>1. P \in SUBSET Handlers /\ Pending(id)' \in SUBSET (P \cup {h})
        BY <3>1 DEF Pending, TypeInv
      <4> HIDE DEF P
      <4>2. P \cup {h} \in SUBSET Handlers
        BY <4>1
      <4>3. Cardinality(Pending(id)') \in Nat /\ Cardinality(P) \in Nat
            /\ Cardinality(Pending(id)') <= Cardinality(P) + 1
        <5>1. Cardinality(P) \in Nat /\ Cardinality(P \cup {h}) <= Cardinality(P) + 1
              /\ Cardinality(P \cup {h}) \in Nat
          BY <4>1, PendingFinite
        <5> DEFINE R == P \cup {h}
        <5> HIDE DEF R
        <5>2. R \in SUBSET Handlers /\ Pending(id)' \in SUBSET R
          BY <4>1, <4>2 DEF R
        <5>3. Cardinality(Pending(id)') \in Nat /\ Cardinality(Pending(id)') <= Cardinality(R)
          BY <5>2, PendingFinite
        <5> QED BY <5>1, <5>3 DEF R
      <4>4. \A b \in Buckets : counter[id][b] + Cardinality(P) <= requests /\ counter[id][b] \in Nat
        BY DEF CountInv, Counted, TypeInv, P
      <4>5. requests \in Nat
        BY DEF TypeInv
      <4> QED BY <3>2, <4>3, <4>4, <4>5 DEF Counted
    <3> QED BY <3>3, <3>4 DEF CountInv
  <2>2. ASSUME NEW h \in Handlers, Hit(h) PROVE CountInv'
    <3>1. PICK lag \in 0..MaxLag : lag <= clock /\ Counts(h, Head(chain[h]), Bucket(lag))
      BY <2>2, HitCounts
    <3> DEFINE i == Head(chain[h])
               a == Bucket(lag)
    <3>2. /\ chain[h] # <<>> /\ chain[h] \in Seq(Ids) /\ IsInjective(chain[h])
          /\ UNCHANGED requests
      BY <2>2, HitCounts DEF TypeInv, CountInv
    <3>3. /\ i \in Ids /\ i \in Range(chain[h]) /\ a \in Buckets
          /\ IsInjective(Tail(chain[h]))
          /\ Range(Tail(chain[h])) = Range(chain[h]) \ {i}
      BY <3>1, <3>2, ChainGoesOn, HasBucket
    <3>0. Counts(h, i, a)
      BY <3>1
    <3> HIDE DEF i, a
    <3>4. \E c \in {<<>>, Tail(chain[h])} : chain' = [chain EXCEPT ![h] = c]
      BY <3>0 DEF Counts
    <3>5. /\ \A g \in Handlers : g # h => chain'[g] = chain[g]
          /\ IsInjective(chain'[h]) /\ Range(chain'[h]) \subseteq Range(chain[h]) \ {i}
      BY <1>0, <3>3, <3>4 DEF TypeInv
    <3>6. \A g \in Handlers : IsInjective(chain'[g])
      BY <3>5 DEF CountInv
    <3>7. ASSUME NEW id \in Ids PROVE Counted(id)'
      <4> DEFINE P == Pending(id)
      <4>1. P \in SUBSET Handlers /\ Pending(id)' \in SUBSET P
        BY <3>5 DEF Pending
      <4>2. \A b \in Buckets : counter[id][b] + Cardinality(P) <= requests /\ counter[id][b] \in Nat
        BY DEF CountInv, Counted, TypeInv
      <4>3. requests \in Nat
        BY DEF TypeInv
      <4>4. CASE id # i
        <5>1. counter'[id] = counter[id]
          BY <3>0, <4>4 DEF Counts, TypeInv
        <5>2. Cardinality(Pending(id)') \in Nat /\ Cardinality(P) \in Nat
              /\ Cardinality(Pending(id)') <= Cardinality(P)
          BY <4>1, PendingFinite
        <5> HIDE DEF P
        <5> QED BY <3>2, <4>2, <4>3, <5>1, <5>2 DEF Counted
      <4>5. CASE id = i
        <5>1. h \in P /\ Pending(id)' \in SUBSET (P \ {h})
          BY <3>3, <3>5, <4>1, <4>5 DEF Pending
        <5> HIDE DEF P
        <5>2. P \ {h} \in SUBSET Handlers
          BY <4>1
        <5>3. /\ Cardinality(P \ {h}) = Cardinality(P) - 1 /\ Cardinality(P) \in Nat
              /\ Cardinality(Pending(id)') \in Nat
              /\ Cardinality(Pending(id)') <= Cardinality(P \ {h})
          BY <4>1, <5>1, <5>2, PendingFinite
        <5>4. ASSUME NEW b \in Buckets PROVE counter'[id][b] <= counter[id][b] + 1
          <6>1. counter[id][b] \in Nat /\ counter[id] \in [Buckets -> Nat]
            BY <4>2 DEF TypeInv
          <6>2. counter'[id] = [counter[id] EXCEPT ![a] = Incremented(id, a)]
            BY <3>0, <4>5 DEF Counts, TypeInv
          <6>3. CASE b = a
            BY <6>1, <6>2, <6>3, <3>3 DEF Incremented
          <6>4. CASE b # a
            BY <6>1, <6>2, <6>4
          <6> QED BY <6>3, <6>4
        <5>5. \A b \in Buckets : counter'[id][b] \in Nat
          <6>1. counter[id] \in [Buckets -> Nat]
            BY DEF TypeInv
          <6>2. counter'[id] = [counter[id] EXCEPT ![a] = Incremented(id, a)]
            BY <3>0, <4>5 DEF Counts, TypeInv
          <6>3. Incremented(id, a) \in Nat
            BY <4>2, <3>3 DEF Incremented
          <6> QED BY <6>1, <6>2, <6>3
        <5>6. ASSUME NEW b \in Buckets
              PROVE  counter'[id][b] + Cardinality(Pending(id)') <= requests'
          <6>1. counter[id][b] + Cardinality(P) <= requests /\ counter[id][b] \in Nat
            BY <4>2
          <6>2. counter'[id][b] <= counter[id][b] + 1 /\ counter'[id][b] \in Nat
            BY <5>4, <5>5
          <6>3. requests' = requests /\ requests \in Nat
            BY <3>2, <4>3
          <6> DEFINE was == counter[id][b]
                     now == counter'[id][b]
                     left == Cardinality(Pending(id)')
          <6>4. /\ was \in Nat /\ now \in Nat /\ left \in Nat
                /\ Cardinality(P) \in Nat /\ requests \in Nat
                /\ was + Cardinality(P) <= requests /\ now <= was + 1
                /\ left + 1 <= Cardinality(P) /\ requests' = requests
            BY <5>3, <6>1, <6>2, <6>3
          <6> HIDE DEF was, now, left
          <6>5. now + left <= requests'
            BY <6>4
          <6> QED BY <6>5 DEF was, now, left
        <5> QED BY <5>6 DEF Counted
      <4> QED BY <4>4, <4>5
    <3> QED BY <3>6, <3>7 DEF CountInv
  <2>3. CASE UNCHANGED <<counter, chain, requests>>
    BY <2>3 DEF CountInv, Counted, Pending
  <2> QED BY <2>1, <2>2, <2>3 DEF Next, SaveExpired, Suspend, Renew, Edit, Tick, vars, limiterVars
<1>3. TypeInv /\ CountInv => TypeOK
  <2> SUFFICES ASSUME TypeInv, CountInv PROVE TypeOK
    OBVIOUS
  <2>1. ASSUME NEW id \in Ids, NEW b \in Buckets PROVE counter[id][b] \in 0..MaxRequests
    <3>1. Pending(id) \in SUBSET Handlers
      BY DEF Pending
    <3>2. Cardinality(Pending(id)) \in Nat
      BY <3>1, FS_Subset, FS_CardinalityType
    <3>3. counter[id][b] + Cardinality(Pending(id)) <= requests
      BY DEF CountInv, Counted
    <3>4. counter[id][b] \in Nat /\ requests \in 0..MaxRequests
      BY DEF TypeInv
    <3> QED BY <3>2, <3>3, <3>4
  <2>2. ASSUME NEW id \in Ids PROVE counter[id] \in [Buckets -> 0..MaxRequests]
    <3>1. counter[id] \in [Buckets -> Nat]
      BY DEF TypeInv
    <3> QED BY <2>1, <3>1
  <2>3. counter \in [Ids -> [Buckets -> 0..MaxRequests]]
    BY <2>2 DEF TypeInv
  <2> QED BY <2>3 DEF TypeInv, TypeOK, LimiterTypeOK
<1> QED BY <1>1, <1>2, <1>3, TypeInvHolds, PTL DEF Spec

----------------------------------------------------------------------------
(* A key that is shut is not active.                                       *)
ShutInv == \A k \in shut : status[k] # "active"

LEMMA ShutHolds == Spec => []ShutInv
<1>1. Init => ShutInv
  BY DEF Init, ShutInv
<1>2. TypeInv /\ ShutInv /\ [Next]_vars => ShutInv'
  <2> SUFFICES ASSUME TypeInv, ShutInv, [Next]_vars PROVE ShutInv'
    OBVIOUS
  <2>1. ASSUME NEW h \in Handlers, SaveExpired(h) PROVE ShutInv'
    BY <2>1 DEF SaveExpired, StatusSaved, ShutInv, TypeInv
  <2>2. ASSUME NEW k \in Keys, Suspend(k) \/ Renew(k) PROVE ShutInv'
    BY <2>2 DEF Suspend, Renew, ShutInv, TypeInv
  <2>3. CASE UNCHANGED <<status, shut>>
    BY <2>3 DEF ShutInv
  <2> QED BY <2>1, <2>2, <2>3 DEF Next, GetKey, Tick, keyVars, vars
<1> QED BY <1>1, <1>2, TypeInvHolds, PTL DEF Spec

(* ShutStaysShut: only GetKey lets a request begin, with the row it reads. *)
THEOREM ShutKeysStayShut == Spec => ShutStaysShut
<1>1. TypeInv /\ ShutInv /\ [Next]_vars =>
        [\A h \in Handlers : chain[h] = <<>> /\ chain'[h] # <<>> =>
           Head(chain'[h]) \notin shut]_vars
  <2> SUFFICES ASSUME TypeInv, ShutInv, Next, NEW i \in Handlers,
                      chain[i] = <<>>, chain'[i] # <<>>
               PROVE  Head(chain'[i]) \notin shut
    OBVIOUS
  <2>1. ASSUME NEW h \in Handlers, GetKey(h) PROVE Head(chain'[i]) \notin shut
    <3>1. PICK c \in Chains : status[Head(c)] = "active" /\ chain' = [chain EXCEPT ![h] = c]
      BY <2>1 DEF GetKey, Arrive
    <3>2. chain'[i] = c
      BY <3>1 DEF TypeInv
    <3> QED BY <3>1, <3>2 DEF ShutInv
  <2>2. ASSUME NEW h \in Handlers, Hit(h) PROVE FALSE
    <3>1. chain[h] # <<>> /\ \E c : chain' = [chain EXCEPT ![h] = c]
      BY <2>2 DEF Hit
    <3> QED BY <3>1 DEF TypeInv
  <2>3. CASE UNCHANGED chain
    BY <2>3
  <2> QED BY <2>1, <2>2, <2>3 DEF Next, SaveExpired, Suspend, Renew, Edit, Tick, limiterVars
<1> QED BY <1>1, TypeInvHolds, ShutHolds, PTL DEF Spec, ShutStaysShut

(* A handler about to write a key as expired has seen its date pass,       *)
(* unless the key was renewed meanwhile.                                   *)
ForCause(k) == expires[k] < clock \/ k \in outrun
CauseInv == /\ \A h \in Handlers : stale[h] # NoKey => ForCause(stale[h])
            /\ ExpiredForCause

(* ExpiredForCause: the clock only goes on, and a renewal that outruns a   *)
(* write is remembered.                                                    *)
THEOREM ExpiryHasCause == Spec => []ExpiredForCause
<1>1. Init => CauseInv
  BY DEF Init, CauseInv, ExpiredForCause
<1>2. TypeInv /\ CauseInv /\ [Next]_vars => CauseInv'
  <2> SUFFICES ASSUME TypeInv, CauseInv, [Next]_vars PROVE CauseInv'
    OBVIOUS
  <2>0. clock \in Int /\ \A k \in Keys : expires[k] \in Int
    <3>1. clock \in Int
      BY RateAssumption DEF TypeInv, Ticks
    <3>2. ASSUME NEW k \in Keys PROVE expires[k] \in Int
      <4>1. expires[k] \in Dates
        BY DEF TypeInv
      <4>2. expires[k] \in Nat
        BY <4>1, AdmissionAssumption
      <4> QED BY <4>2
    <3> QED BY <3>1, <3>2
  <2>1. ASSUME NEW h \in Handlers, GetKey(h) PROVE CauseInv'
    <3>1. UNCHANGED <<clock, status, expires, outrun>>
      BY <2>1 DEF GetKey
    <3>2. CASE UNCHANGED stale
      BY <3>1, <3>2 DEF CauseInv, ExpiredForCause, ForCause
    <3>3. CASE ~UNCHANGED stale
      <4>1. PICK c \in Chains, lag \in 0..MaxLag :
              stale' = [stale EXCEPT ![h] = Head(c)] /\ expires[Head(c)] < clock - lag
        BY <2>1, <3>3 DEF GetKey, Expired
      <4>2. Head(c) \in Keys
        BY AdmissionAssumption
      <4>3. ForCause(Head(c))
        BY <2>0, <4>1, <4>2, RateAssumption DEF ForCause
      <4>4. \A g \in Handlers : stale'[g] = IF g = h THEN Head(c) ELSE stale[g]
        BY <4>1 DEF TypeInv
      <4>5. \A k : ForCause(k) => ForCause(k)'
        BY <3>1 DEF ForCause
      <4> QED BY <3>1, <4>3, <4>4, <4>5 DEF CauseInv, ExpiredForCause, ForCause
    <3> QED BY <3>2, <3>3
  <2>2. ASSUME NEW h \in Handlers, SaveExpired(h) PROVE CauseInv'
    <3>1. UNCHANGED <<clock, expires, outrun>>
      BY <2>2 DEF SaveExpired, limiterVars
    <3>2. stale' = [stale EXCEPT ![h] = NoKey] /\ stale[h] # NoKey
      BY <2>2 DEF SaveExpired
    <3>3. status' = [status EXCEPT ![stale[h]] = "expired"] \/ UNCHANGED status
      BY <2>2 DEF SaveExpired, StatusSaved
    <3>4. ForCause(stale[h])
      BY <3>2 DEF CauseInv
    <3>5. \A k \in Keys : status'[k] = "expired" => status[k] = "expired" \/ k = stale[h]
      BY <3>3 DEF TypeInv
    <3>6. \A g \in Handlers : stale'[g] # NoKey => stale'[g] = stale[g]
      BY <3>2 DEF TypeInv
    <3> QED BY <3>1, <3>4, <3>5, <3>6 DEF CauseInv, ExpiredForCause, ForCause
  <2>3. ASSUME NEW k \in Keys, Suspend(k) PROVE CauseInv'
    BY <2>3 DEF Suspend, Edit, limiterVars, CauseInv, ExpiredForCause, ForCause, TypeInv
  <2>4. ASSUME NEW k \in Keys, Renew(k) PROVE CauseInv'
    <3>1. /\ status' = [status EXCEPT ![k] = "active"] /\ UNCHANGED <<clock, stale>>
          /\ \E d \in Dates : expires' = [expires EXCEPT ![k] = d]
          /\ outrun' = IF \E h \in Handlers : stale[h] = k THEN outrun \cup {k} ELSE outrun \ {k}
      BY <2>4 DEF Renew, Edit, limiterVars
    <3>2. ASSUME NEW h \in Handlers, stale[h] # NoKey PROVE ForCause(stale[h])'
      <4>1. CASE stale[h] = k
        BY <3>1, <4>1 DEF ForCause
      <4>2. CASE stale[h] # k
        <5>1. expires'[stale[h]] = expires[stale[h]] /\ ForCause(stale[h])
          BY <3>1, <3>2, <4>2 DEF TypeInv, CauseInv
        <5> QED BY <3>1, <4>2, <5>1 DEF ForCause
      <4> QED BY <4>1, <4>2
    <3>3. ASSUME NEW x \in Keys, status'[x] = "expired" PROVE ForCause(x)'
      <4>1. x # k /\ status[x] = "expired" /\ expires'[x] = expires[x]
        BY <3>1, <3>3 DEF TypeInv
      <4> QED BY <3>1, <4>1 DEF CauseInv, ExpiredForCause, ForCause
    <3> QED BY <3>1, <3>2, <3>3 DEF CauseInv, ExpiredForCause, ForCause
  <2>5. CASE UNCHANGED <<status, expires, stale, outrun>> /\ clock' \in {clock, clock + 1}
    <3>1. \A k \in Keys : ForCause(k) => ForCause(k)'
      BY <2>0, <2>5 DEF ForCause
    <3>2. \A h \in Handlers : stale[h] # NoKey => stale[h] \in Keys
      BY DEF TypeInv
    <3> QED BY <2>5, <3>1, <3>2 DEF CauseInv, ExpiredForCause, ForCause
  <2> QED BY <2>1, <2>2, <2>3, <2>4, <2>5 DEF Next, Hit, Tick, keyVars, limiterVars, vars
<1> QED BY <1>1, <1>2, TypeInvHolds, PTL DEF Spec, CauseInv

----------------------------------------------------------------------------
(* The ticks a count looks at, and what one more tick, or one more hit,    *)
(* makes of it.                                                            *)
Span(from, to) == (from..to) \cap Ticks

LEMMA SpanFinite == ASSUME NEW from, NEW to PROVE IsFiniteSet(Span(from, to))
<1>1. IsFiniteSet(Ticks)
  BY FS_Interval, RateAssumption DEF Ticks
<1> QED BY <1>1, FS_Subset DEF Span

LEMMA CountNat ==
  ASSUME NEW f \in [Ticks -> Nat], NEW from \in Int, NEW to \in Int
  PROVE  Count(f, from, to) \in Nat
<1>1. \A s \in Span(from, to) : f[s] \in Nat
  BY DEF Span
<1> QED BY <1>1, SpanFinite, SumNat DEF Count, Span

LEMMA CountMore ==
  ASSUME NEW f \in [Ticks -> Nat], NEW from \in Int, NEW to \in Int,
         NEW c \in Ticks, from <= c, c <= to,
         NEW g, \A s \in Ticks : g[s] = IF s = c THEN f[s] + 1 ELSE f[s]
  PROVE  Count(g, from, to) = Count(f, from, to) + 1
<1>1. c \in Span(from, to)
  BY RateAssumption DEF Span, Ticks
<1>2. \A s \in Span(from, to) : f[s] \in Int /\ g[s] \in Int
  BY DEF Span
<1>3. \A s \in Span(from, to) \ {c} : g[s] = f[s]
  BY DEF Span
<1>4. SumFunctionOnSet(g, Span(from, to)) = SumFunctionOnSet(f, Span(from, to)) + g[c] - f[c]
  <2> DEFINE S == Span(from, to)
  <2> HIDE DEF S
  <2>1. IsFiniteSet(S) /\ c \in S
    BY <1>1, SpanFinite DEF S
  <2>2. \A s \in S : f[s] \in Int /\ g[s] \in Int
    BY <1>2 DEF S
  <2>3. \A s \in S \ {c} : g[s] = f[s]
    BY <1>3 DEF S
  <2>4. ASSUME NEW x, NEW y, \A s \in S : x[s] \in Int /\ y[s] \in Int,
               \A s \in S \ {c} : y[s] = x[s]
        PROVE  SumFunctionOnSet(y, S) = SumFunctionOnSet(x, S) + y[c] - x[c]
    BY <2>1, <2>4, SumChange
  <2>5. SumFunctionOnSet(g, S) = SumFunctionOnSet(f, S) + g[c] - f[c]
    BY <2>2, <2>3, <2>4
  <2> QED BY <2>5 DEF S
<1>5. g[c] = f[c] + 1 /\ f[c] \in Nat
  OBVIOUS
<1>6. Count(f, from, to) \in Nat
  BY CountNat
<1> QED BY <1>4, <1>5, <1>6 DEF Count, Span

LEMMA CountMono ==
  ASSUME NEW f \in [Ticks -> Nat], NEW a \in Int, NEW b \in Int, NEW c \in Int, NEW d \in Int,
         \A s \in Ticks : a <= s /\ s <= b /\ f[s] > 0 => c <= s /\ s <= d
  PROVE  Count(f, a, b) <= Count(f, c, d)
<1> DEFINE S == Span(a, b)
           T == Span(c, d)
<1>1. IsFiniteSet(S) /\ IsFiniteSet(T)
  BY SpanFinite
<1>2. \A x \in S \cup T : f[x] \in Nat
  BY DEF Span
<1>3. \A x \in S \ T : f[x] = 0
  <2> SUFFICES ASSUME NEW x \in S, x \notin T, f[x] # 0 PROVE FALSE
    OBVIOUS
  <2>1. x \in Ticks /\ x \in a..b /\ x \in Int /\ f[x] > 0
    BY RateAssumption DEF Span, Ticks
  <2> QED BY <2>1 DEF Span
<1> HIDE DEF S, T
<1>4. SumFunctionOnSet(f, S) <= SumFunctionOnSet(f, T)
  BY <1>1, <1>2, <1>3, SumMono
<1> QED BY <1>4 DEF S, T, Count, Span

----------------------------------------------------------------------------
(* No counter shows more than what was counted since its window began.     *)
HitsInv == /\ \A id \in Ids, b \in Buckets : counter[id][b] <= Count(hits[id], Begins(b), clock)
           /\ RefusedForRecent

(* RefusedForRecent: hits are never forgotten, and a window that a late    *)
(* replica counts in began less than Window + MaxLag ticks ago.          *)
THEOREM RefusalsAreRecent == Spec => []RefusedForRecent
<1> USE RateAssumption
<1>0. ASSUME NEW b \in Buckets PROVE b \in Nat /\ Begins(b) \in Nat
  <2>1. MaxClock \div Window \in Int
    OBVIOUS
  <2>2. b \in Nat
    BY <2>1 DEF Buckets
  <2> QED BY <2>2 DEF Begins
<1>1. Init => HitsInv
  <2> SUFFICES ASSUME Init PROVE HitsInv
    OBVIOUS
  <2>1. ASSUME NEW id \in Ids, NEW b \in Buckets
        PROVE  counter[id][b] <= Count(hits[id], Begins(b), clock)
    <3>1. hits[id] \in [Ticks -> Nat] /\ counter[id][b] = 0 /\ clock \in Int
      BY DEF Init, LimiterInit
    <3> QED BY <1>0, <3>1, CountNat
  <2> QED BY <2>1 DEF HitsInv, RefusedForRecent, Init, LimiterInit
<1>2. TypeInv /\ TypeInv' /\ HitsInv /\ [Next]_vars => HitsInv'
  <2> SUFFICES ASSUME TypeInv, TypeInv', HitsInv, [Next]_vars PROVE HitsInv'
    OBVIOUS
  <2>0. /\ clock \in Ticks /\ clock' \in Ticks /\ Ticks \subseteq Nat
        /\ \A id \in Ids : hits[id] \in [Ticks -> Nat] /\ hits'[id] \in [Ticks -> Nat]
    BY DEF TypeInv, Ticks
  <2>1. ASSUME NEW h \in Handlers, Hit(h) PROVE HitsInv'
    <3>1. PICK lag \in 0..MaxLag : lag <= clock /\ Counts(h, Head(chain[h]), Bucket(lag))
      BY <2>1, HitCounts
    <3> DEFINE i == Head(chain[h])
               a == Bucket(lag)
    <3>2. i \in Ids /\ UNCHANGED clock
      <4>1. chain[h] # <<>> /\ chain[h] \in Seq(Ids) /\ UNCHANGED clock
        BY <2>1, HitCounts DEF TypeInv
      <4> QED BY <4>1
    <3>3. a \in Buckets /\ Begins(a) <= clock /\ clock < Begins(a) + Window + MaxLag
      BY <3>1, HasBucket
    <3>0. Counts(h, i, a)
      BY <3>1
    <3> HIDE DEF i, a
    <3>4. /\ \A id \in Ids : id # i => hits'[id] = hits[id] /\ counter'[id] = counter[id]
          /\ hits'[i] = [hits[i] EXCEPT ![clock] = hits[i][clock] + 1]
          /\ \A b \in Buckets : b # a => counter'[i][b] = counter[i][b]
          /\ counter'[i][a] = Incremented(i, a)
      <4>1. counter[i] \in [Buckets -> Nat]
        BY <3>2 DEF TypeInv
      <4>2. counter'[i] = [counter[i] EXCEPT ![a] = Incremented(i, a)]
        BY <3>0, <3>2 DEF Counts, TypeInv
      <4>3. /\ \A id \in Ids : id # i => hits'[id] = hits[id] /\ counter'[id] = counter[id]
            /\ hits'[i] = [hits[i] EXCEPT ![clock] = hits[i][clock] + 1]
        BY <3>0, <3>2 DEF Counts, TypeInv
      <4> QED BY <3>3, <4>1, <4>2, <4>3
    <3>5. ASSUME NEW id \in Ids, NEW from \in Int, NEW to \in Int
          PROVE  /\ Count(hits[id], from, to) \in Nat /\ Count(hits'[id], from, to) \in Nat
                 /\ Count(hits[id], from, to) <= Count(hits'[id], from, to)
                 /\ id = i /\ from <= clock /\ clock <= to =>
                      Count(hits'[id], from, to) = Count(hits[id], from, to) + 1
      <4>1. Count(hits[id], from, to) \in Nat /\ Count(hits'[id], from, to) \in Nat
        BY <2>0, CountNat
      <4>2. ASSUME id = i, from <= clock, clock <= to
            PROVE  Count(hits'[id], from, to) = Count(hits[id], from, to) + 1
        <5>1. \A s \in Ticks : hits'[id][s] = IF s = clock THEN hits[id][s] + 1 ELSE hits[id][s]
          BY <2>0, <3>4, <4>2
        <5>2. hits[id] \in [Ticks -> Nat] /\ clock \in Ticks
          BY <2>0
        <5> QED BY <4>2, <5>1, <5>2, CountMore
      <4>3. ASSUME id # i PROVE Count(hits'[id], from, to) = Count(hits[id], from, to)
        BY <3>4, <4>3
      <4>4. ASSUME id = i, ~(from <= clock /\ clock <= to)
            PROVE  Count(hits'[id], from, to) = Count(hits[id], from, to)
        <5>1. \A s \in Span(from, to) : hits[id][s] \in Int /\ hits'[id][s] = hits[id][s]
          BY <2>0, <3>4, <4>4 DEF Span
        <5> DEFINE S == Span(from, to)
        <5> HIDE DEF S
        <5>2. SumFunctionOnSet(hits'[id], S) = SumFunctionOnSet(hits[id], S)
          BY <5>1, SpanFinite, SumEqual DEF S
        <5> QED BY <5>2 DEF Count, Span, S
      <4> QED BY <4>1, <4>2, <4>3, <4>4
    <3>6. ASSUME NEW id \in Ids, NEW b \in Buckets
          PROVE  counter'[id][b] <= Count(hits'[id], Begins(b), clock)
      <4>1. counter[id][b] <= Count(hits[id], Begins(b), clock) /\ counter[id][b] \in Nat
        BY DEF HitsInv, TypeInv
      <4>2. Begins(b) \in Int /\ clock \in Int
        BY <1>0, <2>0
      <4>3. CASE id = i /\ b = a
        <5>1. counter'[id][b] = Incremented(i, a)
          BY <3>4, <4>3
        <5>2. Incremented(i, a) <= counter[id][b] + 1
          BY <4>1, <4>3 DEF Incremented
        <5>3. Incremented(i, a) \in Nat
          BY <4>1, <4>3 DEF Incremented
        <5>4. Count(hits'[id], Begins(b), clock) = Count(hits[id], Begins(b), clock) + 1
              /\ Count(hits[id], Begins(b), clock) \in Nat
          <6>1. Begins(b) <= clock /\ clock <= clock
            BY <3>3, <4>2, <4>3
          <6> QED BY <3>5, <4>2, <4>3, <6>1
        <5> QED BY <4>1, <5>1, <5>2, <5>3, <5>4
      <4>4. CASE ~(id = i /\ b = a)
        <5>1. counter'[id][b] = counter[id][b]
          BY <3>4, <4>4
        <5>2. /\ Count(hits[id], Begins(b), clock) <= Count(hits'[id], Begins(b), clock)
              /\ Count(hits[id], Begins(b), clock) \in Nat
              /\ Count(hits'[id], Begins(b), clock) \in Nat
          BY <3>5, <4>2
        <5> QED BY <4>1, <5>1, <5>2
      <4> QED BY <4>3, <4>4
    <3>7. ASSUME NEW r \in refused'
          PROVE  Count(hits'[r[1]], r[2] - Window - MaxLag + 1, r[2]) > Limit[r[1]]
      <4> DEFINE from == r[2] - Window - MaxLag + 1
      <4>1. r[1] \in Ids /\ r[2] \in Nat /\ from \in Int /\ r[2] \in Int
        <5>1. r \in Ids \X Ticks
          BY DEF TypeInv
        <5>2. r[1] \in Ids /\ r[2] \in Ticks
          BY <5>1
        <5>3. r[2] \in Nat
          BY <5>2, <2>0
        <5> QED BY <5>2, <5>3
      <4>2. Limit[r[1]] \in Nat
        BY <4>1
      <4> HIDE DEF from
      <4>3. CASE r \in refused
        <5>1. Count(hits[r[1]], from, r[2]) > Limit[r[1]]
          BY <4>3 DEF HitsInv, RefusedForRecent, from
        <5>2. /\ Count(hits[r[1]], from, r[2]) <= Count(hits'[r[1]], from, r[2])
              /\ Count(hits[r[1]], from, r[2]) \in Nat
              /\ Count(hits'[r[1]], from, r[2]) \in Nat
          BY <3>5, <4>1
        <5>3. Count(hits'[r[1]], from, r[2]) > Limit[r[1]]
          BY <4>2, <5>1, <5>2
        <5> QED BY <5>3 DEF from
      <4>4. CASE r \notin refused
        <5>1. r = <<i, clock>> /\ Incremented(i, a) > Limit[i]
          BY <3>0, <4>4 DEF Counts
        <5>2. r[1] = i /\ r[2] = clock
          BY <5>1
        <5>3. Incremented(i, a) <= Count(hits'[i], Begins(a), clock)
          BY <3>2, <3>3, <3>4, <3>6
        <5>4. Begins(a) \in Int /\ clock \in Int
          BY <1>0, <2>0, <3>3
        <5>5. Count(hits'[i], Begins(a), clock) <= Count(hits'[i], from, clock)
          <6>1. from <= Begins(a)
            BY <3>3, <5>2, <5>4 DEF from
          <6>2. \A s \in Ticks : Begins(a) <= s => from <= s
            BY <2>0, <4>1, <5>4, <6>1
          <6> QED BY <2>0, <3>2, <4>1, <5>4, <6>2, CountMono
        <5>6. Count(hits'[i], Begins(a), clock) \in Nat /\ Count(hits'[i], from, clock) \in Nat
          BY <3>2, <3>5, <4>1, <5>4
        <5>7. Incremented(i, a) \in Nat
          <6>1. counter[i][a] \in Nat
            BY <3>2, <3>3 DEF TypeInv
          <6> QED BY <6>1 DEF Incremented
        <5>8. Count(hits'[r[1]], from, r[2]) > Limit[r[1]]
          BY <4>2, <5>1, <5>2, <5>3, <5>5, <5>6, <5>7
        <5> QED BY <5>8 DEF from
      <4> QED BY <4>3, <4>4
    <3> QED BY <3>2, <3>6, <3>7 DEF HitsInv, RefusedForRecent
  <2>2. CASE UNCHANGED <<counter, hits, refused>> /\ clock' \in {clock, clock + 1}
    <3>1. ASSUME NEW id \in Ids, NEW b \in Buckets
          PROVE  counter[id][b] <= Count(hits[id], Begins(b), clock')
      <4>1. counter[id][b] <= Count(hits[id], Begins(b), clock) /\ counter[id][b] \in Nat
        BY DEF HitsInv, TypeInv
      <4>2. Begins(b) \in Int /\ clock \in Int /\ clock' \in Int /\ hits[id] \in [Ticks -> Nat]
        BY <1>0, <2>0
      <4>3. Count(hits[id], Begins(b), clock) \in Nat /\ Count(hits[id], Begins(b), clock') \in Nat
        BY <4>2, CountNat
      <4>4. \A s \in Ticks : s <= clock => s <= clock'
        BY <2>0, <2>2, <4>2
      <4>5. Count(hits[id], Begins(b), clock) <= Count(hits[id], Begins(b), clock')
        BY <4>2, <4>4, CountMono
      <4> QED BY <4>1, <4>3, <4>5
    <3> QED BY <2>2, <3>1 DEF HitsInv, RefusedForRecent
  <2> QED BY <2>1, <2>2 DEF Next, GetKey, SaveExpired, Suspend, Renew, Edit, Tick, limiterVars, vars
<1>3. HitsInv => RefusedForRecent
  BY DEF HitsInv
<1> QED BY <1>1, <1>2, <1>3, TypeInvHolds, PTL DEF Spec

----------------------------------------------------------------------------
(* What has passed in a window during the last Window ticks.               *)
Recent(id, b) == Count(passed[id][b], clock - Window + 1, clock)

(* Passed hits lie between the beginning of their window and its latest    *)
(* use, and a counter lives for Window ticks after each.                 *)
InTime(id, b) ==
    \A t \in Ticks : passed[id][b][t] > 0 =>
       /\ t <= clock /\ t + Window <= expiry[id][b]
       /\ Begins(b) <= t /\ t < Begins(b) + Window + MaxLag

(* A counter that lives has counted the recent ones.                       *)
Limited(id, b) ==
    /\ InTime(id, b)
    /\ clock < expiry[id][b] => Recent(id, b) <= counter[id][b]
    /\ Recent(id, b) <= Limit[id]
PassInv == \A id \in Ids, b \in Buckets : Limited(id, b)

LEMMA PassTypes ==
  ASSUME TypeInv, NEW id \in Ids, NEW b \in Buckets
  PROVE  /\ passed[id][b] \in [Ticks -> Nat] /\ counter[id][b] \in Nat
         /\ expiry[id][b] \in Nat /\ Limit[id] \in Nat
         /\ clock \in Nat /\ clock \in Ticks /\ Ticks \subseteq Nat
         /\ Recent(id, b) \in Nat
         /\ b \in Nat /\ Begins(b) \in Nat
<1>1. passed[id] \in [Buckets -> [Ticks -> Nat]] /\ counter[id] \in [Buckets -> Nat]
      /\ expiry[id] \in [Buckets -> 0..(MaxClock + Window)]
  BY DEF TypeInv
<1>2. passed[id][b] \in [Ticks -> Nat] /\ counter[id][b] \in Nat
      /\ expiry[id][b] \in 0..(MaxClock + Window)
  BY <1>1
<1>3. clock \in Nat /\ clock \in Ticks /\ Ticks \subseteq Nat
  BY RateAssumption DEF TypeInv, Ticks
<1>4. Limit[id] \in Nat
  BY RateAssumption
<1>5. clock - Window + 1 \in Int /\ clock \in Int
  BY <1>3, RateAssumption
<1>6. Recent(id, b) \in Nat
  BY <1>2, <1>5, CountNat DEF Recent
<1>7. expiry[id][b] \in Nat
  BY <1>2, RateAssumption
<1>8. b \in Nat
  <2>1. MaxClock \div Window \in Int
    BY RateAssumption
  <2> QED BY <2>1 DEF Buckets
<1>9. Begins(b) \in Nat
  BY <1>8, RateAssumption DEF Begins
<1> QED BY <1>2, <1>3, <1>4, <1>6, <1>7, <1>8, <1>9

LEMMA CountNone ==
  ASSUME NEW f, NEW from, NEW to, \A s \in Span(from, to) : f[s] = 0
  PROVE  Count(f, from, to) = 0
<1> DEFINE S == Span(from, to)
<1>1. IsFiniteSet(S) /\ \A s \in S : f[s] = 0
  BY SpanFinite
<1> HIDE DEF S
<1>2. SumFunctionOnSet(f, S) = 0
  BY <1>1, SumZero
<1> QED BY <1>2 DEF S, Count, Span

(* INCR's answer exceeds what has passed recently: a counter that expired  *)
(* has counted nothing for Window ticks.                                   *)
LEMMA CountsRecent ==
  ASSUME TypeInv, NEW id \in Ids, NEW b \in Buckets, Limited(id, b)
  PROVE  Recent(id, b) + 1 <= Incremented(id, b) /\ Incremented(id, b) \in Nat
<1>1. Incremented(id, b) \in Nat
  BY PassTypes DEF Incremented
<1>2. CASE clock < expiry[id][b]
  BY <1>2, PassTypes DEF Limited, Incremented
<1>3. CASE ~ clock < expiry[id][b]
  <2>1. ASSUME NEW t \in Span(clock - Window + 1, clock) PROVE passed[id][b][t] = 0
    <3>1. t \in Ticks /\ t \in Nat /\ clock - Window + 1 <= t /\ passed[id][b][t] \in Nat
      <4>1. t \in Ticks /\ t \in (clock - Window + 1)..clock
        BY DEF Span
      <4>2. t \in Nat /\ passed[id][b][t] \in Nat
        BY <4>1, PassTypes
      <4>3. clock \in Nat
        BY PassTypes
      <4> QED BY <4>1, <4>2, <4>3, RateAssumption
    <3>2. passed[id][b][t] > 0 => t + Window <= expiry[id][b]
      BY <3>1 DEF Limited, InTime
    <3>3. expiry[id][b] <= clock
      BY <1>3, PassTypes
    <3> QED BY <3>1, <3>2, <3>3, PassTypes, RateAssumption, SMTT(30)
  <2>2. Recent(id, b) = 0
    BY <2>1, CountNone DEF Recent
  <2> QED BY <1>3, <2>2 DEF Incremented
<1> QED BY <1>1, <1>2, <1>3

LEMMA PassHolds == Spec => []PassInv
<1> USE RateAssumption
<1>1. Init => PassInv
  <2> SUFFICES ASSUME Init, NEW id \in Ids, NEW b \in Buckets PROVE Limited(id, b)
    BY DEF PassInv
  <2>1. \A t \in Ticks : passed[id][b][t] = 0
    BY DEF Init, LimiterInit
  <2>2. \A t \in Span(clock - Window + 1, clock) : passed[id][b][t] = 0
    BY <2>1 DEF Span
  <2>3. Recent(id, b) = 0
    BY <2>2, CountNone DEF Recent
  <2>4. clock = 0 /\ expiry[id][b] = 0 /\ Limit[id] \in Nat
    BY DEF Init, LimiterInit
  <2> QED BY <2>1, <2>3, <2>4 DEF Limited, InTime
<1>2. TypeInv /\ TypeInv' /\ PassInv /\ [Next]_vars => PassInv'
  <2> SUFFICES ASSUME TypeInv, TypeInv', PassInv, [Next]_vars, NEW id \in Ids, NEW b \in Buckets
               PROVE  Limited(id, b)'
    BY DEF PassInv
  <2>0. Limited(id, b)
    BY DEF PassInv
  <2> DEFINE same == /\ passed'[id][b] = passed[id][b] /\ counter'[id][b] = counter[id][b]
                     /\ expiry'[id][b] = expiry[id][b]
  <2>1. ASSUME same, UNCHANGED clock PROVE Limited(id, b)'
    BY <2>0, <2>1 DEF Limited, InTime, Recent
  <2>2. ASSUME NEW h \in Handlers, Hit(h) PROVE Limited(id, b)'
    <3>1. PICK lag \in 0..MaxLag : lag <= clock /\ Counts(h, Head(chain[h]), Bucket(lag))
      BY <2>2, HitCounts
    <3> DEFINE i == Head(chain[h])
               a == Bucket(lag)
    <3>2. i \in Ids /\ UNCHANGED clock
      <4>1. chain[h] # <<>> /\ chain[h] \in Seq(Ids) /\ UNCHANGED clock
        BY <2>2, HitCounts DEF TypeInv
      <4> QED BY <4>1
    <3>3. a \in Buckets /\ Begins(a) <= clock /\ clock < Begins(a) + Window + MaxLag
      BY <3>1, HasBucket
    <3>0. Counts(h, i, a)
      BY <3>1
    <3> HIDE DEF i, a
    <3>4. CASE ~(id = i /\ b = a)
      <4>1. passed'[id][b] = passed[id][b]
        <5>1. passed[id] \in [Buckets -> [Ticks -> Nat]]
          BY DEF TypeInv
        <5>2. \/ passed' = passed
              \/ \E x : passed' = [passed EXCEPT ![i] = [passed[i] EXCEPT ![a] = x]]
          BY <3>0 DEF Counts
        <5>3. passed \in [Ids -> [Buckets -> [Ticks -> Nat]]]
          BY DEF TypeInv
        <5>4. CASE id # i
          BY <5>2, <5>3, <5>4
        <5>5. CASE id = i /\ b # a
          BY <5>1, <5>2, <5>3, <5>5
        <5> QED BY <3>4, <5>4, <5>5
      <4>2. counter'[id][b] = counter[id][b]
        <5>1. counter[id] \in [Buckets -> Nat]
          BY DEF TypeInv
        <5>2. counter' = [counter EXCEPT ![i] = [counter[i] EXCEPT ![a] = Incremented(i, a)]]
          BY <3>0 DEF Counts
        <5> QED BY <3>2, <3>4, <5>1, <5>2 DEF TypeInv
      <4>3. expiry'[id][b] = expiry[id][b]
        <5>1. expiry[id] \in [Buckets -> 0..(MaxClock + Window)]
          BY DEF TypeInv
        <5>2. expiry' = [expiry EXCEPT ![i] = [expiry[i] EXCEPT ![a] = clock + Window]]
          BY <3>0 DEF Counts
        <5> QED BY <3>2, <3>4, <5>1, <5>2 DEF TypeInv
      <4> QED BY <2>1, <3>2, <4>1, <4>2, <4>3
    <3>5. CASE id = i /\ b = a
      <4> DEFINE n == Incremented(id, b)
                 f == passed[id][b]
      <4>1. /\ counter'[id][b] = n /\ expiry'[id][b] = clock + Window
            /\ \/ passed'[id][b] = f
               \/ ~ n > Limit[id] /\ passed'[id][b] = [f EXCEPT ![clock] = f[clock] + 1]
        <5>1. counter'[id][b] = n
          <6>1. counter[id] \in [Buckets -> Nat]
            BY DEF TypeInv
          <6>2. counter' = [counter EXCEPT ![i] = [counter[i] EXCEPT ![a] = Incremented(i, a)]]
            BY <3>0 DEF Counts
          <6> QED BY <3>5, <6>1, <6>2 DEF TypeInv
        <5>2. expiry'[id][b] = clock + Window
          <6>1. expiry[id] \in [Buckets -> 0..(MaxClock + Window)]
            BY DEF TypeInv
          <6>2. expiry' = [expiry EXCEPT ![i] = [expiry[i] EXCEPT ![a] = clock + Window]]
            BY <3>0 DEF Counts
          <6> QED BY <3>5, <6>1, <6>2 DEF TypeInv
        <5>3. \/ passed'[id][b] = f
              \/ ~ n > Limit[id] /\ passed'[id][b] = [f EXCEPT ![clock] = f[clock] + 1]
          <6>1. passed[id] \in [Buckets -> [Ticks -> Nat]]
            BY DEF TypeInv
          <6>2. \/ passed' = passed
                \/ /\ ~ Incremented(i, a) > Limit[i]
                   /\ passed' = [passed EXCEPT ![i] = [passed[i] EXCEPT ![a] =
                                  [passed[i][a] EXCEPT ![clock] = passed[i][a][clock] + 1]]]
            BY <3>0 DEF Counts
          <6>3. ASSUME ~ Incremented(i, a) > Limit[i],
                       passed' = [passed EXCEPT ![i] = [passed[i] EXCEPT ![a] =
                                    [passed[i][a] EXCEPT ![clock] = passed[i][a][clock] + 1]]]
                PROVE  ~ n > Limit[id] /\ passed'[id][b] = [f EXCEPT ![clock] = f[clock] + 1]
            <7>1. passed'[id] = [passed[id] EXCEPT ![b] = [f EXCEPT ![clock] = f[clock] + 1]]
              BY <3>5, <6>3 DEF TypeInv
            <7> QED BY <3>5, <6>1, <6>3, <7>1
          <6>4. passed' = passed => passed'[id][b] = f
            OBVIOUS
          <6> QED BY <6>2, <6>3, <6>4
        <5> QED BY <5>1, <5>2, <5>3
      <4>2. /\ Recent(id, b) + 1 <= n /\ n \in Nat /\ Recent(id, b) \in Nat
            /\ Limit[id] \in Nat /\ clock \in Nat /\ clock \in Ticks /\ Ticks \subseteq Nat
            /\ f \in [Ticks -> Nat] /\ expiry[id][b] \in Nat /\ Begins(b) \in Nat
        BY <2>0, CountsRecent, PassTypes
      <4>3. ASSUME NEW t \in Ticks, passed'[id][b][t] > 0
            PROVE  /\ t <= clock /\ t + Window <= clock + Window
                   /\ Begins(b) <= t /\ t < Begins(b) + Window + MaxLag
        <5>1. t \in Nat
          BY <4>2
        <5>2. t = clock \/ f[t] > 0
          BY <4>1, <4>2, <4>3
        <5>3. t <= clock /\ Begins(b) <= t /\ t < Begins(b) + Window + MaxLag
          BY <2>0, <3>3, <3>5, <4>2, <5>2 DEF Limited, InTime
        <5> QED BY <4>2, <5>1, <5>3
      <4>4. Recent(id, b)' \in Nat /\ (Recent(id, b)' = Recent(id, b) \/
                (~ n > Limit[id] /\ Recent(id, b)' = Recent(id, b) + 1))
        <5>1. clock - Window + 1 <= clock /\ clock - Window + 1 \in Int /\ clock \in Int
          BY <4>2
        <5>2. CASE passed'[id][b] = f
          BY <3>2, <4>2, <5>2 DEF Recent
        <5>3. CASE ~ n > Limit[id] /\ passed'[id][b] = [f EXCEPT ![clock] = f[clock] + 1]
          <6> DEFINE from == clock - Window + 1
                     g == passed'[id][b]
          <6> HIDE DEF f
          <6>1. f \in [Ticks -> Nat] /\ clock \in Ticks
            BY <4>2
          <6>2. from \in Int /\ from <= clock /\ clock \in Int
            BY <5>1
          <6>3. \A s \in Ticks : g[s] = IF s = clock THEN f[s] + 1 ELSE f[s]
            BY <5>3, <6>1
          <6> HIDE DEF from, g
          <6>4. Count(g, from, clock) = Count(f, from, clock) + 1
            BY <6>1, <6>2, <6>3, CountMore
          <6> QED BY <3>2, <4>2, <5>3, <6>4 DEF Recent, f, from, g
        <5> QED BY <4>1, <5>2, <5>3
      <4>5. Recent(id, b) <= Limit[id]
        BY <2>0 DEF Limited
      <4> HIDE DEF n, f
      <4>6. InTime(id, b)'
        BY <3>2, <4>1, <4>3 DEF InTime
      <4>7. Recent(id, b)' <= counter'[id][b] /\ Recent(id, b)' <= Limit[id]
        BY <4>1, <4>2, <4>4, <4>5
      <4> QED BY <4>6, <4>7 DEF Limited
    <3> QED BY <3>4, <3>5
  <2>3. CASE Tick
    <3>1. /\ clock' = clock + 1 /\ UNCHANGED <<passed, counter, expiry>>
      BY <2>3 DEF Tick
    <3>2. /\ passed[id][b] \in [Ticks -> Nat] /\ clock \in Nat /\ Ticks \subseteq Nat
          /\ expiry[id][b] \in Nat /\ Recent(id, b) \in Nat /\ Limit[id] \in Nat
          /\ counter[id][b] \in Nat
      BY PassTypes
    <3> DEFINE f == passed[id][b]
    <3>3. InTime(id, b)'
      BY <2>0, <3>1, <3>2 DEF Limited, InTime
    <3>4. \A t \in Ticks : clock' - Window + 1 <= t /\ t <= clock' /\ f[t] > 0 =>
            clock - Window + 1 <= t /\ t <= clock
      <4> TAKE t \in Ticks
      <4>1. f[t] > 0 => t <= clock
        BY <2>0 DEF Limited, InTime
      <4>2. t \in Nat
        BY <3>2
      <4> QED BY <3>1, <3>2, <4>1, <4>2
    <3>5. /\ clock' - Window + 1 \in Int /\ clock' \in Int
          /\ clock - Window + 1 \in Int /\ clock \in Int
      BY <3>1, <3>2
    <3>6. Count(f, clock' - Window + 1, clock') <= Count(f, clock - Window + 1, clock)
      <4> HIDE DEF f
      <4>1. f \in [Ticks -> Nat]
        BY <3>2 DEF f
      <4> QED BY <3>4, <3>5, <4>1, CountMono
    <3>7. Recent(id, b)' <= Recent(id, b)
      BY <3>1, <3>6 DEF Recent
    <3>8. Recent(id, b)' \in Nat
      BY PassTypes, <3>1, <3>2, <3>5, CountNat DEF Recent
    <3>9. clock' < expiry[id][b] => clock < expiry[id][b]
      BY <3>1, <3>2
    <3>10. /\ clock' < expiry[id][b] => Recent(id, b)' <= counter[id][b]
           /\ Recent(id, b)' <= Limit[id]
      BY <2>0, <3>2, <3>7, <3>8, <3>9 DEF Limited
    <3> QED BY <3>1, <3>3, <3>10 DEF Limited
  <2>4. CASE UNCHANGED <<clock, passed, counter, expiry>>
    BY <2>1, <2>4
  <2> QED BY <2>2, <2>3, <2>4 DEF Next, GetKey, SaveExpired, Suspend, Renew, Edit, vars, limiterVars
<1> QED BY <1>1, <1>2, TypeInvHolds, PTL DEF Spec

(* However late clocks and calls may be: the hits of a window less the lag *)
(* lie in two windows.  Those of a whole window may lie in three.          *)
THEOREM TwiceTheLimit == Spec => []TwiceAtMost
<1> USE RateAssumption
<1>1. ASSUME TypeInv, PassInv PROVE TwiceAtMost
  <2> SUFFICES ASSUME NEW id \in Ids
               PROVE  Passed(id, clock - (Window - MaxLag) + 1, clock) <= 2 * Limit[id]
    BY DEF TwiceAtMost
  <2> DEFINE q == clock \div Window
             from == clock - (Window - MaxLag) + 1
             R == [b \in Buckets |-> Count(passed[id][b], from, clock)]
             T == {b \in Buckets : b = q \/ b = q - 1}
  <2>1. clock \in Nat
    BY <1>1 DEF TypeInv, Ticks
  <2>2. /\ q \in Nat /\ Begins(q) \in Nat
        /\ Begins(q) <= clock /\ clock < Begins(q) + Window
    BY <2>1, InWindow
  <2>3. ASSUME NEW b \in Buckets
        PROVE  R[b] \in Nat /\ R[b] <= Limit[id] /\ Limit[id] \in Nat
    <3>1. /\ passed[id][b] \in [Ticks -> Nat] /\ Recent(id, b) \in Nat /\ Limit[id] \in Nat
          /\ Recent(id, b) <= Limit[id]
      BY <1>1, PassTypes DEF PassInv, Limited
    <3>2. from \in Int /\ clock \in Int /\ clock - Window + 1 \in Int
          /\ clock - Window + 1 <= from
      BY <2>1
    <3>3. \A s \in Ticks : s \in Nat
      BY DEF Ticks
    <3> HIDE DEF from
    <3>4. Count(passed[id][b], from, clock) \in Nat
      BY <3>1, <3>2, CountNat
    <3>5. \A s \in Ticks : from <= s /\ s <= clock /\ passed[id][b][s] > 0
                           => clock - Window + 1 <= s /\ s <= clock
      BY <3>2, <3>3
    <3>6. Count(passed[id][b], from, clock) <= Recent(id, b)
      BY <3>1, <3>2, <3>5, CountMono DEF Recent
    <3> QED BY <3>1, <3>4, <3>6
  <2>4. IsFiniteSet(Buckets)
    BY FS_Interval DEF Buckets
  <2> HIDE DEF q
  <2>5. ASSUME NEW b \in Buckets, b \notin T PROVE R[b] = 0
    <3>1. b \in Nat /\ Begins(b) \in Nat /\ passed[id][b] \in [Ticks -> Nat] /\ Ticks \subseteq Nat
      BY <1>1, PassTypes
    <3>2. Begins(b) > clock \/ Begins(b) + 2 * Window <= clock
      <4>1. CASE q < b
        <5>1. Begins(q) + Window <= Begins(b)
          BY <2>2, <3>1, <4>1, WindowsInOrder
        <5> QED BY <2>1, <2>2, <3>1, <5>1
      <4>2. CASE b < q - 1
        <5>1. q - 1 \in Nat
          BY <2>2, <3>1, <4>2
        <5> DEFINE p == q - 1
        <5>2. p \in Nat /\ p < q /\ b < p
          BY <2>2, <4>2, <5>1
        <5> HIDE DEF p
        <5>3. Begins(b) + Window <= Begins(p) /\ Begins(p) \in Nat
          BY <3>1, <5>2, WindowsInOrder
        <5>4. Begins(p) + Window <= Begins(q)
          BY <2>2, <5>2, WindowsInOrder
        <5> QED BY <2>1, <2>2, <3>1, <5>3, <5>4
      <4> QED BY <2>2, <2>5, <3>1, <4>1, <4>2
    <3>3. ASSUME NEW t \in Span(from, clock) PROVE passed[id][b][t] = 0
      <4>1. t \in Ticks /\ t \in from..clock
        BY DEF Span
      <4>2. t \in Nat /\ passed[id][b][t] \in Nat
        BY <3>1, <4>1
      <4>3. passed[id][b][t] > 0 => Begins(b) <= t /\ t < Begins(b) + Window + MaxLag
        BY <1>1, <4>1 DEF PassInv, Limited, InTime
      <4> QED BY <2>1, <3>1, <3>2, <4>1, <4>2, <4>3
    <3>4. Count(passed[id][b], from, clock) = 0
      BY <3>3, CountNone
    <3> QED BY <3>4
  <2> HIDE DEF R
  <2>6. SumFunctionOnSet(R, Buckets) <= SumFunctionOnSet(R, T)
    <3>1. IsFiniteSet(T) /\ (\A b \in Buckets \cup T : R[b] \in Nat)
      BY <2>3, <2>4, FS_Subset
    <3>2. \A b \in Buckets \ T : R[b] = 0
      BY <2>5
    <3> HIDE DEF T
    <3> QED BY <2>4, <3>1, <3>2, SumMono
  <2>7. SumFunctionOnSet(R, T) \in Int /\ SumFunctionOnSet(R, T) <= 2 * Limit[id]
    <3> DEFINE Sum(S) == SumFunctionOnSet(R, S)
    <3>0. Limit[id] \in Nat /\ Sum({}) = 0
      BY SumEmpty
    <3>1. ASSUME NEW b \in Buckets PROVE Sum({b}) = R[b]
      <4>1. IsFiniteSet({}) /\ b \notin {} /\ (\A y \in {} \cup {b} : R[y] \in Int) /\ {} \cup {b} = {b}
        BY <2>3, FS_EmptySet
      <4>2. Sum({} \cup {b}) = R[b] + Sum({})
        BY <4>1, SumAdd
      <4> QED BY <2>3, <3>0, <4>1, <4>2
    <3>2. ASSUME NEW b \in Buckets, NEW a \in Buckets, a # b PROVE Sum({a, b}) = R[a] + R[b]
      <4>1. IsFiniteSet({b}) /\ a \notin {b} /\ (\A y \in {b} \cup {a} : R[y] \in Int)
            /\ {b} \cup {a} = {a, b}
        <5>1. IsFiniteSet({b})
          BY FS_Singleton
        <5>2. \A y \in {b} \cup {a} : R[y] \in Int
          BY <2>3
        <5> QED BY <3>2, <5>1, <5>2
      <4>2. Sum({b} \cup {a}) = R[a] + Sum({b})
        BY <4>1, SumAdd
      <4> QED BY <3>1, <4>1, <4>2
    <3> HIDE DEF Sum
    <3>3. T = {} \/ (\E b \in Buckets : T = {b})
            \/ \E a, b \in Buckets : a # b /\ T = {a, b}
      <4>1. CASE q \in Buckets /\ q - 1 \in Buckets
        <5>1. q # q - 1
          BY <2>2
        <5>2. T = {q - 1, q}
          BY <4>1
        <5> QED BY <4>1, <5>1, <5>2
      <4>2. CASE q \in Buckets /\ q - 1 \notin Buckets
        <5>1. T = {q}
          BY <4>2
        <5> QED BY <4>2, <5>1
      <4>3. CASE q \notin Buckets /\ q - 1 \in Buckets
        <5>1. T = {q - 1}
          BY <4>3
        <5> QED BY <4>3, <5>1
      <4>4. CASE q \notin Buckets /\ q - 1 \notin Buckets
        BY <4>4
      <4> QED BY <4>1, <4>2, <4>3, <4>4
    <3> HIDE DEF T
    <3>4. CASE T = {}
      BY <3>0, <3>4 DEF Sum
    <3>5. CASE \E b \in Buckets : T = {b}
      <4>1. PICK b \in Buckets : T = {b}
        BY <3>5
      <4>2. Sum(T) = R[b]
        BY <3>1, <4>1
      <4> QED BY <2>3, <3>0, <4>2 DEF Sum
    <3>6. CASE \E a, b \in Buckets : a # b /\ T = {a, b}
      <4>1. PICK a, b \in Buckets : a # b /\ T = {a, b}
        BY <3>6
      <4>2. Sum(T) = R[a] + R[b]
        BY <3>2, <4>1
      <4> QED BY <2>3, <3>0, <4>2 DEF Sum
    <3> QED BY <3>3, <3>4, <3>5, <3>6
  <2>8. Passed(id, clock - (Window - MaxLag) + 1, clock) = SumFunctionOnSet(R, Buckets)
    BY DEF Passed, R
  <2>9. SumFunctionOnSet(R, Buckets) \in Int
    BY <2>3, <2>4, SumInt
  <2> QED BY <2>6, <2>7, <2>8, <2>9
<1> QED BY <1>1, TypeInvHolds, PassHolds, PTL
=============================================================================
