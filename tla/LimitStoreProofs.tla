-------------------------- MODULE LimitStoreProofs --------------------------
(***************************************************************************)
(* Proofs about LimitStore, and about LimitStore under the observer of     *)
(* RateWindow, for every set of keys, holders and calls.  The theorems     *)
(* whose hypothesis is Spec say nothing of the observer.                   *)
(***************************************************************************)
EXTENDS RateWindow, FiniteSetTheorems, TLAPS

(* A bucket, refilled and capped, is a bucket (limiter.go:58-67). *)
LEMMA RefillType ==
  ASSUME TypeOK, NEW c \in Calls, NEW k \in DOMAIN c.limits,
         k \in DOMAIN buckets => buckets[k].updated <= clock
  PROVE  Refill(c, k) \in Bucket
PROOF
  <1> DEFINE l == c.limits[k]
             full == l.burst * Unit
             earned == (clock - buckets[k].updated) * l.rpm
  <1>1. l.rpm \in Nat /\ l.burst \in Nat /\ Unit \in Nat
    BY CallsAssumption, StoreAssumption DEF Limits
  <1>2. full \in Nat
    BY <1>1
  <1>3. CASE k \notin DOMAIN buckets
    BY <1>2, <1>3 DEF Refill, Bucket, TypeOK
  <1>4. CASE k \in DOMAIN buckets
    <2>1. buckets[k].tokens \in Nat /\ buckets[k].updated \in Nat /\ clock \in Nat
      BY <1>4 DEF TypeOK, Bucket
    <2>2. clock - buckets[k].updated \in Nat
      BY <1>4, <2>1
    <2>3. earned \in Nat
      BY <2>2, <1>1
    <2>4. Smaller(buckets[k].tokens + earned, full) \in Nat
      BY <2>1, <2>3, <1>2 DEF Smaller
    <2> QED
      BY <1>4, <2>1, <2>4 DEF Refill, Bucket
  <1> QED
    BY <1>3, <1>4

(* No bucket was updated in the future: what makes the type inductive. *)
NotAhead == \A k \in DOMAIN buckets : buckets[k].updated <= clock

TypeInv == TypeOK /\ NotAhead

LEMMA NoLeaseIsEmpty == DOMAIN NoLease.limits = {}
PROOF
  BY DEF NoLease

LEMMA AdmitType ==
  ASSUME TypeInv, NEW h \in Holders, NEW c \in Calls, Admit(h, c)
  PROVE  TypeInv'
PROOF
  <1>1. \A k \in Keys : Rated(c, k) =>
          [tokens |-> Refill(c, k).tokens - Unit, updated |-> clock] \in Bucket
    <2> SUFFICES ASSUME NEW k \in Keys, Rated(c, k)
                 PROVE  [tokens |-> Refill(c, k).tokens - Unit, updated |-> clock]
                          \in Bucket
      OBVIOUS
    <2>1. Refill(c, k) \in Bucket
      BY RefillType DEF TypeInv, NotAhead, Rated
    <2>2. Refill(c, k).tokens \in Nat
      BY <2>1 DEF Bucket
    <2>3. ~(Refill(c, k).tokens < Unit)
      BY DEF Admit, Admissible, Refuses, OutOfTokens, Rated
    <2>4. Refill(c, k).tokens - Unit \in Nat
      BY <2>2, <2>3, StoreAssumption
    <2> QED
      BY <2>4 DEF Bucket, TypeInv, TypeOK
  <1>2. DOMAIN buckets' \subseteq Keys /\ buckets' \in [DOMAIN buckets' -> Bucket]
    BY <1>1 DEF Admit, TypeInv, TypeOK
  <1>3. NotAhead'
    BY <1>2 DEF Admit, TypeInv, TypeOK, NotAhead, Bucket
  <1>4. concurrent' \in [Keys -> Nat] /\ leases' \in [Holders -> Calls \cup {NoLease}]
        /\ clock' \in Nat
    BY DEF Admit, TypeInv, TypeOK
  <1> QED
    BY <1>2, <1>3, <1>4 DEF TypeInv, TypeOK

LEMMA RefuseType ==
  ASSUME TypeInv, NEW c \in Calls, Refuse(c)
  PROVE  TypeInv'
PROOF
  <1>1. PICK i \in DOMAIN c.order :
          buckets' = IF AtCapacity(c, c.order[i])
                     THEN buckets
                     ELSE [x \in DOMAIN buckets \cup {c.order[i]} |->
                             IF x = c.order[i] THEN Refill(c, c.order[i])
                                               ELSE buckets[x]]
    BY DEF Refuse
  <1> DEFINE k == c.order[i]
  <1>2. k \in DOMAIN c.limits /\ k \in Keys
    BY CallsAssumption
  <1>3. Refill(c, k) \in Bucket
    BY <1>2, RefillType DEF TypeInv, NotAhead
  <1>4. Refill(c, k).updated = clock
    BY DEF Refill
  <1> HIDE DEF k
  <1>5. DOMAIN buckets' \subseteq Keys /\ buckets' \in [DOMAIN buckets' -> Bucket]
    BY <1>1, <1>2, <1>3 DEF TypeInv, TypeOK, k
  <1>6. NotAhead'
    BY <1>1, <1>4 DEF Refuse, TypeInv, TypeOK, NotAhead, Bucket, k
  <1> QED
    BY <1>5, <1>6 DEF Refuse, TypeInv, TypeOK

LEMMA TypeInductive == TypeInv /\ [Next]_vars => TypeInv'
PROOF
  <1> SUFFICES ASSUME TypeInv, [Next]_vars PROVE TypeInv'
    OBVIOUS
  <1>1. CASE \E h \in Holders, c \in Calls : Admit(h, c)
    BY <1>1, AdmitType
  <1>2. CASE \E c \in Calls : Refuse(c)
    BY <1>2, RefuseType
  <1>3. CASE \E h \in Holders : Release(h)
    BY <1>3 DEF TypeInv, TypeOK, NotAhead, Release
  <1>4. CASE Clear
    BY <1>4 DEF TypeInv, TypeOK, NotAhead, Clear, Bucket
  <1>5. CASE Tick
    BY <1>5 DEF TypeInv, TypeOK, NotAhead, Tick, Bucket
  <1>6. CASE UNCHANGED vars
    BY <1>6 DEF TypeInv, TypeOK, NotAhead, vars
  <1> QED
    BY <1>1, <1>2, <1>3, <1>4, <1>5, <1>6 DEF Next

LEMMA InitType == Init => TypeInv
PROOF
  BY DEF Init, TypeInv, TypeOK, NotAhead, Bucket

(***************************************************************************)
(* The store is well-typed for every configuration; in particular a token  *)
(* count never goes below zero: admit consumes only what it checked.       *)
(***************************************************************************)
THEOREM StoreTypeCorrect == Spec => []TypeOK
PROOF
  <1>1. Spec => []TypeInv
    BY InitType, TypeInductive, PTL DEF Spec
  <1>2. TypeInv => TypeOK
    BY DEF TypeInv
  <1> QED
    BY <1>1, <1>2, PTL

-----------------------------------------------------------------------------
(* How a set of holders changes when one holder takes or drops its lease.   *)

LEMMA CountedFinite ==
  ASSUME NEW k \in Keys
  PROVE  /\ IsFiniteSet(CountedHolders(k))
         /\ IsFiniteSet(CountedHolders(k)')
         /\ Cardinality(CountedHolders(k)) \in Nat
PROOF
  <1>1. CountedHolders(k) \subseteq Holders /\ CountedHolders(k)' \subseteq Holders
    BY DEF CountedHolders
  <1> QED
    BY <1>1, StoreAssumption, FS_Subset, FS_CardinalityType

Counts == TypeInv /\ ConcurrentCountsLeases

LEMMA AdmitCounts ==
  ASSUME Counts, NEW h \in Holders, NEW c \in Calls, Admit(h, c)
  PROVE  ConcurrentCountsLeases'
PROOF
  <1> SUFFICES ASSUME NEW k \in Keys
               PROVE  concurrent'[k] = Cardinality(CountedHolders(k)')
    BY DEF ConcurrentCountsLeases
  <1>1. h \notin CountedHolders(k)
    BY NoLeaseIsEmpty DEF CountedHolders, Admit, Counted
  <1>2. leases \in [Holders -> Calls \cup {NoLease}] /\ concurrent \in [Keys -> Nat]
        /\ concurrent[k] = Cardinality(CountedHolders(k))
    BY DEF Counts, TypeInv, TypeOK, ConcurrentCountsLeases
  <1>3. CASE Counted(c, k)
    <2>1. CountedHolders(k)' = CountedHolders(k) \cup {h}
      BY <1>2, <1>3 DEF CountedHolders, Admit, Counted
    <2>2. Cardinality(CountedHolders(k) \cup {h}) = Cardinality(CountedHolders(k)) + 1
      BY <1>1, CountedFinite, FS_AddElement
    <2> QED
      BY <1>2, <1>3, <2>1, <2>2 DEF Admit
  <1>4. CASE ~Counted(c, k)
    <2>1. CountedHolders(k)' = CountedHolders(k)
      BY <1>1, <1>2, <1>4 DEF CountedHolders, Admit, Counted
    <2> QED
      BY <1>2, <1>4, <2>1 DEF Admit
  <1> QED
    BY <1>3, <1>4

LEMMA ReleaseCounts ==
  ASSUME Counts, NEW h \in Holders, Release(h)
  PROVE  ConcurrentCountsLeases'
PROOF
  <1> SUFFICES ASSUME NEW k \in Keys
               PROVE  concurrent'[k] = Cardinality(CountedHolders(k)')
    BY DEF ConcurrentCountsLeases
  <1>1. leases \in [Holders -> Calls \cup {NoLease}] /\ concurrent \in [Keys -> Nat]
        /\ concurrent[k] = Cardinality(CountedHolders(k))
    BY DEF Counts, TypeInv, TypeOK, ConcurrentCountsLeases
  <1>2. ~Counted(NoLease, k)
    BY NoLeaseIsEmpty DEF Counted
  <1>3. CASE Counted(leases[h], k)
    <2>1. h \in CountedHolders(k)
      BY <1>3 DEF CountedHolders
    <2>2. CountedHolders(k)' = CountedHolders(k) \ {h}
      BY <1>1, <1>2 DEF CountedHolders, Release, Counted
    <2>3. Cardinality(CountedHolders(k) \ {h}) = Cardinality(CountedHolders(k)) - 1
      BY <2>1, CountedFinite, FS_RemoveElement
    <2>4. Cardinality(CountedHolders(k) \ {h}) \in Nat
      BY CountedFinite, FS_RemoveElement, FS_CardinalityType
    <2>5. concurrent[k] > 0
      BY <1>1, <2>3, <2>4
    <2> QED
      BY <1>1, <1>3, <2>2, <2>3, <2>5 DEF Release
  <1>4. CASE ~Counted(leases[h], k)
    <2>1. CountedHolders(k)' = CountedHolders(k)
      BY <1>1, <1>2, <1>4 DEF CountedHolders, Release, Counted
    <2> QED
      BY <1>1, <1>4, <2>1 DEF Release
  <1> QED
    BY <1>3, <1>4

LEMMA CountsInductive == Counts /\ [Next]_vars => Counts'
PROOF
  <1> SUFFICES ASSUME Counts, [Next]_vars PROVE Counts'
    OBVIOUS
  <1>1. TypeInv'
    BY TypeInductive DEF Counts
  <1>2. CASE \E h \in Holders, c \in Calls : Admit(h, c)
    BY <1>1, <1>2, AdmitCounts DEF Counts
  <1>3. CASE \E h \in Holders : Release(h)
    BY <1>1, <1>3, ReleaseCounts DEF Counts
  <1>4. CASE UNCHANGED <<concurrent, leases>>
    BY <1>1, <1>4 DEF Counts, ConcurrentCountsLeases, CountedHolders, Counted
  <1> QED
    BY <1>2, <1>3, <1>4 DEF Next, Refuse, Clear, Tick, vars

LEMMA InitCounts == Init => Counts
PROOF
  <1> SUFFICES ASSUME Init, NEW k \in Keys
               PROVE  concurrent[k] = Cardinality(CountedHolders(k))
    BY InitType DEF Counts, ConcurrentCountsLeases
  <1>1. CountedHolders(k) = {}
    BY NoLeaseIsEmpty DEF Init, CountedHolders, Counted
  <1> QED
    BY <1>1, FS_EmptySet DEF Init

(***************************************************************************)
(* Every unit of concurrency taken by an admission is given back by        *)
(* exactly one release, whichever limits either side read and however many *)
(* reloads lie between them.                                               *)
(***************************************************************************)
THEOREM CountersBalance == Spec => []ConcurrentCountsLeases
PROOF
  <1>1. Spec => []Counts
    BY InitCounts, CountsInductive, PTL DEF Spec
  <1>2. Counts => ConcurrentCountsLeases
    BY DEF Counts
  <1> QED
    BY <1>1, <1>2, PTL

-----------------------------------------------------------------------------
Bounded == Counts /\ CapacityRespected

(* On a key no configuration leaves unlimited, every user is counted. *)
LEMMA InUseIsCounted ==
  ASSUME TypeOK, NEW k \in Keys, AlwaysCounted(k)
  PROVE  InUse(k) = CountedHolders(k)
PROOF
  BY NoLeaseIsEmpty DEF TypeOK, AlwaysCounted, InUse, CountedHolders, Counted

LEMMA BoundedInductive == Bounded /\ [Next]_vars => Bounded'
PROOF
  <1> SUFFICES ASSUME Bounded, [Next]_vars PROVE Bounded'
    OBVIOUS
  <1>1. Counts'
    BY CountsInductive DEF Bounded
  <1> SUFFICES ASSUME NEW k \in Keys, AlwaysCounted(k)
               PROVE  concurrent'[k] <= Ceiling[k].max
    <2>1. \A k \in Keys : AlwaysCounted(k) =>
            Cardinality(InUse(k)') = concurrent'[k]
      <3> SUFFICES ASSUME NEW k \in Keys, AlwaysCounted(k)
                   PROVE  Cardinality(InUse(k)') = concurrent'[k]
        OBVIOUS
      <3>1. InUse(k)' = CountedHolders(k)'
        BY <1>1, NoLeaseIsEmpty
        DEF Counts, TypeInv, TypeOK, AlwaysCounted, InUse, CountedHolders, Counted
      <3> QED
        BY <1>1, <3>1 DEF Counts, ConcurrentCountsLeases
    <2> QED
      BY <1>1, <2>1 DEF Bounded, CapacityRespected, AlwaysCounted, Counted
  <1>2. concurrent[k] <= Ceiling[k].max /\ concurrent \in [Keys -> Nat]
    BY InUseIsCounted
    DEF Bounded, Counts, TypeInv, TypeOK, ConcurrentCountsLeases, CapacityRespected
  <1>3. Ceiling[k].max \in Nat
    BY StoreAssumption DEF Limits
  <1>4. ASSUME NEW h \in Holders, NEW c \in Calls, Admit(h, c)
        PROVE  concurrent'[k] <= Ceiling[k].max
    <2>1. CASE Counted(c, k)
      <3>1. ~(concurrent[k] >= c.limits[k].max)
        BY <1>4, <2>1 DEF Admit, Admissible, Refuses, AtCapacity, Counted
      <3>2. c.limits[k].max \in Nat /\ c.limits[k].max <= Ceiling[k].max
        BY <2>1, CallsAssumption DEF Counted, Limits
      <3> QED
        BY <1>2, <1>3, <1>4, <2>1, <3>1, <3>2 DEF Admit
    <2>2. CASE ~Counted(c, k)
      BY <1>2, <1>4, <2>2 DEF Admit
    <2> QED
      BY <2>1, <2>2
  <1>5. ASSUME NEW h \in Holders, Release(h)
        PROVE  concurrent'[k] <= Ceiling[k].max
    BY <1>2, <1>3, <1>5 DEF Release
  <1>6. CASE UNCHANGED concurrent
    BY <1>2, <1>6
  <1> QED
    BY <1>4, <1>5, <1>6 DEF Next, Refuse, Clear, Tick, vars

(***************************************************************************)
(* The work in progress behind a key never exceeds the largest limit that  *)
(* any configuration in force while it was admitted gives the key.         *)
(***************************************************************************)
THEOREM CapacityHolds == Spec => []CapacityRespected
PROOF
  <1>1. Init => Bounded
    <2> SUFFICES ASSUME Init, NEW k \in Keys
                 PROVE  Cardinality(InUse(k)) <= Ceiling[k].max
      BY InitCounts DEF Bounded, CapacityRespected
    <2>1. InUse(k) = {}
      BY NoLeaseIsEmpty DEF Init, InUse
    <2> QED
      BY <2>1, FS_EmptySet, StoreAssumption DEF Limits
  <1>2. Spec => []Bounded
    BY <1>1, BoundedInductive, PTL DEF Spec
  <1>3. Bounded => CapacityRespected
    BY DEF Bounded
  <1> QED
    BY <1>2, <1>3, PTL

-----------------------------------------------------------------------------
(***************************************************************************)
(* A refusal, a release and a reload leave everybody at least as much as   *)
(* they had (limiter.go:45-46).  The heart of it: a refusal on rate stores *)
(* only a bucket that was empty for every call with the same rate.         *)
(***************************************************************************)
THEOREM RefusalsAreFree == Spec => RefusalIsFree
PROOF
  <1> DEFINE Grants == ~(clock' = clock
                         /\ \A h \in Holders : leases'[h] \in {leases[h], NoLease})
             Keeps(d) == (\A k \in DOMAIN d.limits : SameRateEverywhere(k))
                           /\ Admissible(d) => Admissible(d)'
  <1>1. ASSUME TypeInv, [Next]_vars, ~Grants, NEW d \in Calls
        PROVE  Keeps(d)
    <2> SUFFICES ASSUME \A k \in DOMAIN d.limits : SameRateEverywhere(k),
                        Admissible(d), NEW k \in DOMAIN d.limits
                 PROVE  ~AtCapacity(d, k)' /\ ~OutOfTokens(d, k)'
      BY DEF Admissible, Refuses, Rated, Counted
    <2>1. ~AtCapacity(d, k) /\ ~OutOfTokens(d, k)
      BY DEF Admissible, Refuses
    <2>2. k \in Keys /\ d.limits[k] \in Limits
      BY CallsAssumption
    <2>3. CASE \E h \in Holders, c \in Calls : Admit(h, c)
      <3>1. PICK h \in Holders, c \in Calls : Admit(h, c)
        BY <2>3
      <3>2. c # NoLease
        BY CallsAssumption DEF NoLease
      <3>3. leases'[h] = c /\ leases[h] = NoLease
        BY <1>1, <3>1 DEF Admit, TypeInv, TypeOK
      <3> QED
        BY <1>1, <3>2, <3>3
    <2>4. CASE \E c \in Calls : Refuse(c)
      <3>1. PICK c \in Calls : Refuse(c)
        BY <2>4
      <3>2. PICK i \in DOMAIN c.order :
              /\ Refuses(c, c.order[i])
              /\ buckets' = IF AtCapacity(c, c.order[i])
                            THEN buckets
                            ELSE [x \in DOMAIN buckets \cup {c.order[i]} |->
                                    IF x = c.order[i] THEN Refill(c, c.order[i])
                                                      ELSE buckets[x]]
        BY <3>1 DEF Refuse
      <3>3. ~AtCapacity(d, k)'
        BY <2>1, <3>1 DEF Refuse, AtCapacity, Counted
      <3>4. CASE AtCapacity(c, c.order[i])
        BY <2>1, <3>1, <3>2, <3>3, <3>4 DEF Refuse, OutOfTokens, Rated, Refill
      <3>5. CASE ~AtCapacity(c, c.order[i])
        <4>1. Rated(c, c.order[i]) /\ Refill(c, c.order[i]).tokens < Unit
          BY <3>2, <3>5 DEF Refuses, OutOfTokens
        <4>2. CASE k = c.order[i]
          <5>1. c.limits[k].rpm = d.limits[k].rpm /\ c.limits[k].burst = d.limits[k].burst
            BY <4>1, <4>2 DEF SameRateEverywhere, Rated
          <5>2. Refill(c, k) = Refill(d, k)
            BY <5>1 DEF Refill
          <5>3. OutOfTokens(d, k)
            BY <4>1, <4>2, <5>1, <5>2 DEF OutOfTokens, Rated
          <5> QED
            BY <2>1, <5>3
        <4>3. CASE k # c.order[i]
          <5>1. (k \in DOMAIN buckets' <=> k \in DOMAIN buckets)
                /\ (k \in DOMAIN buckets => buckets'[k] = buckets[k])
            BY <3>2, <3>5, <4>3
          <5>2. Refill(d, k)' = Refill(d, k)
            BY <5>1, <3>1 DEF Refill, Refuse
          <5> QED
            BY <2>1, <3>3, <5>2 DEF OutOfTokens, Rated
        <4> QED
          BY <4>2, <4>3
      <3> QED
        BY <3>4, <3>5
    <2>5. CASE \E h \in Holders : Release(h)
      <3>1. PICK h \in Holders : Release(h)
        BY <2>5
      <3>2. concurrent[k] \in Nat /\ concurrent'[k] \in Nat
            /\ concurrent'[k] <= concurrent[k]
        BY <1>1, <2>2, <3>1 DEF Release, TypeInv, TypeOK
      <3>3. ~AtCapacity(d, k)'
        BY <2>1, <2>2, <3>2 DEF AtCapacity, Counted, Limits
      <3> QED
        BY <2>1, <3>1, <3>3 DEF Release, OutOfTokens, Rated, Refill
    <2>6. CASE Clear
      <3>1. ~AtCapacity(d, k)'
        BY <2>1, <2>6 DEF Clear, AtCapacity, Counted
      <3>2. Refill(d, k)'.tokens = d.limits[k].burst * Unit
        BY <2>6 DEF Clear, Refill
      <3>3. Refill(d, k) \in Bucket
        BY <1>1, RefillType DEF TypeInv, NotAhead
      <3>4. d.limits[k].burst * Unit \in Nat
        BY <2>2, StoreAssumption DEF Limits
      <3>5. Refill(d, k).tokens <= d.limits[k].burst * Unit
        <4> DEFINE full == d.limits[k].burst * Unit
                   t == buckets[k].tokens
                          + (clock - buckets[k].updated) * d.limits[k].rpm
        <4>1. full \in Nat
          BY <3>4
        <4> HIDE DEF full, t
        <4>2. CASE k \in DOMAIN buckets
          <5>1. Refill(d, k).tokens = IF t < full THEN t ELSE full
            BY <4>2 DEF Refill, Smaller, t, full
          <5>2. Refill(d, k).tokens \in Nat
            BY <3>3 DEF Bucket
          <5>3. Refill(d, k).tokens <= full
            BY <4>1, <5>1, <5>2
          <5> QED
            BY <5>3 DEF full
        <4>3. CASE k \notin DOMAIN buckets
          BY <3>4, <4>3 DEF Refill
        <4> QED
          BY <4>2, <4>3
      <3> QED
        BY <2>1, <3>1, <3>2, <3>3, <3>4, <3>5, StoreAssumption
        DEF OutOfTokens, Rated, Bucket
    <2>7. CASE Tick
      BY <1>1, <2>7 DEF Tick, TypeInv, TypeOK
    <2>8. CASE UNCHANGED vars
      BY <2>1, <2>8 DEF vars, AtCapacity, OutOfTokens, Counted, Rated, Refill
    <2> QED
      BY <1>1, <2>3, <2>4, <2>5, <2>6, <2>7, <2>8 DEF Next
  <1>2. Spec => []TypeInv
    BY InitType, TypeInductive, PTL DEF Spec
  <1>3. TypeInv /\ [Next]_vars =>
          [~Grants => \A d \in Calls : Keeps(d)]_vars
    BY <1>1
  <1>4. [~Grants => \A d \in Calls : Keeps(d)]_vars =>
          [(clock' = clock /\ \A h \in Holders : leases'[h] \in {leases[h], NoLease}) =>
             \A c \in Calls :
               (\A k \in DOMAIN c.limits : SameRateEverywhere(k)) /\ Admissible(c)
                 => Admissible(c)']_vars
    OBVIOUS
  <1> QED
    BY <1>2, <1>3, <1>4, PTL DEF Spec, RefusalIsFree

-----------------------------------------------------------------------------
(***************************************************************************)
(* The rate limit holds in every window, for every configuration.          *)
(***************************************************************************)

(* Arithmetic the solver needs spelled out. *)
LEMMA TimesMonotone ==
  ASSUME NEW a \in Nat, NEW b \in Nat, NEW c \in Nat, a <= b
  PROVE  a * c <= b * c
PROOF
  <1>1. (b - a) \in Nat
    OBVIOUS
  <1>2. (b - a) * c \in Nat
    BY <1>1
  <1>3. b * c = a * c + (b - a) * c
    OBVIOUS
  <1>4. a * c \in Nat /\ b * c \in Nat
    OBVIOUS
  <1> QED
    BY <1>2, <1>3, <1>4

LEMMA TimesSplit ==
  ASSUME NEW r \in Nat, NEW x \in Nat, NEW y \in Nat, NEW z \in Nat,
         x <= y, y <= z
  PROVE  /\ r * (y - x) \in Nat
         /\ r * (z - y) \in Nat
         /\ r * (z - x) = r * (y - x) + r * (z - y)
PROOF
  <1>1. y - x \in Nat /\ z - y \in Nat
    OBVIOUS
  <1>2. z - x = (y - x) + (z - y)
    OBVIOUS
  <1> QED
    BY <1>1, <1>2

WInv == WTypeOK /\ NotAhead /\ BucketAccounts

(* What the constants and the types give for one key. *)
LEMMA KeyFacts ==
  ASSUME WInv, NEW k \in Keys
  PROVE  /\ Unit \in Nat /\ Unit > 0
         /\ Ceiling[k].rpm \in Nat /\ Full(k) \in Nat
         /\ window[k].start \in Nat /\ window[k].taken \in Nat
         /\ clock \in Nat /\ window[k].start <= clock
         /\ window[k].taken * Unit \in Nat
         /\ Ceiling[k].rpm * (clock - window[k].start) \in Nat
         /\ k \in DOMAIN buckets =>
              buckets[k].tokens \in Nat /\ buckets[k].updated \in Nat
PROOF
  <1>1. Unit \in Nat /\ Unit > 0 /\ Ceiling[k].rpm \in Nat /\ Ceiling[k].burst \in Nat
    BY StoreAssumption DEF Limits
  <1>2. Full(k) \in Nat
    BY <1>1 DEF Full
  <1>3. window[k].start \in Nat /\ window[k].taken \in Nat /\ clock \in Nat
    BY DEF WInv, WTypeOK, TypeOK
  <1>4. window[k].start <= clock
    BY DEF WInv, BucketAccounts
  <1>5. window[k].taken * Unit \in Nat
    BY <1>1, <1>3
  <1>6. clock - window[k].start \in Nat
    BY <1>3, <1>4
  <1>7. Ceiling[k].rpm * (clock - window[k].start) \in Nat
    BY <1>1, <1>6
  <1>8. k \in DOMAIN buckets => buckets[k].tokens \in Nat /\ buckets[k].updated \in Nat
    BY DEF WInv, WTypeOK, TypeOK, Bucket
  <1> QED
    BY <1>1, <1>2, <1>3, <1>4, <1>5, <1>7, <1>8

(***************************************************************************)
(* The accounts still balance when a bucket is refilled up to now: the     *)
(* elapsed time pays for the tokens it adds, the cap for the rest.         *)
(***************************************************************************)
LEMMA RefillAccounts ==
  ASSUME WInv, NEW c \in Calls, NEW k \in DOMAIN c.limits
  PROVE  /\ Refill(c, k).tokens <= Full(k)
         /\ window[k].taken * Unit + Refill(c, k).tokens
              <= Full(k) + Ceiling[k].rpm * (clock - window[k].start)
PROOF
  <1> DEFINE r == c.limits[k].rpm
             full == c.limits[k].burst * Unit
             R == Ceiling[k].rpm
             used == window[k].taken * Unit
             s == window[k].start
  <1>1. k \in Keys /\ r \in Nat /\ r <= R /\ c.limits[k].burst \in Nat
        /\ c.limits[k].burst <= Ceiling[k].burst
    BY CallsAssumption DEF Limits
  <1>2. full \in Nat /\ full <= Full(k)
    <2>1. Ceiling[k].burst \in Nat
      BY <1>1, StoreAssumption DEF Limits
    <2> QED
      BY <1>1, <2>1, TimesMonotone, StoreAssumption DEF Full
  <1>3. /\ R \in Nat /\ Full(k) \in Nat /\ s \in Nat /\ used \in Nat
        /\ clock \in Nat /\ s <= clock /\ R * (clock - s) \in Nat
    BY <1>1, KeyFacts
  <1>4. Refill(c, k) \in Bucket
    BY RefillType DEF WInv, WTypeOK, NotAhead
  <1>5. Refill(c, k).tokens \in Nat
    BY <1>4 DEF Bucket
  <1>6. Refill(c, k).tokens <= full
    <2>1. CASE k \in DOMAIN buckets
      <3> DEFINE t == buckets[k].tokens + (clock - buckets[k].updated) * r
      <3>1. Refill(c, k).tokens = IF t < full THEN t ELSE full
        BY <2>1 DEF Refill, Smaller
      <3> HIDE DEF t, full
      <3> QED
        BY <1>2, <1>5, <3>1
    <2>2. CASE k \notin DOMAIN buckets
      BY <1>2, <2>2 DEF Refill
    <2> QED
      BY <2>1, <2>2
  <1>7. Refill(c, k).tokens <= Full(k)
    <2> HIDE DEF full
    <2> QED
      BY <1>2, <1>3, <1>5, <1>6
  <1>8. CASE window[k].taken = 0
    <2>1. used = 0
      BY <1>8, StoreAssumption
    <2> HIDE DEF used, R
    <2>2. used + Refill(c, k).tokens <= Full(k) + R * (clock - s)
      BY <1>3, <1>5, <1>7, <2>1
    <2> QED
      BY <1>7, <2>2 DEF used, R
  <1>9. CASE window[k].taken # 0
    <2>1. k \in DOMAIN buckets
      BY <1>1, <1>9 DEF WInv, BucketAccounts
    <2> DEFINE u == buckets[k].updated
               b == buckets[k].tokens
               e == (clock - u) * r
    <2>2. u \in Nat /\ b \in Nat /\ u <= clock /\ s <= u
      BY <1>1, <1>3, <1>9, <2>1, KeyFacts DEF WInv, BucketAccounts
    <2>3. used + b <= Full(k) + R * (u - s)
      BY <2>1, <2>2, <1>3 DEF WInv, BucketAccounts, Earned
    <2>4. /\ R * (u - s) \in Nat
          /\ R * (clock - u) \in Nat
          /\ R * (clock - s) = R * (u - s) + R * (clock - u)
      BY <1>3, <2>2, TimesSplit
    <2>5. clock - u \in Nat
      BY <1>3, <2>2
    <2>6. r * (clock - u) <= R * (clock - u)
      BY <1>1, <1>3, <2>5, TimesMonotone
    <2>7. e = r * (clock - u) /\ e \in Nat
      BY <1>1, <2>5
    <2>8. Refill(c, k).tokens <= b + e
      <3>1. Refill(c, k).tokens = IF b + e < full THEN b + e ELSE full
        BY <2>1 DEF Refill, Smaller
      <3> HIDE DEF e, full, b
      <3> QED
        BY <1>2, <2>2, <2>7, <3>1
    <2> DEFINE A == R * (u - s)
               B == R * (clock - u)
               C == R * (clock - s)
               T == Refill(c, k).tokens
    <2>9. used + T <= Full(k) + C
      <3>1. e <= B
        BY <2>6, <2>7
      <3>2. A \in Nat /\ B \in Nat /\ C = A + B /\ used + b <= Full(k) + A
            /\ T <= b + e /\ e \in Nat /\ b \in Nat /\ T \in Nat /\ used \in Nat
            /\ Full(k) \in Nat
        BY <1>3, <1>5, <2>2, <2>3, <2>4, <2>7, <2>8
      <3> HIDE DEF A, B, C, T, e, b, used
      <3> QED
        BY <3>1, <3>2
    <2> QED
      BY <1>7, <2>9
  <1> QED
    BY <1>8, <1>9

(* What one key owes to the accounts; BucketAccounts is this for every key. *)
KeyAccounts(k) ==
  /\ window[k].start <= clock
  /\ k \in DOMAIN buckets =>
       /\ buckets[k].updated <= clock
       /\ buckets[k].tokens <= Full(k)
       /\ buckets[k].updated < window[k].start => window[k].taken = 0
       /\ window[k].taken * Unit + buckets[k].tokens <= Full(k) + Earned(k)
  /\ k \notin DOMAIN buckets => window[k].taken = 0

LEMMA AccountsByKey ==
  ASSUME TypeOK
  PROVE  BucketAccounts <=> \A k \in Keys : KeyAccounts(k)
PROOF
  BY DEF TypeOK, BucketAccounts, KeyAccounts

LEMMA UntouchedKey ==
  ASSUME NEW k \in Keys, KeyAccounts(k), UNCHANGED <<clock, window[k]>>,
         k \in DOMAIN buckets <=> k \in DOMAIN buckets',
         k \in DOMAIN buckets => buckets'[k] = buckets[k]
  PROVE  KeyAccounts(k)'
PROOF
  BY DEF KeyAccounts, Earned, Full

LEMMA WAdmitAccounts ==
  ASSUME WInv, NEW h \in Holders, NEW c \in Calls, WAdmit(h, c), NEW k \in Keys
  PROVE  KeyAccounts(k)'
PROOF
  <1>0. KeyAccounts(k)
    BY AccountsByKey DEF WInv, WTypeOK
  <1>1. CASE ~Rated(c, k)
    <2>1. window'[k] = window[k] /\ clock' = clock
      BY <1>1 DEF WAdmit, Admit
    <2>2. (k \in DOMAIN buckets <=> k \in DOMAIN buckets')
          /\ (k \in DOMAIN buckets => buckets'[k] = buckets[k])
      BY <1>1 DEF WAdmit, Admit
    <2> QED
      BY <1>0, <2>1, <2>2, UntouchedKey
  <1>2. CASE Rated(c, k)
    <2> DEFINE T == Refill(c, k).tokens
               n == window[k].taken
               C == Ceiling[k].rpm * (clock - window[k].start)
    <2>1. k \in DOMAIN c.limits
      BY <1>2 DEF Rated
    <2>2. T <= Full(k) /\ n * Unit + T <= Full(k) + C
      BY <2>1, RefillAccounts
    <2>3. T \in Nat
      BY <2>1, RefillType DEF WInv, WTypeOK, NotAhead, Bucket
    <2>4. ~(T < Unit)
      BY <1>2, <2>1 DEF WAdmit, Admit, Admissible, Refuses, OutOfTokens
    <2>5. /\ Unit \in Nat /\ Full(k) \in Nat /\ n \in Nat /\ n * Unit \in Nat
          /\ C \in Nat /\ clock \in Nat /\ window[k].start \in Nat
          /\ window[k].start <= clock
      BY KeyFacts
    <2>6. /\ k \in DOMAIN buckets'
          /\ buckets'[k] = [tokens |-> T - Unit, updated |-> clock]
          /\ clock' = clock
      BY <1>2 DEF WAdmit, Admit
    <2>7. window'[k] = [window[k] EXCEPT !.taken = n + 1]
      BY <1>2 DEF WAdmit
    <2>8. window'[k].taken = n + 1 /\ window'[k].start = window[k].start
      BY <2>7 DEF WInv, WTypeOK
    <2>9. (n + 1) * Unit = n * Unit + Unit
      BY <2>5
    <2>10. (n + 1) * Unit + (T - Unit) <= Full(k) + C /\ T - Unit <= Full(k)
      <3> DEFINE P == n * Unit
                 Q == (n + 1) * Unit
      <3>1. Q = P + Unit /\ P \in Nat /\ P + T <= Full(k) + C
        BY <2>2, <2>5, <2>9
      <3> HIDE DEF P, Q, T, C
      <3>2. Q + (T - Unit) <= Full(k) + C /\ T - Unit <= Full(k)
        BY <3>1, <2>2, <2>3, <2>5
      <3> QED
        BY <3>2 DEF P, Q
    <2>11. Earned(k)' = C
      BY <2>5, <2>6, <2>8 DEF Earned
    <2>12. Full(k)' = Full(k)
      BY DEF Full
    <2> HIDE DEF T, C
    <2> QED
      BY <2>5, <2>6, <2>8, <2>10, <2>11, <2>12 DEF KeyAccounts
  <1> QED
    BY <1>1, <1>2

LEMMA RefuseAccounts ==
  ASSUME WInv, NEW c \in Calls, Refuse(c), UNCHANGED window, NEW k \in Keys
  PROVE  KeyAccounts(k)'
PROOF
  <1>0. KeyAccounts(k)
    BY AccountsByKey DEF WInv, WTypeOK
  <1>1. PICK i \in DOMAIN c.order :
          buckets' = IF AtCapacity(c, c.order[i])
                     THEN buckets
                     ELSE [x \in DOMAIN buckets \cup {c.order[i]} |->
                             IF x = c.order[i] THEN Refill(c, c.order[i])
                                               ELSE buckets[x]]
    BY DEF Refuse
  <1>2. clock' = clock
    BY DEF Refuse
  <1>3. CASE AtCapacity(c, c.order[i]) \/ k # c.order[i]
    <2>1. (k \in DOMAIN buckets <=> k \in DOMAIN buckets')
          /\ (k \in DOMAIN buckets => buckets'[k] = buckets[k])
      BY <1>1, <1>3
    <2> QED
      BY <1>0, <1>2, <2>1, UntouchedKey
  <1>4. CASE ~AtCapacity(c, c.order[i]) /\ k = c.order[i]
    <2>1. k \in DOMAIN c.limits
      BY <1>4, CallsAssumption
    <2>2. k \in DOMAIN buckets' /\ buckets'[k] = Refill(c, k)
          /\ Refill(c, k).updated = clock
      BY <1>1, <1>4 DEF Refill
    <2>3. window[k].start \in Nat /\ clock \in Nat /\ window[k].start <= clock
      BY KeyFacts
    <2>4. Earned(k)' = Ceiling[k].rpm * (clock - window[k].start)
      BY <1>2, <2>2, <2>3 DEF Earned
    <2>5. Full(k)' = Full(k)
      BY DEF Full
    <2> QED
      BY <1>2, <2>1, <2>2, <2>3, <2>4, <2>5, RefillAccounts DEF KeyAccounts
  <1> QED
    BY <1>3, <1>4

(* A window that starts empty owes nothing. *)
LEMMA FreshWindow ==
  ASSUME WInv, NEW k \in Keys, clock' = clock, window'[k] = [start |-> clock, taken |-> 0],
         buckets' = buckets \/ buckets' = << >>
  PROVE  KeyAccounts(k)'
PROOF
  <1>1. /\ Full(k) \in Nat /\ clock \in Nat /\ 0 * Unit = 0 /\ Ceiling[k].rpm \in Nat
        /\ (k \in DOMAIN buckets => buckets[k].tokens \in Nat /\ buckets[k].updated \in Nat)
    BY KeyFacts
  <1>2. k \in DOMAIN buckets =>
          buckets[k].updated <= clock /\ buckets[k].tokens <= Full(k)
    BY DEF WInv, BucketAccounts
  <1>3. CASE buckets' = << >>
    BY <1>1, <1>3 DEF KeyAccounts
  <1>4. CASE buckets' = buckets
    <2>1. k \in DOMAIN buckets => Earned(k)' = 0
      BY <1>1, <1>2, <1>4 DEF Earned
    <2> QED
      BY <1>1, <1>2, <1>4, <2>1 DEF KeyAccounts, Full
  <1> QED
    BY <1>3, <1>4

LEMMA WTypeInductive == WTypeOK /\ NotAhead /\ [WNext]_wvars => WTypeOK' /\ NotAhead'
PROOF
  <1> SUFFICES ASSUME WTypeOK, NotAhead, [WNext]_wvars PROVE WTypeOK' /\ NotAhead'
    OBVIOUS
  <1>1. [Next]_vars
    BY DEF WNext, Next, WAdmit, WClear, OpenWindow, wvars, vars
  <1>2. TypeInv'
    BY <1>1, TypeInductive DEF TypeInv, WTypeOK
  <1>3. window' \in [Keys -> [start: Nat, taken: Nat]]
    BY WatchedAssumption DEF WTypeOK, TypeOK, WNext, WAdmit, WClear, OpenWindow, wvars
  <1> QED
    BY <1>2, <1>3 DEF TypeInv, WTypeOK

LEMMA AccountsInductive == WInv /\ [WNext]_wvars => WInv'
PROOF
  <1> SUFFICES ASSUME WInv, [WNext]_wvars PROVE WInv'
    OBVIOUS
  <1>1. WTypeOK' /\ NotAhead'
    BY WTypeInductive DEF WInv
  <1>2. \A k \in Keys : KeyAccounts(k)
    BY AccountsByKey DEF WInv, WTypeOK
  <1> SUFFICES ASSUME NEW k \in Keys PROVE KeyAccounts(k)'
    BY <1>1 DEF WInv, WTypeOK, TypeOK, BucketAccounts, KeyAccounts
  <1>3. CASE \E h \in Holders, c \in Calls : WAdmit(h, c)
    BY <1>3, WAdmitAccounts
  <1>4. CASE \E c \in Calls : Refuse(c) /\ UNCHANGED window
    BY <1>4, RefuseAccounts
  <1>5. CASE UNCHANGED <<buckets, clock, window>>
    BY <1>2, <1>5, UntouchedKey
  <1>6. CASE WClear
    BY <1>6, FreshWindow DEF WClear, Clear
  <1>7. CASE Tick /\ UNCHANGED window
    <2>1. clock' = clock + 1 /\ UNCHANGED <<buckets, window>> /\ clock \in Nat
          /\ window[k].start \in Nat
      BY <1>7, KeyFacts DEF Tick
    <2>2. k \in DOMAIN buckets => buckets[k].updated \in Nat
      BY KeyFacts
    <2> QED
      BY <1>2, <2>1, <2>2 DEF KeyAccounts, Earned, Full
  <1>8. CASE \E q \in Watched : OpenWindow(q)
    <2>1. PICK q \in Keys : OpenWindow(q)
      BY <1>8, WatchedAssumption
    <2>2. CASE k = q
      BY <2>1, <2>2, FreshWindow DEF OpenWindow, vars, WInv, WTypeOK
    <2>3. CASE k # q
      BY <1>2, <2>1, <2>3, UntouchedKey DEF OpenWindow, vars, WInv, WTypeOK
    <2> QED
      BY <2>2, <2>3
  <1> QED
    BY <1>3, <1>4, <1>5, <1>6, <1>7, <1>8 DEF WNext, Release, wvars, vars

LEMMA AccountsBoundRate == WInv => RateBounded
PROOF
  <1> SUFFICES ASSUME WInv, NEW k \in Keys
               PROVE  window[k].taken * Unit
                        <= Full(k) + Ceiling[k].rpm * (clock - window[k].start)
    BY DEF RateBounded
  <1> DEFINE n == window[k].taken * Unit
             s == window[k].start
             R == Ceiling[k].rpm
             C == R * (clock - s)
  <1>1. /\ Unit \in Nat /\ Full(k) \in Nat /\ n \in Nat /\ C \in Nat /\ R \in Nat
        /\ s \in Nat /\ clock \in Nat /\ s <= clock
    BY KeyFacts
  <1>2. CASE window[k].taken = 0
    <2>1. n = 0
      BY <1>1, <1>2
    <2>2. n <= Full(k) + C
      <3> HIDE DEF n, C
      <3> QED
        BY <1>1, <2>1
    <2> QED
      BY <2>2
  <1>3. CASE window[k].taken # 0
    <2> DEFINE u == buckets[k].updated
               b == buckets[k].tokens
               A == R * (u - s)
               B == R * (clock - u)
    <2>1. k \in DOMAIN buckets
      BY <1>3 DEF WInv, BucketAccounts
    <2>2. u \in Nat /\ b \in Nat /\ u <= clock /\ s <= u
      BY <1>1, <1>3, <2>1, KeyFacts DEF WInv, BucketAccounts
    <2>3. n + b <= Full(k) + A
      <3>1. s \in Nat
        BY <1>1
      <3>2. Earned(k) = A
        BY <2>2, <3>1 DEF Earned
      <3> QED
        BY <2>1, <3>2 DEF WInv, BucketAccounts
    <2>4. A \in Nat /\ B \in Nat /\ C = A + B
      <3>1. R \in Nat /\ s \in Nat /\ u \in Nat /\ clock \in Nat /\ s <= u /\ u <= clock
        BY <1>1, <2>2
      <3> HIDE DEF R, s, u
      <3> QED
        BY <3>1, TimesSplit
    <2>5. n <= Full(k) + C
      <3> HIDE DEF n, A, B, C, b
      <3> QED
        BY <1>1, <2>2, <2>3, <2>4
    <2> QED
      BY <2>5
  <1> QED
    BY <1>2, <1>3

LEMMA WInitInv == WInit => WInv
PROOF
  <1> SUFFICES ASSUME WInit PROVE WInv
    OBVIOUS
  <1>1. TypeInv
    BY InitType DEF WInit
  <1>2. window \in [Keys -> [start: Nat, taken: Nat]]
    BY DEF WInit
  <1>3. BucketAccounts
    BY DEF WInit, Init, BucketAccounts
  <1> QED
    BY <1>1, <1>2, <1>3 DEF WInv, WTypeOK, TypeInv

(***************************************************************************)
(* For every rate, burst, number of keys and holders: a window of length t *)
(* admits at most burst + rpm * t calls through a key (limiter.go:54-79).  *)
(***************************************************************************)
THEOREM RateHolds == WSpec => []RateBounded
PROOF
  <1>1. WSpec => []WInv
    BY WInitInv, AccountsInductive, PTL DEF WSpec
  <1> QED
    BY <1>1, AccountsBoundRate, PTL
=============================================================================
