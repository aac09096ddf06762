----------------------------- MODULE LimitStore -----------------------------
(***************************************************************************)
(* internal/gateway/limiter.go: the store behind every admission decision. *)
(*                                                                         *)
(* The store keeps one token bucket and one concurrency counter per scope  *)
(* key ("ingress", "client:<id>", "model:<alias>", "provider:<name>").     *)
(* Every operation runs under limitStore.mu, so each is one action.        *)
(*                                                                         *)
(* A call of admit is a record: `order' lists the scope keys in the order  *)
(* of the argument list, `limits' gives each of them the config.Limits the *)
(* caller read from ITS configuration snapshot.  Two callers may therefore *)
(* pass different limits for one key: that is what a reload looks like     *)
(* from here.                                                              *)
(*                                                                         *)
(* Tokens are kept in units, Unit of them to one token, and rpm is the     *)
(* number of units a bucket gains per clock tick: the float64 arithmetic   *)
(* of the code on exact fractions.                                         *)
(***************************************************************************)
EXTENDS Integers, Sequences, FiniteSets

CONSTANTS
  Keys,      \* scope keys
  Holders,   \* the release closures that may be outstanding
  Calls,     \* the admissions callers may ask for, under any configuration
  Unit,      \* units in one token
  Ceiling,   \* per key, the largest limits any configuration gives it
  MaxClock   \* bound on the clock

Limits == [rpm: Nat, burst: Nat, max: Nat]

(***************************************************************************)
(* What config.Validate lets through, and what the callers in gateway.go   *)
(* pass: the keys of one call are distinct, limits are never negative.     *)
(***************************************************************************)
ASSUME StoreAssumption ==
  /\ IsFiniteSet(Holders)
  /\ Unit \in Nat \ {0}
  /\ MaxClock \in Nat
  /\ Ceiling \in [Keys -> Limits]

ASSUME CallsAssumption ==
  \A c \in Calls :
    /\ c.order \in Seq(Keys)
    /\ c.order # << >>
    /\ DOMAIN c.limits = {c.order[i] : i \in DOMAIN c.order}
    /\ \A i, j \in DOMAIN c.order : c.order[i] = c.order[j] => i = j
    /\ \A k \in DOMAIN c.limits :
         /\ c.limits[k] \in Limits
         /\ c.limits[k].rpm <= Ceiling[k].rpm
         /\ c.limits[k].burst <= Ceiling[k].burst
         /\ c.limits[k].max <= Ceiling[k].max

VARIABLES
  buckets,     \* limitStore.buckets: a map that grows as keys are first used
  concurrent,  \* limitStore.concurrent; 0 stands for an absent key
  leases,      \* per holder, the call whose release closure it still owns
  clock        \* time.Now() as the store sees it: it never goes back

vars == <<buckets, concurrent, leases, clock>>

NoLease == [order |-> << >>, limits |-> << >>]

Bucket == [tokens: Nat, updated: Nat]

TypeOK ==
  /\ DOMAIN buckets \subseteq Keys
  /\ buckets \in [DOMAIN buckets -> Bucket]
  /\ concurrent \in [Keys -> Nat]
  /\ leases \in [Holders -> Calls \cup {NoLease}]
  /\ clock \in Nat

Init ==
  /\ buckets = << >>
  /\ concurrent = [k \in Keys |-> 0]
  /\ leases = [h \in Holders |-> NoLease]
  /\ clock = 0

-----------------------------------------------------------------------------
(* The decision of admit for one scope. *)

Rated(c, k) == k \in DOMAIN c.limits /\ c.limits[k].rpm > 0

Counted(c, k) == k \in DOMAIN c.limits /\ c.limits[k].max > 0

Smaller(a, b) == IF a < b THEN a ELSE b

(* Mutant: the elapsed time is credited but not capped at the burst. *)
RefillUncapped(c, k) ==
  [tokens  |-> IF k \in DOMAIN buckets
               THEN buckets[k].tokens + (clock - buckets[k].updated) * c.limits[k].rpm
               ELSE c.limits[k].burst * Unit,
   updated |-> clock]

(* A new bucket starts full; an old one earns rpm per tick up to its burst. *)
Refill(c, k) ==
  LET full == c.limits[k].burst * Unit
  IN  [tokens  |-> IF k \in DOMAIN buckets
                   THEN Smaller(buckets[k].tokens
                                  + (clock - buckets[k].updated) * c.limits[k].rpm,
                                full)
                   ELSE full,
       updated |-> clock]

(* Mutant: one more than the limit is let in. *)
AtCapacityOffByOne(c, k) == Counted(c, k) /\ concurrent[k] > c.limits[k].max

AtCapacity(c, k) == Counted(c, k) /\ concurrent[k] >= c.limits[k].max

(* Mutant: a fraction of a token is taken for a whole one. *)
OutOfTokensAtZero(c, k) == Rated(c, k) /\ Refill(c, k).tokens <= 0

OutOfTokens(c, k) == Rated(c, k) /\ Refill(c, k).tokens < Unit

Refuses(c, k) == AtCapacity(c, k) \/ OutOfTokens(c, k)

(* Every scope is examined before anything is consumed. *)
Admissible(c) == \A k \in DOMAIN c.limits : ~Refuses(c, k)

-----------------------------------------------------------------------------
(* admit, granted: one token and one unit of concurrency from every scope   *)
(* that limits them; the closure returned captures the call.                *)
Admit(h, c) ==
  /\ leases[h] = NoLease
  /\ Admissible(c)
  /\ buckets' = [k \in DOMAIN buckets \cup {x \in Keys : Rated(c, x)} |->
                   IF Rated(c, k)
                   THEN [tokens  |-> Refill(c, k).tokens - Unit,
                         updated |-> clock]
                   ELSE buckets[k]]
  /\ concurrent' = [k \in Keys |-> IF Counted(c, k) THEN concurrent[k] + 1
                                                    ELSE concurrent[k]]
  /\ leases' = [leases EXCEPT ![h] = c]
  /\ UNCHANGED clock

(* Mutant: each scope is charged as it is examined, and not given back when *)
(* a later scope says no.                                                   *)
RefuseConsuming(c) ==
  /\ \E i \in DOMAIN c.order :
       LET passed == {c.order[j] : j \in 1 .. i - 1}
           spent  == {k \in passed : Rated(c, k)}
       IN  /\ \A k \in passed : ~Refuses(c, k)
           /\ Refuses(c, c.order[i])
           /\ buckets' = [x \in DOMAIN buckets \cup spent |->
                             IF x \in spent
                             THEN [tokens  |-> Refill(c, x).tokens - Unit,
                                   updated |-> clock]
                             ELSE buckets[x]]
           /\ concurrent' = [k \in Keys |->
                                IF k \in passed /\ Counted(c, k)
                                THEN concurrent[k] + 1 ELSE concurrent[k]]
  /\ UNCHANGED <<leases, clock>>

(* admit, refused by the first scope in argument order that says no.  The   *)
(* refreshed bucket of that scope is stored when it was the rate that said  *)
(* no; the scopes already examined leave no trace.                          *)
Refuse(c) ==
  /\ \E i \in DOMAIN c.order :
       LET k == c.order[i] IN
         /\ \A j \in 1 .. i - 1 : ~Refuses(c, c.order[j])
         /\ Refuses(c, k)
         /\ buckets' = IF AtCapacity(c, k)
                       THEN buckets
                       ELSE [x \in DOMAIN buckets \cup {k} |->
                               IF x = k THEN Refill(c, k) ELSE buckets[x]]
  /\ UNCHANGED <<concurrent, leases, clock>>

(* The release closure.  It decrements for the limits it captured, whatever *)
(* the configuration has become.                                            *)
Release(h) ==
  /\ leases[h] # NoLease
  /\ concurrent' = [k \in Keys |->
                      IF Counted(leases[h], k) /\ concurrent[k] > 0
                      THEN concurrent[k] - 1 ELSE concurrent[k]]
  /\ leases' = [leases EXCEPT ![h] = NoLease]
  /\ UNCHANGED <<buckets, clock>>

(* Mutant: the reservations are forgotten with the rate history. *)
ClearEverything ==
  /\ buckets' = << >>
  /\ concurrent' = [k \in Keys |-> 0]
  /\ UNCHANGED <<leases, clock>>

(* clear, called by Gateway.Reload: rate history goes, reservations stay. *)
Clear ==
  /\ buckets' = << >>
  /\ UNCHANGED <<concurrent, leases, clock>>

(* Time passes between two operations. *)
Tick ==
  /\ clock < MaxClock
  /\ clock' = clock + 1
  /\ UNCHANGED <<buckets, concurrent, leases>>

Next ==
  \/ \E h \in Holders, c \in Calls : Admit(h, c)
  \/ \E c \in Calls : Refuse(c)
  \/ \E h \in Holders : Release(h)
  \/ Clear
  \/ Tick

Spec == Init /\ [][Next]_vars

-----------------------------------------------------------------------------
(* The holders whose release closure will give back a unit of k. *)
CountedHolders(k) == {h \in Holders : Counted(leases[h], k)}

(* The holders that were admitted through k, counted or not. *)
InUse(k) == {h \in Holders : k \in DOMAIN leases[h].limits}

AlwaysCounted(k) ==
  \A c \in Calls : k \in DOMAIN c.limits => Counted(c, k)

SameRateEverywhere(k) ==
  \A c, d \in Calls :
    k \in DOMAIN c.limits /\ k \in DOMAIN d.limits =>
      /\ c.limits[k].rpm = d.limits[k].rpm
      /\ c.limits[k].burst = d.limits[k].burst

(***************************************************************************)
(* A counter equals the number of outstanding closures that will decrement *)
(* it, over any mixture of limits before and after reloads.  The guard     *)
(* `s.concurrent[scope.key] > 0' in the closure therefore never hides a    *)
(* double release, and no reservation is ever leaked by clear.             *)
(***************************************************************************)
ConcurrentCountsLeases ==
  \A k \in Keys : concurrent[k] = Cardinality(CountedHolders(k))

(***************************************************************************)
(* max_concurrent is a promise about work in progress, not about the       *)
(* counter: the work admitted through a key never exceeds the largest      *)
(* limit any configuration gave it.  A key that some configuration leaves  *)
(* unlimited is exempt, because work admitted then is never counted.       *)
(***************************************************************************)
CapacityRespected ==
  \A k \in Keys :
    AlwaysCounted(k) => Cardinality(InUse(k)) <= Ceiling[k].max

(***************************************************************************)
(* "Check all scopes under one lock before consuming anything ... all-or-  *)
(* nothing" (limiter.go:45): a step that grants nothing and takes no time  *)
(* takes nothing from anybody, so what was admissible before a refusal, a  *)
(* release or a reload is admissible after it.                             *)
(***************************************************************************)
RefusalIsFree ==
  [][(clock' = clock /\ \A h \in Holders : leases'[h] \in {leases[h], NoLease}) =>
       \A c \in Calls :
         (\A k \in DOMAIN c.limits : SameRateEverywhere(k)) /\ Admissible(c)
           => Admissible(c)']_vars
=============================================================================
