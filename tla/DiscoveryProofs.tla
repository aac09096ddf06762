-------------------------- MODULE DiscoveryProofs ---------------------------
(***************************************************************************)
(* Proofs about Discovery: for any number of lookups, any configurations   *)
(* whatever their prefixes, any models the providers may publish, and any  *)
(* interleaving with reloads and expiries.                                 *)
(***************************************************************************)
EXTENDS Discovery, WellFoundedInduction, TLAPS

Names == Seq(Segments)

Model == [alias: Names, provider: Nat, cfg: DOMAIN Configs]

Entry == [models: SUBSET Model, fresh: BOOLEAN]

Lookup ==
  [at: {"idle", "visit", "fetch", "done"}, kind: {"models", "opencode", "resolve"},
   cfg: 0 .. Len(Configs), alias: Names, todo: SUBSET Nat, found: SUBSET Model,
   answer: {"none", "error", "model", "unknown", "list"},
   assured: BOOLEAN, listed: BOOLEAN]

(* A model is cached under the provider whose prefix its name begins with.  *)
Placed(es) ==
  \A p \in DOMAIN es : \A m \in es[p].models :
    p \in DOMAIN PrefixesOf(m.cfg) /\ IsPrefix(PrefixesOf(m.cfg)[p], m.alias)

Store(es) == DOMAIN es \subseteq Nat /\ es \in [DOMAIN es -> Entry] /\ Placed(es)

(* Where a lookup may be. *)
Course(q, c) ==
  /\ q.at # "idle" => q.cfg \in DOMAIN Configs /\ q.cfg <= c
                      /\ q.todo \subseteq DOMAIN PrefixesOf(q.cfg)
  /\ q.at = "fetch" => q.todo # {}

Core ==
  /\ config \in DOMAIN Configs
  /\ reload \in {"none", "clear"}
  /\ overtaken \in BOOLEAN
  /\ Store(entries)
  /\ lookup \in [Lookups -> Lookup]
  /\ \A l \in Lookups : Course(lookup[l], config)

-----------------------------------------------------------------------------
(* Prefixes, element by element. *)

LEMMA PrefixByElements ==
  ASSUME NEW s \in Names, NEW t \in Names
  PROVE  IsPrefix(s, t) <=> Len(s) <= Len(t) /\ \A i \in 1 .. Len(s) : s[i] = t[i]
PROOF
  <1>1. Len(s) \in Nat /\ Len(t) \in Nat
    BY DEF Names
  <1>2. ASSUME Len(s) <= Len(t)
        PROVE  /\ SubSeq(s, 1, Len(s)) = [i \in 1 .. Len(s) |-> s[i]]
               /\ SubSeq(t, 1, Len(s)) = [i \in 1 .. Len(s) |-> t[i]]
    BY <1>1, <1>2 DEF Names
  <1> QED
    BY <1>1, <1>2 DEF IsPrefix

LEMMA NamespacedName ==
  ASSUME NEW s \in Names, NEW id \in Names
  PROVE  s \o id \in Names /\ IsPrefix(s, s \o id)
PROOF
  <1>1. s \o id \in Names /\ Len(s \o id) = Len(s) + Len(id)
        /\ Len(s) \in Nat /\ Len(id) \in Nat
    BY DEF Names
  <1>2. \A i \in 1 .. Len(s) : (s \o id)[i] = s[i]
    BY DEF Names
  <1>3. Len(s) <= Len(s \o id)
    BY <1>1
  <1> QED
    BY <1>1, <1>2, <1>3, PrefixByElements

LEMMA PrefixType ==
  ASSUME NEW i \in DOMAIN Configs
  PROVE  /\ DOMAIN PrefixesOf(i) \subseteq Nat
         /\ \A p \in DOMAIN PrefixesOf(i) : PrefixesOf(i)[p] \in Names
PROOF
  <1>1. PrefixesOf(i) \in Seq(Names)
    BY NamesAssumption DEF PrefixesOf, Names
  <1>2. Len(PrefixesOf(i)) \in Nat /\ DOMAIN PrefixesOf(i) = 1 .. Len(PrefixesOf(i))
    BY <1>1
  <1> QED
    BY <1>1, <1>2

(* In one configuration, at most one provider's prefix fits a name. *)
LEMMA OneCandidate ==
  ASSUME NEW i, NEW alias, ~Overlapping(i, alias),
         NEW p \in Candidates(i, alias), NEW q \in Candidates(i, alias)
  PROVE  p = q
PROOF
  BY DEF Candidates, Overlapping

(* A cached model of a configuration belongs to the candidate for its name. *)
LEMMA KnownIsCandidate ==
  ASSUME NEW es, Store(es), NEW i \in DOMAIN Configs, NEW alias, Known(es, alias, i)
  PROVE  \E p \in Candidates(i, alias) :
           p \in DOMAIN es /\ \E m \in es[p].models : m.alias = alias
PROOF
  <1>1. PICK p \in DOMAIN es : \E m \in es[p].models : m.alias = alias /\ m.cfg = i
    BY DEF Known
  <1>2. p \in Candidates(i, alias)
    BY <1>1 DEF Store, Placed, Candidates
  <1> QED
    BY <1>1, <1>2

LEMMA LeastNumber ==
  ASSUME NEW T, T \subseteq Nat, T # {}
  PROVE  \E x \in T : \A y \in T : x <= y
PROOF
  <1> DEFINE R == OpToRel(<, Nat)
  <1>1. PICK x \in T : \A y \in T : ~(<<y, x>> \in R)
    <2>1. IsWellFoundedOn(R, Nat)
      BY NatLessThanWellFounded
    <2> HIDE DEF R
    <2> QED
      BY <2>1, WFMin
  <1>2. \A a, b \in Nat : a < b => <<a, b>> \in R
    BY DEF OpToRel
  <1> HIDE DEF R
  <1>3. \A y \in T : ~(y < x)
    BY <1>1, <1>2
  <1> QED
    BY <1>3

-----------------------------------------------------------------------------
(* What each step makes of the lookup it moves. *)

LEMMA CurrentType ==
  ASSUME Core, NEW l \in Lookups, lookup[l].todo # {}
  PROVE  Current(l) \in lookup[l].todo /\ Current(l) \in Nat
PROOF
  <1>1. lookup[l].todo \subseteq Nat
    BY DEF Core, Lookup
  <1>2. \E x \in lookup[l].todo : \A y \in lookup[l].todo : x <= y
    BY <1>1, LeastNumber
  <1>3. Current(l) \in lookup[l].todo
    BY <1>2 DEF Current, Min
  <1> QED
    BY <1>1, <1>3

LEMMA KnownType ==
  ASSUME NEW es, NEW alias, NEW i
  PROVE  Known(es, alias, i) \in BOOLEAN
PROOF
  BY DEF Known

LEMMA Collected ==
  ASSUME Core, NEW l \in Lookups, NEW es, Store(es), Current(l) \in DOMAIN es
  PROVE  LET q  == lookup[l]
             q2 == Collect(l, es)
         IN  /\ q2 \in Lookup
             /\ q2.at = "visit" /\ q2.kind = q.kind /\ q2.cfg = q.cfg
             /\ q2.alias = q.alias /\ q2.answer = q.answer
             /\ q2.todo = q.todo \ {Current(l)}
             /\ q2.found = q.found \cup es[Current(l)].models
             /\ q2.assured <=> q.assured
             /\ q2.listed <=> Known(es, q.alias, q.cfg)
PROOF
  <1> DEFINE q == lookup[l]
             F == q.found \cup es[Current(l)].models
             T == q.todo \ {Current(l)}
             k == Known(es, q.alias, q.cfg)
  <1>1. q \in Lookup
    BY DEF Core
  <1>2. F \in SUBSET Model /\ T \in SUBSET Nat /\ k \in BOOLEAN
    BY <1>1, KnownType DEF Store, Entry, Lookup
  <1>3. Collect(l, es) = [q EXCEPT !.at = "visit", !.found = F, !.todo = T, !.listed = k]
    BY DEF Collect
  <1> HIDE DEF F, T, k
  <1>4. LET q2 == [q EXCEPT !.at = "visit", !.found = F, !.todo = T, !.listed = k]
        IN  /\ q2 \in Lookup
            /\ q2.at = "visit" /\ q2.kind = q.kind /\ q2.cfg = q.cfg
            /\ q2.alias = q.alias /\ q2.answer = q.answer
            /\ q2.todo = T /\ q2.found = F
            /\ q2.assured <=> q.assured
            /\ q2.listed <=> k
    BY <1>1, <1>2 DEF Lookup
  <1> QED
    BY <1>3, <1>4 DEF F, T, k

LEMMA IdleType == Idle \in Lookup
PROOF
  <1>1. << >> \in Names /\ 0 \in 0 .. Len(Configs)
    BY NamesAssumption DEF Names
  <1>2. {} \in SUBSET Nat /\ {} \in SUBSET Model
    OBVIOUS
  <1> QED
    BY <1>1, <1>2 DEF Idle, Lookup

LEMMA ArrivingType ==
  ASSUME Core, NEW kind \in {"models", "opencode", "resolve"}
  PROVE  /\ Arriving(kind) \in Lookup
         /\ Arriving(kind).at = "visit" /\ Arriving(kind).kind = kind
         /\ Arriving(kind).cfg = config /\ Arriving(kind).found = {}
         /\ Arriving(kind).todo = {} /\ Arriving(kind).answer = "none"
         /\ Arriving(kind).assured <=> (reload = "none" /\ ~overtaken)
PROOF
  <1>1. config \in 0 .. Len(Configs)
    BY NamesAssumption DEF Core
  <1>2. Idle.found = {} /\ Idle.todo = {} /\ Idle.answer = "none"
    BY DEF Idle
  <1> DEFINE a == (reload = "none" /\ ~overtaken)
  <1>3. a \in BOOLEAN
    OBVIOUS
  <1>4. Arriving(kind) = [Idle EXCEPT !.at = "visit", !.kind = kind, !.cfg = config,
                                      !.assured = a]
    BY DEF Arriving
  <1> HIDE DEF a
  <1>5. /\ Arriving(kind) \in Lookup
        /\ Arriving(kind).at = "visit" /\ Arriving(kind).kind = kind
        /\ Arriving(kind).cfg = config /\ Arriving(kind).found = Idle.found
        /\ Arriving(kind).todo = Idle.todo /\ Arriving(kind).answer = Idle.answer
        /\ Arriving(kind).assured <=> a
    BY <1>1, <1>3, <1>4, IdleType DEF Lookup
  <1> QED
    BY <1>2, <1>5 DEF a

(* An arrival: the lookup before and after. *)
Arrives(q, q2) ==
  /\ q.at = "idle"
  /\ q2 \in Lookup
  /\ q2.at = "visit" /\ q2.cfg = config /\ q2.found = {} /\ q2.answer = "none"
  /\ q2.todo \subseteq DOMAIN PrefixesOf(config)
  /\ q2.assured <=> (reload = "none" /\ ~overtaken)

LEMMA ArriveListStep ==
  ASSUME Core, NEW l \in Lookups, NEW kind \in {"models", "opencode"}, ArriveList(l, kind)
  PROVE  \E q2 : /\ lookup' = [lookup EXCEPT ![l] = q2]
                 /\ Arrives(lookup[l], q2)
                 /\ q2.kind # "resolve"
PROOF
  <1> DEFINE a == Arriving(kind)
             T == DOMAIN PrefixesOf(config)
             q2 == [a EXCEPT !.todo = T]
  <1>1. T \in SUBSET Nat
    BY PrefixType DEF Core
  <1>2. a \in Lookup /\ a.at = "visit" /\ a.kind = kind /\ a.cfg = config /\ a.found = {}
        /\ a.answer = "none" /\ (a.assured <=> (reload = "none" /\ ~overtaken))
    BY ArrivingType
  <1>3. lookup' = [lookup EXCEPT ![l] = q2] /\ lookup[l].at = "idle"
    BY DEF ArriveList, At
  <1> HIDE DEF a, T
  <1>4. q2 \in Lookup /\ q2.at = a.at /\ q2.kind = a.kind /\ q2.cfg = a.cfg
        /\ q2.found = a.found /\ q2.answer = a.answer /\ (q2.assured <=> a.assured)
        /\ q2.todo = T
    BY <1>1, <1>2 DEF Lookup
  <1> HIDE DEF q2
  <1>5. Arrives(lookup[l], q2)
    BY <1>2, <1>3, <1>4 DEF Arrives, T
  <1> QED
    BY <1>2, <1>3, <1>4, <1>5

LEMMA ArriveResolveStep ==
  ASSUME Core, NEW l \in Lookups, NEW alias \in Aliases, ArriveResolve(l, alias)
  PROVE  \E q2 : /\ lookup' = [lookup EXCEPT ![l] = q2]
                 /\ Arrives(lookup[l], q2)
                 /\ q2.alias = alias
                 /\ q2.listed <=> Known(entries, alias, config)
                 /\ \/ \E p \in Candidates(config, alias) : q2.todo = {p}
                    \/ Candidates(config, alias) = {} /\ q2.todo = {}
PROOF
  <1> DEFINE a == Arriving("resolve")
             k == Known(entries, alias, config)
             b == [a EXCEPT !.alias = alias, !.listed = k]
             C == Candidates(config, alias)
  <1>1. a \in Lookup /\ a.at = "visit" /\ a.kind = "resolve" /\ a.cfg = config
        /\ a.found = {} /\ a.todo = {}
        /\ a.answer = "none" /\ (a.assured <=> (reload = "none" /\ ~overtaken))
    BY ArrivingType
  <1>2. alias \in Names /\ k \in BOOLEAN
    BY NamesAssumption, KnownType DEF Names
  <1>3. C \subseteq DOMAIN PrefixesOf(config) /\ C \subseteq Nat
    BY PrefixType DEF Core, Candidates
  <1>4. lookup[l].at = "idle"
        /\ \/ \E p \in C : lookup' = [lookup EXCEPT ![l] = [b EXCEPT !.todo = {p}]]
           \/ C = {} /\ lookup' = [lookup EXCEPT ![l] = b]
    BY DEF ArriveResolve, At
  <1> HIDE DEF a, k, C
  <1>5. b \in Lookup /\ b.at = a.at /\ b.kind = a.kind /\ b.cfg = a.cfg
        /\ b.found = a.found /\ b.answer = a.answer /\ (b.assured <=> a.assured)
        /\ b.todo = a.todo /\ b.alias = alias /\ (b.listed <=> k)
    BY <1>1, <1>2 DEF Lookup
  <1> HIDE DEF b
  <1>6. CASE C = {} /\ lookup' = [lookup EXCEPT ![l] = b]
    <2>1. Arrives(lookup[l], b)
      BY <1>1, <1>4, <1>5 DEF Arrives
    <2> QED
      BY <1>1, <1>5, <1>6, <2>1 DEF C, k
  <1>7. ASSUME NEW p \in C, lookup' = [lookup EXCEPT ![l] = [b EXCEPT !.todo = {p}]]
        PROVE  \E q2 : /\ lookup' = [lookup EXCEPT ![l] = q2]
                       /\ Arrives(lookup[l], q2)
                       /\ q2.alias = alias
                       /\ q2.listed <=> k
                       /\ q2.todo = {p}
    <2> DEFINE q2 == [b EXCEPT !.todo = {p}]
    <2>1. {p} \in SUBSET Nat
      BY <1>3
    <2>2. q2 \in Lookup /\ q2.at = b.at /\ q2.kind = b.kind /\ q2.cfg = b.cfg
          /\ q2.found = b.found /\ q2.answer = b.answer /\ (q2.assured <=> b.assured)
          /\ q2.todo = {p} /\ q2.alias = b.alias /\ (q2.listed <=> b.listed)
      BY <1>5, <2>1 DEF Lookup
    <2>3. lookup' = [lookup EXCEPT ![l] = q2]
      BY <1>7
    <2> HIDE DEF q2
    <2>4. Arrives(lookup[l], q2)
      BY <1>1, <1>3, <1>4, <1>5, <2>2 DEF Arrives
    <2> QED
      BY <1>5, <2>2, <2>3, <2>4
  <1> QED
    BY <1>4, <1>6, <1>7 DEF C, k

(* A lookup under way takes a provider's models from es. *)
Gathers(l, es) ==
  /\ lookup[l].at \in {"visit", "fetch"}
  /\ lookup[l].todo # {}
  /\ Store(es)
  /\ Current(l) \in DOMAIN es
  /\ es[Current(l)].fresh
  /\ lookup' = [lookup EXCEPT ![l] = Collect(l, es)]

LEMMA GetStep ==
  ASSUME Core, NEW l \in Lookups, Get(l)
  PROVE  \/ Gathers(l, entries)
         \/ lookup[l].at = "visit" /\ lookup[l].todo # {}
            /\ lookup' = [lookup EXCEPT ![l] = [lookup[l] EXCEPT !.at = "fetch"]]
PROOF
  BY DEF Get, Cached, Gathers, Core, At

LEMMA NamespacedModels ==
  ASSUME Core, NEW l \in Lookups, lookup[l].at = "fetch", NEW ids \in SUBSET IDs
  PROVE  /\ Namespaced(l, ids) \in SUBSET Model
         /\ \A m \in Namespaced(l, ids) :
              /\ m.cfg = lookup[l].cfg
              /\ Current(l) \in DOMAIN PrefixesOf(m.cfg)
              /\ IsPrefix(PrefixesOf(m.cfg)[Current(l)], m.alias)
PROOF
  <1> DEFINE p == Current(l)
             i == lookup[l].cfg
             pre == PrefixesOf(i)[p]
  <1>1. lookup[l].todo # {} /\ i \in DOMAIN Configs
        /\ lookup[l].todo \subseteq DOMAIN PrefixesOf(i)
    BY DEF Core, Course
  <1>2. p \in DOMAIN PrefixesOf(i) /\ p \in Nat
    BY <1>1, CurrentType
  <1>3. pre \in Names
    BY <1>1, <1>2, PrefixType
  <1>4. \A id \in ids : pre \o id \in Names /\ IsPrefix(pre, pre \o id)
    BY <1>3, NamesAssumption, NamespacedName DEF Names
  <1>5. Namespaced(l, ids) = {[alias |-> pre \o id, provider |-> p, cfg |-> i] : id \in ids}
    BY DEF Namespaced, Cfg, PrefixesOf
  <1> HIDE DEF p, i, pre
  <1>6. \A id \in ids : [alias |-> pre \o id, provider |-> p, cfg |-> i] \in Model
    BY <1>1, <1>2, <1>4 DEF Model
  <1>7. \A m \in Namespaced(l, ids) :
          m.cfg = i /\ \E id \in ids : m.alias = pre \o id
    BY <1>5
  <1>8. \A m \in Namespaced(l, ids) : IsPrefix(pre, m.alias)
    BY <1>4, <1>7
  <1> QED
    BY <1>2, <1>5, <1>6, <1>7, <1>8 DEF p, i, pre

LEMMA PutStep ==
  ASSUME Core, NEW l \in Lookups, NEW ids \in SUBSET IDs, Put(l, ids)
  PROVE  /\ Gathers(l, entries')
         /\ DOMAIN entries' = DOMAIN entries \cup {Current(l)}
         /\ \A p \in DOMAIN entries' :
              entries'[p] = IF p = Current(l)
                            THEN [models |-> Namespaced(l, ids), fresh |-> TRUE]
                            ELSE entries[p]
PROOF
  <1> DEFINE p == Current(l)
             e == [models |-> Namespaced(l, ids), fresh |-> TRUE]
             es == [q \in DOMAIN entries \cup {p} |-> IF q = p THEN e ELSE entries[q]]
  <1>1. lookup[l].at = "fetch" /\ lookup[l].todo # {}
    BY DEF Put, At, Core, Course
  <1>2. entries' = es /\ lookup' = [lookup EXCEPT ![l] = Collect(l, es)]
    BY DEF Put
  <1>3. p \in Nat
    BY <1>1, CurrentType
  <1>4. e \in Entry
    BY <1>1, NamespacedModels DEF Entry
  <1>5. Store(es)
    <2>1. DOMAIN entries \subseteq Nat /\ entries \in [DOMAIN entries -> Entry]
          /\ Placed(entries)
      BY DEF Core, Store
    <2>2. DOMAIN es \subseteq Nat /\ es \in [DOMAIN es -> Entry]
      BY <1>3, <1>4, <2>1
    <2>3. ASSUME NEW q \in DOMAIN es, NEW m \in es[q].models
          PROVE  q \in DOMAIN PrefixesOf(m.cfg) /\ IsPrefix(PrefixesOf(m.cfg)[q], m.alias)
      <3>1. CASE q = p
        <4>1. m \in Namespaced(l, ids)
          BY <2>3, <3>1
        <4> QED
          BY <1>1, <3>1, <4>1, NamespacedModels
      <3>2. CASE q # p
        BY <2>1, <2>3, <3>2 DEF Placed
      <3> QED
        BY <3>1, <3>2
    <2> QED
      BY <2>2, <2>3 DEF Store, Placed
  <1>6. p \in DOMAIN es /\ es[p].fresh
    OBVIOUS
  <1> QED
    BY <1>1, <1>2, <1>5, <1>6 DEF Gathers

(* The ends of a lookup, and a provider that a listing goes on without. *)
LEMMA FetchFailsStep ==
  ASSUME Core, NEW l \in Lookups, FetchFails(l)
  PROVE  LET q == lookup[l] IN
         q.at = "fetch" /\
         \E q2 \in Lookup :
           /\ lookup' = [lookup EXCEPT ![l] = q2]
           /\ q2.cfg = q.cfg /\ q2.found = q.found /\ q2.kind = q.kind
           /\ q2.assured <=> q.assured
           /\ q2.todo \subseteq q.todo
           /\ \/ q2.at = "done" /\ q2.answer = "error"
              \/ q2.at = "visit" /\ q2.kind # "resolve" /\ q2.answer = q.answer
PROOF
  <1> DEFINE q == lookup[l]
             T == q.todo \ {Current(l)}
  <1>1. q \in Lookup /\ q.at = "fetch"
    BY DEF Core, FetchFails, At
  <1>2. T \in SUBSET Nat /\ T \subseteq q.todo
    BY <1>1 DEF Lookup
  <1>3. CASE q.kind = "resolve"
    <2> DEFINE q2 == [q EXCEPT !.at = "done", !.answer = "error"]
    <2>1. q2 \in Lookup /\ q2.cfg = q.cfg /\ q2.found = q.found /\ q2.kind = q.kind
          /\ (q2.assured <=> q.assured)
          /\ q2.todo = q.todo /\ q2.at = "done" /\ q2.answer = "error"
      BY <1>1 DEF Lookup
    <2>2. lookup' = [lookup EXCEPT ![l] = q2]
      BY <1>3 DEF FetchFails, Without
    <2> HIDE DEF q2
    <2> QED
      BY <1>1, <2>1, <2>2
  <1>4. CASE q.kind # "resolve"
    <2> DEFINE q2 == [q EXCEPT !.at = "visit", !.todo = T]
    <2>1. lookup' = [lookup EXCEPT ![l] = q2]
      BY <1>4 DEF FetchFails, Without
    <2> HIDE DEF T
    <2>2. q2 \in Lookup /\ q2.cfg = q.cfg /\ q2.found = q.found /\ q2.kind = q.kind
          /\ (q2.assured <=> q.assured)
          /\ q2.todo = T /\ q2.at = "visit" /\ q2.answer = q.answer
      BY <1>1, <1>2 DEF Lookup
    <2> HIDE DEF q2
    <2> QED
      BY <1>1, <1>2, <1>4, <2>1, <2>2
  <1> QED
    BY <1>3, <1>4

LEMMA RespondStep ==
  ASSUME Core, NEW l \in Lookups, Respond(l)
  PROVE  LET q == lookup[l] IN
         q.at = "visit" /\ q.todo = {} /\
         \E q2 \in Lookup :
           /\ lookup' = [lookup EXCEPT ![l] = q2]
           /\ q2.at = "done" /\ q2.cfg = q.cfg /\ q2.found = q.found /\ q2.todo = q.todo
           /\ q2.alias = q.alias
           /\ q2.assured <=> q.assured
           /\ q2.listed <=> q.listed
           /\ q2.answer = "unknown" => q.kind = "resolve" /\ ~Resolved(l)
PROOF
  <1> DEFINE q == lookup[l]
             o == Outcome(l)
             q2 == [q EXCEPT !.at = "done", !.answer = o]
  <1>1. q \in Lookup /\ q.at = "visit" /\ q.todo = {} /\ lookup \in [Lookups -> Lookup]
    BY DEF Core, Respond, At
  <1>2. q.kind \in {"models", "opencode", "resolve"}
    BY <1>1 DEF Lookup
  <1>3. o \in {"none", "error", "model", "unknown", "list"}
        /\ (o = "unknown" => q.kind = "resolve" /\ ~Resolved(l))
    BY <1>2 DEF Outcome
  <1>4. lookup' = [lookup EXCEPT ![l] = q2]
    BY <1>1 DEF Respond
  <1> HIDE DEF o
  <1>5. q2 \in Lookup /\ q2.at = "done" /\ q2.cfg = q.cfg /\ q2.found = q.found
        /\ q2.todo = q.todo /\ (q2.assured <=> q.assured) /\ (q2.listed <=> q.listed)
        /\ q2.answer = o /\ q2.alias = q.alias
    BY <1>1, <1>3 DEF Lookup
  <1> HIDE DEF q2
  <1> QED
    BY <1>1, <1>3, <1>4, <1>5

(* The steps of one lookup. *)
Moves(l) ==
  \/ \E kind \in {"models", "opencode"} : ArriveList(l, kind)
  \/ \E alias \in Aliases : ArriveResolve(l, alias)
  \/ Get(l)
  \/ \E ids \in SUBSET IDs : Put(l, ids)
  \/ FetchFails(l)
  \/ Respond(l)

LEMMA FetchType ==
  ASSUME NEW q \in Lookup
  PROVE  LET q2 == [q EXCEPT !.at = "fetch"] IN
         /\ q2 \in Lookup /\ q2.at = "fetch" /\ q2.kind = q.kind /\ q2.cfg = q.cfg
         /\ q2.alias = q.alias /\ q2.answer = q.answer /\ q2.todo = q.todo
         /\ q2.found = q.found /\ (q2.assured <=> q.assured)
         /\ (q2.listed <=> q.listed)
PROOF
  BY DEF Lookup

(* Whatever moves a lookup: the ones beside it stay, and it keeps its course. *)
LEMMA MovesStep ==
  ASSUME Core, NEW l \in Lookups, Moves(l)
  PROVE  \E q2 \in Lookup : lookup' = [lookup EXCEPT ![l] = q2] /\ Course(q2, config)
PROOF
  <1> DEFINE q == lookup[l]
  <1>1. q \in Lookup /\ Course(q, config) /\ config \in DOMAIN Configs /\ config \in Nat
    BY NamesAssumption DEF Core
  <1>2. ASSUME NEW q2, Arrives(q, q2) PROVE q2 \in Lookup /\ Course(q2, config)
    BY <1>1, <1>2 DEF Arrives, Course
  <1>3. ASSUME NEW es, Gathers(l, es)
        PROVE  Collect(l, es) \in Lookup /\ Course(Collect(l, es), config)
    <2>1. q.at \in {"visit", "fetch"} /\ Store(es) /\ Current(l) \in DOMAIN es
      BY <1>3 DEF Gathers
    <2>2. Collect(l, es) \in Lookup /\ Collect(l, es).at = "visit"
          /\ Collect(l, es).cfg = q.cfg /\ Collect(l, es).todo = q.todo \ {Current(l)}
      BY <2>1, Collected
    <2> QED
      BY <1>1, <2>1, <2>2 DEF Course
  <1>4. CASE (\E kind \in {"models", "opencode"} : ArriveList(l, kind))
             \/ (\E alias \in Aliases : ArriveResolve(l, alias))
    BY <1>2, <1>4, ArriveListStep, ArriveResolveStep
  <1>5. CASE Get(l)
    <2>1. CASE Gathers(l, entries)
      BY <1>3, <2>1 DEF Gathers
    <2>2. CASE q.at = "visit" /\ q.todo # {}
               /\ lookup' = [lookup EXCEPT ![l] = [q EXCEPT !.at = "fetch"]]
      <3> DEFINE q2 == [q EXCEPT !.at = "fetch"]
      <3>1. q2 \in Lookup /\ q2.at = "fetch" /\ q2.cfg = q.cfg /\ q2.todo = q.todo
        BY <1>1, FetchType
      <3> HIDE DEF q2
      <3>2. Course(q2, config)
        BY <1>1, <2>2, <3>1 DEF Course
      <3> QED
        BY <2>2, <3>1, <3>2 DEF q2
    <2> QED
      BY <1>5, <2>1, <2>2, GetStep
  <1>6. CASE \E ids \in SUBSET IDs : Put(l, ids)
    <2>1. Gathers(l, entries')
      BY <1>6, PutStep
    <2> QED
      BY <1>3, <2>1 DEF Gathers
  <1>7. CASE FetchFails(l)
    <2>1. PICK q2 \in Lookup : /\ lookup' = [lookup EXCEPT ![l] = q2]
                               /\ q2.cfg = q.cfg /\ q2.todo \subseteq q.todo
                               /\ q2.at \in {"done", "visit"}
      BY <1>7, FetchFailsStep
    <2>2. q.at = "fetch"
      BY <1>7, FetchFailsStep
    <2> QED
      BY <1>1, <2>1, <2>2 DEF Course
  <1>8. CASE Respond(l)
    <2>1. PICK q2 \in Lookup : /\ lookup' = [lookup EXCEPT ![l] = q2]
                               /\ q2.cfg = q.cfg /\ q2.todo = q.todo /\ q2.at = "done"
      BY <1>8, RespondStep
    <2>2. q.at = "visit"
      BY <1>8, RespondStep
    <2> QED
      BY <1>1, <2>1, <2>2 DEF Course
  <1> QED
    BY <1>4, <1>5, <1>6, <1>7, <1>8 DEF Moves

LEMMA StoreStep ==
  ASSUME Core, [Next]_vars
  PROVE  Store(entries')
PROOF
  <1>1. Store(entries)
    BY DEF Core
  <1>2. ASSUME NEW l \in Lookups, NEW ids \in SUBSET IDs, Put(l, ids)
        PROVE  Store(entries')
    BY <1>2, PutStep DEF Gathers
  <1>3. ASSUME NEW p \in DOMAIN entries, Expire(p) PROVE Store(entries')
    <2> DEFINE e == [entries[p] EXCEPT !.fresh = FALSE]
    <2>1. entries \in [DOMAIN entries -> Entry]
      BY <1>1 DEF Store
    <2>2. e \in Entry /\ e.models = entries[p].models
      BY <2>1 DEF Entry
    <2>3. entries' = [entries EXCEPT ![p] = e]
      BY <1>3, <2>1 DEF Expire
    <2> HIDE DEF e
    <2>4. DOMAIN entries' = DOMAIN entries /\ entries' \in [DOMAIN entries' -> Entry]
          /\ \A q \in DOMAIN entries' : entries'[q].models = entries[q].models
      BY <2>1, <2>2, <2>3
    <2> QED
      BY <1>1, <2>4 DEF Store, Placed
  <1>4. CASE clear
    <2>1. entries' = << >>
      BY <1>4 DEF clear
    <2> QED
      BY <2>1 DEF Store, Placed
  <1>5. CASE UNCHANGED entries
    BY <1>1, <1>5
  <1> QED
    BY <1>2, <1>3, <1>4, <1>5, Zenon
    DEF Next, ArriveList, ArriveResolve, Get, FetchFails, Respond, ReloadConfig, Rest, vars

LEMMA CoreInductive == Core /\ [Next]_vars => Core'
PROOF
  <1> SUFFICES ASSUME Core, [Next]_vars PROVE Core'
    OBVIOUS
  <1>1. Store(entries)'
    BY StoreStep
  <1>2. ASSUME NEW l \in Lookups, Moves(l) PROVE Core'
    <2>1. PICK q2 \in Lookup : lookup' = [lookup EXCEPT ![l] = q2] /\ Course(q2, config)
      BY <1>2, MovesStep
    <2>2. UNCHANGED <<config, reload, overtaken>>
      BY <1>2, Zenon DEF Moves, ArriveList, ArriveResolve, Get, Put, FetchFails, Respond
    <2>3. lookup' \in [Lookups -> Lookup] /\ \A k \in Lookups : Course(lookup'[k], config)
      BY <2>1 DEF Core
    <2> QED
      BY <1>1, <2>2, <2>3 DEF Core
  <1>3. CASE ReloadConfig
    <2>1. config' = config + 1 /\ config' \in DOMAIN Configs /\ config \in Nat
          /\ reload' = "clear" /\ UNCHANGED <<entries, lookup, overtaken>>
      BY <1>3, NamesAssumption DEF ReloadConfig, Core
    <2>2. ASSUME NEW k \in Lookups PROVE Course(lookup[k], config')
      <3>1. lookup[k].cfg \in Nat
        BY NamesAssumption DEF Core, Lookup
      <3> QED
        BY <2>1, <3>1 DEF Core, Course
    <2> QED
      BY <1>1, <2>1, <2>2 DEF Core
  <1>4. CASE clear
    <2>1. overtaken' \in BOOLEAN /\ reload' = "none" /\ UNCHANGED <<config, lookup>>
      BY <1>4 DEF clear
    <2> QED
      BY <1>1, <2>1 DEF Core
  <1>5. CASE UNCHANGED <<config, reload, lookup, overtaken>>
    BY <1>1, <1>5 DEF Core
  <1> QED
    BY <1>2, <1>3, <1>4, <1>5, Zenon DEF Next, Moves, Expire, Rest, vars

LEMMA CoreInit == Init => Core
PROOF
  <1> SUFFICES ASSUME Init PROVE Core
    OBVIOUS
  <1>1. config \in DOMAIN Configs
    BY NamesAssumption DEF Init
  <1>2. Store(entries)
    BY DEF Init, Store, Placed
  <1>3. lookup \in [Lookups -> Lookup]
    BY IdleType DEF Init
  <1>4. \A l \in Lookups : lookup[l].at = "idle"
    BY DEF Init, Idle
  <1> QED
    BY <1>1, <1>2, <1>3, <1>4 DEF Init, Core, Course

LEMMA CoreAlways == Spec => []Core
PROOF
  BY CoreInit, CoreInductive, PTL DEF Spec

-----------------------------------------------------------------------------
(***************************************************************************)
(* Why stale models need an overlap.  Once a Reload has cleared the cache  *)
(* without overtaking a lookup, nothing in the system is older than the    *)
(* configuration: neither a cached model nor a lookup that could still put *)
(* one.  That stays true, for that configuration, for ever after.          *)
(***************************************************************************)
NoOlder(c) ==
  /\ \A p \in DOMAIN entries : \A m \in entries[p].models : m.cfg >= c
  /\ \A k \in Lookups : Underway(k) => lookup[k].cfg >= c

AgeInv ==
  /\ reload = "none" /\ ~overtaken => NoOlder(config)
  /\ \A l \in Lookups : lookup[l].assured =>
       /\ lookup[l].at # "idle"
       /\ NoOlder(lookup[l].cfg)
       /\ \A m \in lookup[l].found : m.cfg >= lookup[l].cfg

(* NoOlder is stable: a step adds only what is at least as new.             *)
LEMMA NoOlderStable ==
  ASSUME Core, [Next]_vars, NEW c \in Nat, c <= config, NoOlder(c)
  PROVE  NoOlder(c)'
PROOF
  <1>0. config \in Nat /\ lookup \in [Lookups -> Lookup]
    BY NamesAssumption DEF Core
  <1>1. ASSUME NEW l \in Lookups, NEW q2, lookup' = [lookup EXCEPT ![l] = q2],
               q2.at \in {"visit", "fetch"} => q2.cfg >= c,
               NEW k \in Lookups, Underway(k)'
        PROVE  lookup'[k].cfg >= c
    BY <1>0, <1>1 DEF NoOlder, Underway
  <1>2. ASSUME NEW l \in Lookups, NEW q2,
               lookup' = [lookup EXCEPT ![l] = q2], Arrives(lookup[l], q2), UNCHANGED entries
        PROVE  NoOlder(c)'
    BY <1>1, <1>2 DEF NoOlder, Arrives
  <1>3. ASSUME NEW l \in Lookups, NEW es, Gathers(l, es)
        PROVE  \A k \in Lookups : Underway(k)' => lookup'[k].cfg >= c
    <2>1. Collect(l, es).cfg = lookup[l].cfg
      BY <1>3, Collected DEF Gathers
    <2>2. lookup[l].cfg >= c
      BY <1>3 DEF Gathers, NoOlder, Underway
    <2> QED
      BY <1>1, <1>3, <2>1, <2>2 DEF Gathers
  <1>4. ASSUME NEW l \in Lookups, NEW q2,
               lookup' = [lookup EXCEPT ![l] = q2], Underway(l), q2.cfg = lookup[l].cfg,
               UNCHANGED entries
        PROVE  NoOlder(c)'
    <2>1. lookup[l].cfg >= c
      BY <1>4 DEF NoOlder
    <2> QED
      BY <1>1, <1>4, <2>1 DEF NoOlder
  <1>5. ASSUME NEW l \in Lookups,
               (\E kind \in {"models", "opencode"} : ArriveList(l, kind))
               \/ (\E alias \in Aliases : ArriveResolve(l, alias))
        PROVE  NoOlder(c)'
    <2>1. UNCHANGED entries
      BY <1>5 DEF ArriveList, ArriveResolve
    <2> QED
      BY <1>2, <1>5, <2>1, ArriveListStep, ArriveResolveStep
  <1>6. ASSUME NEW l \in Lookups, Get(l) PROVE NoOlder(c)'
    <2>1. UNCHANGED entries
      BY <1>6 DEF Get
    <2>2. CASE Gathers(l, entries)
      BY <1>3, <2>1, <2>2 DEF NoOlder
    <2>3. CASE lookup[l].at = "visit"
               /\ lookup' = [lookup EXCEPT ![l] = [lookup[l] EXCEPT !.at = "fetch"]]
      <3>1. [lookup[l] EXCEPT !.at = "fetch"].cfg = lookup[l].cfg
        BY <1>0, FetchType
      <3> QED
        BY <1>4, <2>1, <2>3, <3>1 DEF Underway
    <2> QED
      BY <1>6, <2>2, <2>3, GetStep
  <1>7. ASSUME NEW l \in Lookups, NEW ids \in SUBSET IDs, Put(l, ids) PROVE NoOlder(c)'
    <2>1. Gathers(l, entries') /\ lookup[l].at = "fetch"
      BY <1>7, PutStep DEF Put, At
    <2>2. lookup[l].cfg >= c
      BY <2>1 DEF NoOlder, Underway
    <2>3. ASSUME NEW p \in DOMAIN entries', NEW m \in entries'[p].models
          PROVE  m.cfg >= c
      <3>1. CASE p = Current(l)
        <4>1. entries'[p] = [models |-> Namespaced(l, ids), fresh |-> TRUE]
          BY <1>7, <2>3, <3>1, PutStep
        <4>2. m \in Namespaced(l, ids)
          BY <2>3, <4>1
        <4> QED
          BY <2>1, <2>2, <4>2, NamespacedModels
      <3>2. CASE p # Current(l)
        BY <1>7, <2>3, <3>2, PutStep DEF NoOlder
      <3> QED
        BY <3>1, <3>2
    <2> QED
      BY <1>3, <2>1, <2>3 DEF NoOlder
  <1>8. ASSUME NEW l \in Lookups, FetchFails(l) \/ Respond(l) PROVE NoOlder(c)'
    <2>1. UNCHANGED entries
      BY <1>8 DEF FetchFails, Respond
    <2>2. Underway(l)
      BY <1>8 DEF FetchFails, Respond, At, Underway
    <2> QED
      BY <1>4, <1>8, <2>1, <2>2, FetchFailsStep, RespondStep
  <1>9. ASSUME NEW p \in DOMAIN entries, Expire(p) PROVE NoOlder(c)'
    <2>1. entries \in [DOMAIN entries -> Entry]
      BY DEF Core, Store
    <2>2. DOMAIN entries' = DOMAIN entries
          /\ \A q \in DOMAIN entries : entries'[q].models = entries[q].models
      BY <1>9, <2>1 DEF Expire, Entry
    <2> QED
      BY <1>9, <2>2 DEF Expire, NoOlder, Underway
  <1>10. CASE clear
    <2>1. entries' = << >> /\ lookup' = lookup
      BY <1>10 DEF clear
    <2> QED
      BY <2>1 DEF NoOlder, Underway
  <1>11. CASE UNCHANGED <<entries, lookup>>
    BY <1>11 DEF NoOlder, Underway
  <1> QED
    BY <1>5, <1>6, <1>7, <1>8, <1>9, <1>10, <1>11, Zenon DEF Next, ReloadConfig, Rest, vars

(* What a lookup under way was given, and when it arrived. *)
LEMMA AgeOfMoved ==
  ASSUME Core, AgeInv, [Next]_vars, NEW l \in Lookups, Moves(l), lookup'[l].assured
  PROVE  /\ lookup'[l].at # "idle"
         /\ NoOlder(lookup[l].cfg)'
         /\ \A m \in lookup'[l].found : m.cfg >= lookup'[l].cfg
PROOF
  <1> DEFINE q == lookup[l]
  <1>0. config \in Nat /\ lookup \in [Lookups -> Lookup] /\ q \in Lookup
        /\ Course(q, config) /\ Core'
    BY NamesAssumption, CoreInductive DEF Core
  <1>1. ASSUME NEW q2, lookup' = [lookup EXCEPT ![l] = q2], Arrives(q, q2)
        PROVE  /\ lookup'[l].at # "idle"
               /\ NoOlder(lookup[l].cfg)'
               /\ \A m \in lookup'[l].found : m.cfg >= lookup'[l].cfg
    <2>1. lookup'[l] = q2
      BY <1>0, <1>1
    <2>2. NoOlder(config)
      BY <1>1, <2>1 DEF Arrives, AgeInv
    <2>3. NoOlder(config)'
      <3>1. config' = config
        BY Zenon DEF Moves, ArriveList, ArriveResolve, Get, Put, FetchFails, Respond
      <3>2. \A p \in DOMAIN entries' : \A m \in entries'[p].models : m.cfg >= config
        BY <1>0, <2>2, NoOlderStable DEF NoOlder
      <3>3. \A k \in Lookups : Underway(k)' => lookup'[k].cfg >= config
        BY <1>0, <2>2, NoOlderStable DEF NoOlder
      <3> QED
        BY <3>1, <3>2, <3>3 DEF NoOlder
    <2>4. q2.cfg = config'
      BY <1>1, Zenon
      DEF Arrives, Moves, ArriveList, ArriveResolve, Get, Put, FetchFails, Respond
    <2> QED
      BY <1>1, <2>1, <2>3, <2>4 DEF Arrives, NoOlder
  <1>2. ASSUME NEW q2, lookup' = [lookup EXCEPT ![l] = q2],
               q2.cfg = q.cfg, q2.assured => q.assured, q2.at # "idle", q.at # "idle",
               q.assured => \A m \in q2.found : m.cfg >= q.cfg
        PROVE  /\ lookup'[l].at # "idle"
               /\ NoOlder(lookup[l].cfg)'
               /\ \A m \in lookup'[l].found : m.cfg >= lookup'[l].cfg
    <2>1. lookup'[l] = q2
      BY <1>0, <1>2
    <2>2. NoOlder(q.cfg) /\ q.assured
      BY <1>2, <2>1 DEF AgeInv
    <2>3. q.cfg \in Nat /\ q.cfg <= config
      BY <1>0, <1>2, NamesAssumption DEF Course
    <2>4. /\ \A p \in DOMAIN entries' : \A m \in entries'[p].models : m.cfg >= q.cfg
          /\ \A k \in Lookups : Underway(k)' => lookup'[k].cfg >= q.cfg
      BY <2>2, <2>3, NoOlderStable DEF NoOlder
    <2> QED
      BY <1>2, <2>1, <2>2, <2>4 DEF NoOlder
  <1>3. ASSUME NEW es, Gathers(l, es),
               q.assured => \A m \in es[Current(l)].models : m.cfg >= q.cfg
        PROVE  /\ lookup'[l].at # "idle"
               /\ NoOlder(lookup[l].cfg)'
               /\ \A m \in lookup'[l].found : m.cfg >= lookup'[l].cfg
    <2> DEFINE q2 == Collect(l, es)
    <2>1. lookup' = [lookup EXCEPT ![l] = q2] /\ q.at # "idle"
      BY <1>3 DEF Gathers
    <2>2. q2.cfg = q.cfg /\ (q2.assured <=> q.assured) /\ q2.at = "visit"
          /\ q2.found = q.found \cup es[Current(l)].models
      BY <1>3, Collected DEF Gathers
    <2>3. q.assured => \A m \in q.found : m.cfg >= q.cfg
      BY DEF AgeInv
    <2> HIDE DEF q2
    <2> QED
      BY <1>2, <1>3, <2>1, <2>2, <2>3
  <1>4. CASE (\E kind \in {"models", "opencode"} : ArriveList(l, kind))
             \/ (\E alias \in Aliases : ArriveResolve(l, alias))
    BY <1>1, <1>4, ArriveListStep, ArriveResolveStep
  <1>5. CASE Get(l)
    <2>1. CASE Gathers(l, entries)
      BY <1>3, <2>1 DEF AgeInv, NoOlder, Gathers
    <2>2. CASE q.at = "visit" /\ lookup' = [lookup EXCEPT ![l] = [q EXCEPT !.at = "fetch"]]
      <3> DEFINE q2 == [q EXCEPT !.at = "fetch"]
      <3>1. q2.at = "fetch" /\ q2.cfg = q.cfg /\ q2.found = q.found
            /\ (q2.assured <=> q.assured)
        BY <1>0, FetchType
      <3>2. q.assured => \A m \in q.found : m.cfg >= q.cfg
        BY DEF AgeInv
      <3>3. lookup' = [lookup EXCEPT ![l] = q2]
        BY <2>2
      <3> HIDE DEF q2
      <3> QED
        BY <1>2, <2>2, <3>1, <3>2, <3>3
    <2> QED
      BY <1>5, <2>1, <2>2, GetStep
  <1>6. ASSUME NEW ids \in SUBSET IDs, Put(l, ids)
        PROVE  /\ lookup'[l].at # "idle"
               /\ NoOlder(lookup[l].cfg)'
               /\ \A m \in lookup'[l].found : m.cfg >= lookup'[l].cfg
    <2>1. Gathers(l, entries') /\ q.at = "fetch"
      BY <1>6, PutStep DEF Put, At
    <2>2. q.cfg \in Nat /\ q.cfg <= config
      BY <1>0, <2>1, NamesAssumption DEF Course
    <2>3. q.assured => NoOlder(q.cfg)
      BY DEF AgeInv
    <2>4. q.assured =>
            \A p \in DOMAIN entries' : \A m \in entries'[p].models : m.cfg >= q.cfg
      BY <2>2, <2>3, NoOlderStable DEF NoOlder
    <2> QED
      BY <1>3, <2>1, <2>4 DEF Gathers
  <1>7. CASE FetchFails(l) \/ Respond(l)
    <2>1. PICK q2 : /\ lookup' = [lookup EXCEPT ![l] = q2]
                    /\ q2.cfg = q.cfg /\ (q2.assured <=> q.assured)
                    /\ q2.found = q.found /\ q2.at \in {"done", "visit"}
      BY <1>7, FetchFailsStep, RespondStep
    <2>2. q.at # "idle"
      BY <1>7 DEF FetchFails, Respond, At
    <2>3. q.assured => \A m \in q.found : m.cfg >= q.cfg
      BY DEF AgeInv
    <2> QED
      BY <1>2, <2>1, <2>2, <2>3
  <1> QED
    BY <1>4, <1>5, <1>6, <1>7 DEF Moves

LEMMA AgeInductive == Core /\ AgeInv /\ [Next]_vars => AgeInv'
PROOF
  <1> SUFFICES ASSUME Core, AgeInv, [Next]_vars PROVE AgeInv'
    OBVIOUS
  <1>0. config \in Nat /\ lookup \in [Lookups -> Lookup]
    BY NamesAssumption DEF Core
  <1>1. ASSUME NEW k \in Lookups, lookup[k].assured
        PROVE  /\ \A p \in DOMAIN entries' : \A m \in entries'[p].models :
                    m.cfg >= lookup[k].cfg
               /\ \A j \in Lookups : Underway(j)' => lookup'[j].cfg >= lookup[k].cfg
    <2>1. lookup[k].cfg \in Nat /\ lookup[k].cfg <= config /\ NoOlder(lookup[k].cfg)
      BY <1>1, NamesAssumption DEF AgeInv, Core, Course
    <2> QED
      BY <2>1, NoOlderStable DEF NoOlder
  <1>2. ASSUME NEW k \in Lookups, lookup'[k] = lookup[k], lookup'[k].assured
        PROVE  /\ lookup'[k].at # "idle"
               /\ NoOlder(lookup[k].cfg)'
               /\ \A m \in lookup'[k].found : m.cfg >= lookup'[k].cfg
    BY <1>1, <1>2 DEF AgeInv, NoOlder
  <1>3. ASSUME UNCHANGED <<config, reload, overtaken>>
        PROVE  (reload = "none" /\ ~overtaken => NoOlder(config))'
    <2>1. reload = "none" /\ ~overtaken =>
            /\ \A p \in DOMAIN entries' : \A m \in entries'[p].models : m.cfg >= config
            /\ \A j \in Lookups : Underway(j)' => lookup'[j].cfg >= config
      BY <1>0, NoOlderStable DEF AgeInv, NoOlder
    <2> QED
      BY <1>3, <2>1 DEF NoOlder
  <1>4. ASSUME NEW l \in Lookups, Moves(l) PROVE AgeInv'
    <2>1. UNCHANGED <<config, reload, overtaken>>
      BY <1>4, Zenon DEF Moves, ArriveList, ArriveResolve, Get, Put, FetchFails, Respond
    <2>2. \A k \in Lookups : k # l => lookup'[k] = lookup[k]
      BY <1>0, <1>4, MovesStep
    <2>3. ASSUME NEW k \in Lookups, lookup'[k].assured
          PROVE  /\ lookup'[k].at # "idle"
                 /\ NoOlder(lookup[k].cfg)'
                 /\ \A m \in lookup'[k].found : m.cfg >= lookup'[k].cfg
      <3>1. CASE k = l
        BY <1>4, <2>3, <3>1, AgeOfMoved
      <3>2. CASE k # l
        BY <1>2, <2>2, <2>3, <3>2
      <3> QED
        BY <3>1, <3>2
    <2> QED
      BY <1>3, <2>1, <2>3 DEF AgeInv
  <1>5. CASE clear
    <2>1. entries' = << >> /\ lookup' = lookup /\ config' = config
          /\ (~overtaken' => \A j \in Lookups : Underway(j) => ~(lookup[j].cfg < config))
      BY <1>5 DEF clear
    <2>2. ~overtaken' => \A j \in Lookups : Underway(j) => lookup[j].cfg >= config
      <3>1. \A j \in Lookups : lookup[j].cfg \in Nat
        BY <1>0, NamesAssumption DEF Lookup
      <3> QED
        BY <1>0, <2>1, <3>1
    <2>3. ~overtaken' => NoOlder(config)'
      BY <2>1, <2>2 DEF NoOlder, Underway
    <2> QED
      BY <1>2, <2>1, <2>3 DEF AgeInv
  <1>6. CASE ReloadConfig
    BY <1>2, <1>6 DEF ReloadConfig, AgeInv
  <1>7. CASE UNCHANGED <<config, reload, lookup, overtaken>>
    BY <1>2, <1>3, <1>7 DEF AgeInv
  <1> QED
    BY <1>4, <1>5, <1>6, <1>7, Zenon DEF Next, Moves, Expire, Rest, vars

(***************************************************************************)
(* A lookup that arrives after a Reload which overtook nobody is never     *)
(* given a model of an older configuration, however many lookups there     *)
(* are and whatever the providers publish.                                 *)
(***************************************************************************)
THEOREM StaleOnlyByOverlap == Spec => []StaleNeedsOverlap
PROOF
  <1>1. Init => AgeInv
    BY DEF Init, AgeInv, NoOlder, Underway, Idle
  <1>2. AgeInv => StaleNeedsOverlap
    BY DEF AgeInv, StaleNeedsOverlap
  <1> QED
    BY <1>1, <1>2, AgeInductive, CoreAlways, PTL DEF Spec

-----------------------------------------------------------------------------
(***************************************************************************)
(* Why a listed model is unknown only where prefixes overlap.  Elsewhere   *)
(* the provider that a resolution is on its way to is the only candidate   *)
(* for the name, so the cache can list the name only under that provider;  *)
(* once its list is taken, a name that the cache lists is among the models *)
(* found.                                                                  *)
(***************************************************************************)
ResolveOK(q) ==
  /\ q.answer = "unknown" =>
       q.at = "done" /\ (q.listed => Overlapping(q.cfg, q.alias))
  /\ q.kind = "resolve" /\ q.at \in {"visit", "fetch"} =>
       \/ \E p \in Candidates(q.cfg, q.alias) : q.todo = {p}
       \/ q.todo = {} /\ (q.listed => \/ Overlapping(q.cfg, q.alias)
                                      \/ \E m \in q.found : m.alias = q.alias)

ResolveInv == \A l \in Lookups : ResolveOK(lookup[l])

LEMMA ResolveCollect ==
  ASSUME Core, ResolveInv, NEW l \in Lookups, NEW es, Gathers(l, es)
  PROVE  ResolveOK(Collect(l, es))
PROOF
  <1> DEFINE q == lookup[l]
             q2 == Collect(l, es)
  <1>1. q \in Lookup /\ Course(q, config) /\ q.at \in {"visit", "fetch"}
        /\ q.todo # {} /\ Store(es) /\ Current(l) \in DOMAIN es /\ ResolveOK(q)
    BY DEF Core, Gathers, ResolveInv
  <1>2. q2.at = "visit" /\ q2.kind = q.kind /\ q2.cfg = q.cfg /\ q2.alias = q.alias
        /\ q2.answer = q.answer /\ q2.todo = q.todo \ {Current(l)}
        /\ q2.found = q.found \cup es[Current(l)].models
        /\ (q2.listed <=> Known(es, q.alias, q.cfg))
    BY <1>1, Collected
  <1>3. q.answer # "unknown"
    BY <1>1 DEF ResolveOK
  <1>4. ASSUME q.kind = "resolve"
        PROVE  q2.todo = {} /\ (q2.listed => \/ Overlapping(q2.cfg, q2.alias)
                                             \/ \E m \in q2.found : m.alias = q2.alias)
    <2>1. PICK p \in Candidates(q.cfg, q.alias) : q.todo = {p}
      BY <1>1, <1>4 DEF ResolveOK
    <2>2. Current(l) = p
      BY <1>1, <2>1, CurrentType
    <2>3. ASSUME Known(es, q.alias, q.cfg), ~Overlapping(q.cfg, q.alias)
          PROVE  \E m \in es[p].models : m.alias = q.alias
      <3>1. q.cfg \in DOMAIN Configs /\ q.alias \in Names
        BY <1>1 DEF Course, Lookup
      <3>2. PICK c \in Candidates(q.cfg, q.alias) :
              \E m \in es[c].models : m.alias = q.alias
        BY <1>1, <2>3, <3>1, KnownIsCandidate
      <3>3. c = p
        BY <2>3, OneCandidate
      <3> QED
        BY <3>2, <3>3
    <2> QED
      BY <1>2, <2>1, <2>2, <2>3
  <1> HIDE DEF q2
  <1> QED
    BY <1>2, <1>3, <1>4 DEF ResolveOK, q2

LEMMA ResolveMoves ==
  ASSUME Core, ResolveInv, NEW l \in Lookups, Moves(l)
  PROVE  \E q2 : lookup' = [lookup EXCEPT ![l] = q2] /\ ResolveOK(q2)
PROOF
  <1> DEFINE q == lookup[l]
  <1>0. q \in Lookup /\ ResolveOK(q) /\ config \in DOMAIN Configs /\ Store(entries)
    BY DEF Core, ResolveInv
  <1>1. ASSUME NEW kind \in {"models", "opencode"}, ArriveList(l, kind)
        PROVE  \E q2 : lookup' = [lookup EXCEPT ![l] = q2] /\ ResolveOK(q2)
    BY <1>1, ArriveListStep DEF Arrives, ResolveOK
  <1>2. ASSUME NEW alias \in Aliases, ArriveResolve(l, alias)
        PROVE  \E q2 : lookup' = [lookup EXCEPT ![l] = q2] /\ ResolveOK(q2)
    <2>1. PICK q2 : /\ lookup' = [lookup EXCEPT ![l] = q2]
                    /\ Arrives(q, q2)
                    /\ q2.alias = alias
                    /\ q2.listed <=> Known(entries, alias, config)
                    /\ \/ \E p \in Candidates(config, alias) : q2.todo = {p}
                       \/ Candidates(config, alias) = {} /\ q2.todo = {}
      BY <1>2, ArriveResolveStep
    <2>2. q2.cfg = config /\ q2.answer = "none"
      BY <2>1 DEF Arrives
    <2>3. Candidates(config, alias) = {} => ~q2.listed
      BY <1>0, <2>1, KnownIsCandidate
    <2> QED
      BY <2>1, <2>2, <2>3 DEF ResolveOK
  <1>3. CASE Get(l)
    <2>1. CASE Gathers(l, entries)
      BY <2>1, ResolveCollect DEF Gathers
    <2>2. CASE q.at = "visit" /\ q.todo # {}
               /\ lookup' = [lookup EXCEPT ![l] = [q EXCEPT !.at = "fetch"]]
      <3> DEFINE q2 == [q EXCEPT !.at = "fetch"]
      <3>1. q2.at = "fetch" /\ q2.kind = q.kind /\ q2.cfg = q.cfg /\ q2.alias = q.alias
            /\ q2.answer = q.answer /\ q2.todo = q.todo
        BY <1>0, FetchType
      <3>2. lookup' = [lookup EXCEPT ![l] = q2]
        BY <2>2
      <3> HIDE DEF q2
      <3>3. ResolveOK(q2)
        BY <1>0, <2>2, <3>1 DEF ResolveOK
      <3> QED
        BY <3>2, <3>3
    <2> QED
      BY <1>3, <2>1, <2>2, GetStep
  <1>4. ASSUME NEW ids \in SUBSET IDs, Put(l, ids)
        PROVE  \E q2 : lookup' = [lookup EXCEPT ![l] = q2] /\ ResolveOK(q2)
    <2>1. Gathers(l, entries')
      BY <1>4, PutStep
    <2> QED
      BY <2>1, ResolveCollect DEF Gathers
  <1>5. CASE FetchFails(l)
    <2>1. q.at = "fetch"
      BY <1>5, FetchFailsStep
    <2>2. q.answer # "unknown"
      BY <1>0, <2>1 DEF ResolveOK
    <2>3. PICK q2 : /\ lookup' = [lookup EXCEPT ![l] = q2]
                    /\ \/ q2.at = "done" /\ q2.answer = "error"
                       \/ q2.at = "visit" /\ q2.kind # "resolve" /\ q2.answer = q.answer
      BY <1>5, FetchFailsStep
    <2> QED
      BY <2>2, <2>3 DEF ResolveOK
  <1>6. CASE Respond(l)
    <2>1. q.at = "visit" /\ q.todo = {}
      BY <1>6, RespondStep
    <2>2. PICK q2 : /\ lookup' = [lookup EXCEPT ![l] = q2]
                    /\ q2.at = "done" /\ (q2.listed <=> q.listed)
                    /\ q2.cfg = q.cfg /\ q2.alias = q.alias
                    /\ q2.answer = "unknown" => q.kind = "resolve" /\ ~Resolved(l)
      BY <1>6, RespondStep
    <2>3. q.kind = "resolve" /\ ~Resolved(l) /\ q.listed => Overlapping(q.cfg, q.alias)
      BY <1>0, <2>1 DEF ResolveOK, Resolved
    <2> QED
      BY <2>2, <2>3 DEF ResolveOK
  <1> QED
    BY <1>1, <1>2, <1>3, <1>4, <1>5, <1>6 DEF Moves

(***************************************************************************)
(* A model that the cache lists for a request's configuration is found by  *)
(* that request, unless two prefixes of the configuration fit its name, in *)
(* which case the range over the map may stop at the wrong provider.       *)
(***************************************************************************)
THEOREM ListedModelsAreResolved == Spec => []ListedModelsResolve
PROOF
  <1>1. Init => ResolveInv
    BY DEF Init, ResolveInv, ResolveOK, Idle
  <1>2. ASSUME Core, ResolveInv, [Next]_vars PROVE ResolveInv'
    <2>1. ASSUME NEW l \in Lookups, Moves(l) PROVE ResolveInv'
      <3>1. PICK q2 : lookup' = [lookup EXCEPT ![l] = q2] /\ ResolveOK(q2)
        BY <1>2, <2>1, ResolveMoves
      <3> QED
        BY <1>2, <3>1 DEF ResolveInv, Core
    <2>2. CASE UNCHANGED lookup
      BY <1>2, <2>2 DEF ResolveInv
    <2> QED
      BY <1>2, <2>1, <2>2, Zenon DEF Next, Moves, Expire, clear, ReloadConfig, Rest, vars
  <1>3. Core /\ ResolveInv /\ [Next]_vars => ResolveInv'
    BY <1>2
  <1>4. ResolveInv => ListedModelsResolve
    BY DEF ResolveInv, ResolveOK, ListedModelsResolve
  <1> QED
    BY <1>1, <1>3, <1>4, CoreAlways, PTL DEF Spec
=============================================================================
