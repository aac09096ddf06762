----------------------------- MODULE Discovery ------------------------------
(***************************************************************************)
(* internal/gateway/discovery.go: the models providers publish, cached per *)
(* provider, for requests that list models or look one up, while the       *)
(* configuration is reloaded.                                              *)
(*                                                                         *)
(* discoverProvider reads the cache and writes it in two critical sections *)
(* with a call to the provider between them.  Concurrent lookups of one    *)
(* provider are not coalesced, and the store has no notion of a            *)
(* configuration: entries are kept under the provider's name.              *)
(*                                                                         *)
(* Names are sequences of path segments, so that a prefix is a prefix.     *)
(* Providers are numbered in the order of their names.                     *)
(***************************************************************************)
EXTENDS Integers, Sequences, FiniteSets, FiniteSetsExt, SequencesExt

CONSTANTS
  Lookups,  \* requests that need discovery
  Configs,  \* in the order loaded: static aliases, and the prefix of each
            \* provider with autodiscovery
  IDs,      \* what providers call their models
  Aliases   \* what clients ask for

(* config.Validate: no two providers discover under one prefix.  One prefix *)
(* may begin another, "a/" and "a/b/".                                      *)
ASSUME PrefixAssumption ==
  \A i \in DOMAIN Configs :
    \A p, q \in DOMAIN Configs[i].prefix :
      p # q => Configs[i].prefix[p] # Configs[i].prefix[q]

(* Names are made of the segments that occur in the constants. *)
AllPrefixes == UNION {Range(Configs[i].prefix) : i \in DOMAIN Configs}

Segments == UNION {Range(name) : name \in IDs \cup Aliases \cup AllPrefixes}

ASSUME NamesAssumption ==
  /\ Len(Configs) \in Nat \ {0}
  /\ DOMAIN Configs = 1 .. Len(Configs)
  /\ \A i \in DOMAIN Configs : Configs[i].prefix \in Seq(Seq(Segments))
  /\ IDs \cup Aliases \subseteq Seq(Segments)

VARIABLES
  config,     \* Gateway.config, an index into Configs
  reload,     \* "clear": Reload has stored the configuration, not yet cleared
  entries,    \* discoveryStore.entries, by provider
  lookup,     \* per request, the locals of models, opencodeConfig or
              \* resolveDiscoveredModel
  overtaken   \* history: the last clear met lookups of an older configuration

vars == <<config, reload, entries, lookup, overtaken>>

Idle ==
  [at |-> "idle", kind |-> "models", cfg |-> 0, alias |-> << >>,
   todo |-> {},         \* providers still to be asked
   found |-> {},        \* the models collected
   answer |-> "none",
   assured |-> FALSE,   \* history: arrived after a Reload that overtook nobody
   listed |-> FALSE]    \* history: some provider's fresh entry had the alias

Init ==
  /\ config = 1
  /\ reload = "none"
  /\ entries = << >>
  /\ lookup = [l \in Lookups |-> Idle]
  /\ overtaken = FALSE

At(l, place) == lookup[l].at = place
Cfg(l) == Configs[lookup[l].cfg]

PrefixesOf(i) == Configs[i].prefix

-----------------------------------------------------------------------------
(* Mutant: the prefix is not looked at. *)
CandidatesAll(i, alias) == DOMAIN PrefixesOf(i)

(* The providers resolveDiscoveredModel may come to first: several, when    *)
(* one prefix begins another.                                               *)
Candidates(i, alias) == {p \in DOMAIN PrefixesOf(i) : IsPrefix(PrefixesOf(i)[p], alias)}

(* Entries that give a provider a model of this name in a configuration. *)
Known(es, alias, i) ==
  \E p \in DOMAIN es :
    es[p].fresh /\ \E m \in es[p].models : m.alias = alias /\ m.cfg = i

Arriving(kind) ==
  [Idle EXCEPT !.at = "visit", !.kind = kind, !.cfg = config,
               !.assured = (reload = "none" /\ ~overtaken)]

(* GET /v1/models and GET /opencode.json: discoverAll asks every provider. *)
ArriveList(l, kind) ==
  /\ At(l, "idle")
  /\ lookup' = [lookup EXCEPT ![l] = [Arriving(kind) EXCEPT !.todo = DOMAIN PrefixesOf(config)]]
  /\ UNCHANGED <<config, reload, entries, overtaken>>

(* proxy does not know the alias.  The map of providers is ranged over in   *)
(* any order; the first one whose prefix fits decides.                      *)
ArriveResolve(l, alias) ==
  /\ At(l, "idle")
  /\ alias \notin Configs[config].static
  /\ LET q == [Arriving("resolve") EXCEPT !.alias = alias, !.listed = Known(entries, alias, config)]
         C == Candidates(config, alias)
     IN  \/ \E p \in C : lookup' = [lookup EXCEPT ![l] = [q EXCEPT !.todo = {p}]]
         \/ C = {} /\ lookup' = [lookup EXCEPT ![l] = q]
  /\ UNCHANGED <<config, reload, entries, overtaken>>

-----------------------------------------------------------------------------
(* discoverProvider for the next provider in order. *)
Current(l) == Min(lookup[l].todo)

Cached(p) == p \in DOMAIN entries /\ entries[p].fresh

Collect(l, es) ==
  [lookup[l] EXCEPT !.at = "visit", !.found = @ \cup es[Current(l)].models,
                    !.todo = @ \ {Current(l)},
                    !.listed = Known(es, lookup[l].alias, lookup[l].cfg)]

Get(l) ==
  /\ At(l, "visit")
  /\ lookup[l].todo # {}
  /\ lookup' = [lookup EXCEPT ![l] =
                  IF Cached(Current(l)) THEN Collect(l, entries)
                                        ELSE [@ EXCEPT !.at = "fetch"]]
  /\ UNCHANGED <<config, reload, entries, overtaken>>

(* The list as the lookup's configuration names it. *)
Namespaced(l, ids) ==
  {[alias    |-> Cfg(l).prefix[Current(l)] \o id,
    provider |-> Current(l),
    cfg      |-> lookup[l].cfg] : id \in ids}

(* The provider has answered with its models: put, whatever has happened to *)
(* the store and the configuration since Get.                               *)
Put(l, ids) ==
  /\ At(l, "fetch")
  /\ LET p  == Current(l)
         es == [q \in DOMAIN entries \cup {p} |->
                  IF q = p THEN [models |-> Namespaced(l, ids), fresh |-> TRUE]
                           ELSE entries[q]]
     IN  /\ entries' = es
         /\ lookup' = [lookup EXCEPT ![l] = Collect(l, es)]
  /\ UNCHANGED <<config, reload, overtaken>>

(* No usable answer, or ctx has ended.  Nothing is cached; a listing goes   *)
(* on without the provider, a resolution ends.                              *)
Without(q, p) ==
  IF q.kind = "resolve"
  THEN [q EXCEPT !.at = "done", !.answer = "error"]
  ELSE [q EXCEPT !.at = "visit", !.todo = @ \ {p}]

FetchFails(l) ==
  /\ At(l, "fetch")
  /\ lookup' = [lookup EXCEPT ![l] = Without(lookup[l], Current(l))]
  /\ UNCHANGED <<config, reload, entries, overtaken>>

Resolved(l) == \E m \in lookup[l].found : m.alias = lookup[l].alias

ListedAliases(l) == Cfg(l).static \cup {m.alias : m \in lookup[l].found}

Outcome(l) ==
  CASE lookup[l].kind = "resolve"  -> IF Resolved(l) THEN "model" ELSE "unknown"
    [] lookup[l].kind = "models"   -> "list"
    [] lookup[l].kind = "opencode" -> IF ListedAliases(l) = {} THEN "error" ELSE "list"

Respond(l) ==
  /\ At(l, "visit")
  /\ lookup[l].todo = {}
  /\ lookup' = [lookup EXCEPT ![l].at = "done", ![l].answer = Outcome(l)]
  /\ UNCHANGED <<config, reload, entries, overtaken>>

-----------------------------------------------------------------------------
(* cache_ttl passes for an entry. *)
Expire(p) ==
  /\ p \in DOMAIN entries
  /\ entries[p].fresh
  /\ entries' = [entries EXCEPT ![p].fresh = FALSE]
  /\ UNCHANGED <<config, reload, lookup, overtaken>>

ReloadConfig ==
  /\ reload = "none"
  /\ config < Len(Configs)
  /\ config' = config + 1
  /\ reload' = "clear"
  /\ UNCHANGED <<entries, lookup, overtaken>>

Underway(l) == lookup[l].at \in {"visit", "fetch"}

(* Mutant: providers that are still configured keep their entries. *)
clearRemoved ==
  /\ reload = "clear"
  /\ entries' = [p \in DOMAIN entries \cap DOMAIN PrefixesOf(config) |-> entries[p]]
  /\ reload' = "none"
  /\ overtaken' = \E l \in Lookups : Underway(l) /\ lookup[l].cfg < config
  /\ UNCHANGED <<config, lookup>>

clear ==
  /\ reload = "clear"
  /\ entries' = << >>
  /\ reload' = "none"
  /\ overtaken' = \E l \in Lookups : Underway(l) /\ lookup[l].cfg < config
  /\ UNCHANGED <<config, lookup>>

Rest == (\A l \in Lookups : At(l, "done")) /\ UNCHANGED vars

Next ==
  \/ \E l \in Lookups :
       \/ \E kind \in {"models", "opencode"} : ArriveList(l, kind)
       \/ \E alias \in Aliases : ArriveResolve(l, alias)
       \/ Get(l)
       \/ \E ids \in SUBSET IDs : Put(l, ids)
       \/ FetchFails(l)
       \/ Respond(l)
  \/ \E p \in DOMAIN entries : Expire(p)
  \/ ReloadConfig \/ clear
  \/ Rest

Spec == Init /\ [][Next]_vars
-----------------------------------------------------------------------------
(***************************************************************************)
(* "new requests immediately see the replacement" (gateway.go:95), as far  *)
(* as it goes for discovery: put does not look at the configuration, so a  *)
(* lookup that a Reload overtakes may leave its provider's old list behind *)
(* (discovery.go:157).  That is the only way: after a Reload that overtook *)
(* no lookup, nobody is given a model of an older configuration.           *)
(***************************************************************************)
StaleNeedsOverlap ==
  \A l \in Lookups :
    lookup[l].assured => \A m \in lookup[l].found : m.cfg >= lookup[l].cfg

(* Two prefixes of a configuration fit the name: one begins the other. *)
Overlapping(i, alias) ==
  \E p, q \in DOMAIN PrefixesOf(i) :
    /\ p # q
    /\ IsPrefix(PrefixesOf(i)[p], alias)
    /\ IsPrefix(PrefixesOf(i)[q], alias)

(***************************************************************************)
(* "Prefixes prevent collisions between providers" (README.md:317), as far *)
(* as it goes: a model that the cache lists for a configuration is not     *)
(* unknown to a request under that configuration, unless two prefixes fit  *)
(* its name.  Then the range over the map of providers may stop at the one *)
(* that does not have it (discovery.go:85-98), which Validate does not     *)
(* prevent (config.go:228).                                                *)
(***************************************************************************)
ListedModelsResolve ==
  \A l \in Lookups :
    lookup[l].answer = "unknown" /\ lookup[l].listed =>
      Overlapping(lookup[l].cfg, lookup[l].alias)
=============================================================================
