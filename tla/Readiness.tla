----------------------------- MODULE Readiness ------------------------------
(***************************************************************************)
(* internal/gateway/readiness.go: /readyz, its cache and its coalescing of *)
(* concurrent probes, while the configuration is reloaded.                 *)
(*                                                                         *)
(* cachedReadiness takes readiness.mu twice: once to look at the cache and *)
(* to claim or join a probe, once to publish.  Between the two it talks to *)
(* the providers of ITS configuration snapshot, and anything may happen.   *)
(*                                                                         *)
(* Each poll is one request, so the set of polls bounds a behaviour.  The  *)
(* expiry of the cache is an event that may happen at any time.            *)
(***************************************************************************)
EXTENDS Integers, Sequences, FiniteSets

CONSTANTS
  Polls,     \* requests for /readyz
  Backends   \* per configuration, in the order loaded, its set of providers

ASSUME ReadinessAssumption ==
  /\ "none" \notin Polls
  /\ Len(Backends) \in Nat \ {0}
  /\ DOMAIN Backends = 1 .. Len(Backends)

VARIABLES
  config,     \* Gateway.config, an index into Backends
  reload,     \* "clear": Reload has stored the configuration, not yet cleared
  cache,      \* readinessCache.result with .expires: an empty result when unset
  fresh,      \* expires is set and not in the past
  inflight,   \* the poll whose probe is in flight (its channel), or "none"
  generation, \* readinessCache.generation
  poll        \* per poll, the local variables of cachedReadiness

vars == <<config, reload, cache, fresh, inflight, generation, poll>>

AllBackends == UNION {Backends[i] : i \in DOMAIN Backends}

(* A result: the configuration that was probed, the generation the probe    *)
(* started in, and the providers found to be up.                            *)
NoResult == [cfg |-> 0, generation |-> 0, up |-> {}]

Init ==
  /\ config = 1
  /\ reload = "none"
  /\ cache = NoResult
  /\ fresh = FALSE
  /\ inflight = "none"
  /\ generation = 0
  /\ poll = [p \in Polls |->
               [at |-> "idle", cfg |-> 0, settled |-> FALSE, generation |-> 0,
                asked |-> {}, up |-> {}, answer |-> NoResult]]

At(p, place) == poll[p].at = place

Goto(p, place) == poll' = [poll EXCEPT ![p].at = place]

(* /readyz is requested: ServeHTTP has loaded the configuration.  `settled'  *)
(* only remembers, for the properties, that no Reload was under way.        *)
Arrive(p) ==
  /\ At(p, "idle")
  /\ poll' = [poll EXCEPT ![p].at = "look", ![p].cfg = config,
                          ![p].settled = (reload = "none")]
  /\ UNCHANGED <<config, reload, cache, fresh, inflight, generation>>

(* The first critical section: serve from the cache, join a probe, or start *)
(* one.                                                                     *)
ServeCached(p) ==
  /\ At(p, "look")
  /\ fresh
  /\ poll' = [poll EXCEPT ![p].at = "done", ![p].answer = cache]
  /\ UNCHANGED <<config, reload, cache, fresh, inflight, generation>>

Join(p) ==
  /\ At(p, "look")
  /\ ~fresh
  /\ inflight # "none"
  /\ Goto(p, "wait")
  /\ UNCHANGED <<config, reload, cache, fresh, inflight, generation>>

(* Mutant: a probe in flight is not looked for. *)
ClaimAlways(p) ==
  /\ At(p, "look")
  /\ ~fresh
  /\ inflight' = p
  /\ poll' = [poll EXCEPT ![p].at = "probe", ![p].generation = generation]
  /\ UNCHANGED <<config, reload, cache, fresh, generation>>

Claim(p) ==
  /\ At(p, "look")
  /\ ~fresh
  /\ inflight = "none"
  /\ inflight' = p
  /\ poll' = [poll EXCEPT ![p].at = "probe", ![p].generation = generation]
  /\ UNCHANGED <<config, reload, cache, fresh, generation>>

(* checkProvider: up means a 2xx answer; every error means down. *)
checkProvider == BOOLEAN

(* checkReadiness: the goroutine for one provider of the snapshot reports.  *)
(* Its own two-second timeout makes it report in any case.                  *)
Report(p, b, ok) ==
  /\ At(p, "probe")
  /\ b \in Backends[poll[p].cfg] \ poll[p].asked
  /\ poll' = [poll EXCEPT ![p].asked = @ \cup {b},
                          ![p].up = IF ok THEN @ \cup {b} ELSE @]
  /\ UNCHANGED <<config, reload, cache, fresh, inflight, generation>>

(* The waiters on the probe's channel, once it is closed, look again. *)
Woken(q) == IF At(q, "wait") THEN [poll[q] EXCEPT !.at = "look"] ELSE poll[q]

Outcome(p) ==
  [cfg |-> poll[p].cfg, generation |-> poll[p].generation, up |-> poll[p].up]

(* Mutant: the result is stored whatever happened to the cache meanwhile. *)
PublishAlways(p) ==
  /\ At(p, "probe")
  /\ poll[p].asked = Backends[poll[p].cfg]
  /\ cache' = Outcome(p)
  /\ fresh' = TRUE
  /\ inflight' = "none"
  /\ poll' = [q \in Polls |-> IF q = p THEN [poll[p] EXCEPT !.at = "done",
                                                            !.answer = Outcome(p)]
                                       ELSE Woken(q)]
  /\ UNCHANGED <<config, reload, generation>>

(* Mutant: the channel of a probe overtaken by a clear is not closed. *)
PublishOrDrop(p) ==
  /\ At(p, "probe")
  /\ poll[p].asked = Backends[poll[p].cfg]
  /\ IF poll[p].generation = generation
     THEN /\ cache' = Outcome(p)
          /\ fresh' = TRUE
          /\ inflight' = "none"
          /\ poll' = [q \in Polls |-> IF q = p THEN [poll[p] EXCEPT !.at = "done",
                                                                    !.answer = Outcome(p)]
                                               ELSE Woken(q)]
     ELSE /\ poll' = [poll EXCEPT ![p].at = "done", ![p].answer = Outcome(p)]
          /\ UNCHANGED <<cache, fresh, inflight>>
  /\ UNCHANGED <<config, reload, generation>>

(* The second critical section. *)
Publish(p) ==
  /\ At(p, "probe")
  /\ poll[p].asked = Backends[poll[p].cfg]
  /\ IF poll[p].generation = generation
     THEN cache' = Outcome(p) /\ fresh' = TRUE
     ELSE UNCHANGED <<cache, fresh>>
  /\ inflight' = "none"
  /\ poll' = [q \in Polls |-> IF q = p THEN [poll[p] EXCEPT !.at = "done",
                                                            !.answer = Outcome(p)]
                                       ELSE Woken(q)]
  /\ UNCHANGED <<config, reload, generation>>

(* The client of a waiting poll goes away. *)
Cancel(p) ==
  /\ At(p, "wait")
  /\ Goto(p, "cancelled")
  /\ UNCHANGED <<config, reload, cache, fresh, inflight, generation>>

(* readiness_cache_ttl passes. *)
ExpireCache ==
  /\ fresh
  /\ fresh' = FALSE
  /\ UNCHANGED <<config, reload, cache, inflight, generation, poll>>

(* Gateway.Reload stores the configuration and, some steps later, clears    *)
(* this cache.                                                              *)
ReloadConfig ==
  /\ reload = "none"
  /\ config < Len(Backends)
  /\ config' = config + 1
  /\ reload' = "clear"
  /\ UNCHANGED <<cache, fresh, inflight, generation, poll>>

clear ==
  /\ reload = "clear"
  /\ cache' = NoResult
  /\ fresh' = FALSE
  /\ generation' = generation + 1
  /\ reload' = "none"
  /\ UNCHANGED <<config, inflight, poll>>

Finished == \A p \in Polls : poll[p].at \in {"done", "cancelled"}

Rest == Finished /\ UNCHANGED vars

Next ==
  \/ \E p \in Polls :
       \/ Arrive(p) \/ ServeCached(p) \/ Join(p) \/ Claim(p)
       \/ \E b \in AllBackends, ok \in checkProvider : Report(p, b, ok)
       \/ Publish(p) \/ Cancel(p)
  \/ ExpireCache
  \/ ReloadConfig \/ clear
  \/ Rest

Spec == Init /\ [][Next]_vars

(* Goroutines run and providers answer or time out; a poll that waits stays *)
(* until its channel is closed.                                             *)
FairSpec ==
  /\ Spec
  /\ \A p \in Polls :
       /\ WF_vars(ServeCached(p) \/ Join(p) \/ Claim(p))
       /\ WF_vars(Publish(p))
       /\ \A b \in AllBackends :
            WF_vars(\E ok \in checkProvider : Report(p, b, ok))

-----------------------------------------------------------------------------
(***************************************************************************)
(* "Coalesce concurrent probes so health polling cannot amplify into a     *)
(* burst of requests to every provider" (readiness.go:62): one probe at a  *)
(* time, owned by the channel in the cache, also across a clear; and a     *)
(* poll only waits while there is one to wait for.                         *)
(***************************************************************************)
OneProbe ==
  /\ {p \in Polls : At(p, "probe")} = {inflight} \ {"none"}
  /\ (\E p \in Polls : At(p, "wait")) => inflight # "none"

(***************************************************************************)
(* "Invalidate a probe already in flight as well as a completed cached     *)
(* result" (readiness.go:33): what the cache serves was probed entirely    *)
(* after the last clear.                                                   *)
(***************************************************************************)
ServesThisGeneration == fresh => cache.generation = generation

(* Every poll is answered or its client has left. *)
PollsAnswered ==
  \A p \in Polls : At(p, "look") ~> poll[p].at \in {"done", "cancelled"}

(***************************************************************************)
(* "new requests immediately see the replacement" (gateway.go:95): a poll  *)
(* that arrives after Reload has returned is not answered with the state   *)
(* of an older configuration's providers.                                  *)
(***************************************************************************)
PollsSeeReplacement ==
  \A p \in Polls :
    At(p, "done") /\ poll[p].settled => poll[p].answer.cfg >= poll[p].cfg
=============================================================================
