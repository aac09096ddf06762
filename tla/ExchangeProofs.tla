--------------------------- MODULE ExchangeProofs ---------------------------
(***************************************************************************)
(* Proofs about Exchange, for any files, configurations, requests, jobs    *)
(* and answers.  The parts of the exchange follow one another and have an  *)
(* invariant each:                                                         *)
(*   EdgeInv    the order in which Reload stores three pointers and        *)
(*              ServeHTTP loads them, and AddressInv, where the address    *)
(*              came from;                                                 *)
(*   JobInv     what the payload is while targets are tried;               *)
(*   LoadInv    a configuration that was loaded was validated;             *)
(*   StreamInv  what both buffers hold of the bytes seen so far.           *)
(* What the recursive functions of Edge, Payload and Capture compute is    *)
(* shown from their equations, by induction over a set of numbers          *)
(* (SetInduction).                                                         *)
(***************************************************************************)
EXTENDS Exchange, FiniteSetTheorems, SequenceTheorems, NaturalsInduction,
        WellFoundedInduction, TLAPS

(* The edition a pointer points to after so many stores. *)
After(n) == IF reload >= n THEN 2 ELSE 1

Locals(e) ==
  e \in [q: {e.q}, cfg: {e.cfg}, trusted: {e.trusted}, acl: {e.acl}, ip: {e.ip},
         outcome: {e.outcome}, identity: {e.identity}, overlap: {e.overlap}]

(* The pointers are as far as Reload has come. *)
PointersInv ==
  /\ reload \in 0 .. 3
  /\ pointers \in [{"config", "acl", "trusted"} -> {1, 2}]
  /\ pointers["config"] = After(1)
  /\ pointers["acl"] = After(2)
  /\ pointers["trusted"] = After(3)
  /\ Locals(edge)

(* What was loaded so far is not newer than what is stored. *)
LoadedInv ==
  /\ edge.trusted \in 0 .. 2 /\ edge.acl \in 0 .. 2
  /\ pc \in {"off", "loaded", "idle", "trusted", "acl"} => edge.acl = 0
  /\ pc = "acl" => edge.trusted <= After(3)
  /\ pc = "prompt" => edge = NoEdge
  /\ edge.acl # 0 => edge.acl >= edge.trusted

Edition == Editions[IF reload = 0 THEN 1 ELSE 2]

Address == forwardedClientIP(edge.q.peer, Forwarded(edge.q), Edition.proxies)

(* A request no store has come in between of has loaded one edition only. *)
SteadyInv ==
  /\ InServeHTTP \/ (pc \in {"answered", "identified"} /\ edge # NoEdge)
  /\ ~edge.overlap
  => /\ reload \in {0, 3}
     /\ edge.cfg = IF reload = 0 THEN 1 ELSE 2
     /\ pc = "acl" => edge.ip = Address
     /\ pc = "route" => contains(Edition.networks, Address)
     /\ pc = "identity" => contains(Edition.networks, Address)
                           /\ edge.outcome = Route(edge.q, Edition.keys)
     /\ pc \in {"answered", "identified"} => edge.outcome = Decide(Edition, edge.q)
     /\ pc = "identified" => edge.identity = clientIdentity(edge.q, Edition.proxies)

EdgeInv == PointersInv /\ LoadedInv /\ SteadyInv

LEMMA InitEdge == Init => EdgeInv
PROOF
  BY DEF Init, EdgeInv, PointersInv, LoadedInv, SteadyInv, First, After, Locals, NoEdge,
     InServeHTTP

LEMMA Stores ==
  /\ Len(StoreOrder) = 3
  /\ StoreOrder[1] = "config" /\ StoreOrder[2] = "acl" /\ StoreOrder[3] = "trusted"
PROOF
  BY DEF StoreOrder

LEMMA EdgeInductive == EdgeInv /\ [Next]_vars => EdgeInv'
PROOF
  <1> SUFFICES ASSUME EdgeInv, [Next]_vars PROVE EdgeInv'
    OBVIOUS
  <1> USE DEF EdgeInv
  <1>1. ASSUME NEW c \in Files, Load(c) PROVE EdgeInv'
    <2>1. PointersInv'
      BY <1>1 DEF Load, edgeVars, PointersInv, LoadedInv, After, Locals
    <2>2. LoadedInv'
      BY <1>1 DEF Load, edgeVars, PointersInv, LoadedInv, After, Locals
    <2>3. SteadyInv'
      BY <1>1 DEF Load, edgeVars, PointersInv, SteadyInv, After, Locals, InServeHTTP,
         Edition, Address, Decide
    <2> QED
      BY <2>1, <2>2, <2>3
  <1>2. CASE Serve
    <2>1. PointersInv'
      BY <1>2 DEF Serve, edgeVars, PointersInv, LoadedInv, After, Locals
    <2>2. LoadedInv'
      BY <1>2 DEF Serve, edgeVars, PointersInv, LoadedInv, After, Locals
    <2>3. SteadyInv'
      BY <1>2 DEF Serve, edgeVars, PointersInv, SteadyInv, After, Locals, InServeHTTP,
         Edition, Address, Decide
    <2> QED
      BY <2>1, <2>2, <2>3
  <1>3. CASE Store
    <2>0. reload \in 0 .. 2 /\ reload' = reload + 1
      BY <1>3, Stores DEF Store, PointersInv
    <2>1. PointersInv'
      <3>1. Locals(edge)'
        BY <1>3 DEF Store, PointersInv, Locals
      <3>2. CASE reload = 0
        BY <1>3, <2>0, <3>1, <3>2, Stores DEF Store, PointersInv, After
      <3>3. CASE reload = 1
        BY <1>3, <2>0, <3>1, <3>3, Stores DEF Store, PointersInv, After
      <3>4. CASE reload = 2
        BY <1>3, <2>0, <3>1, <3>4, Stores DEF Store, PointersInv, After
      <3> QED
        BY <2>0, <3>2, <3>3, <3>4
    <2>2. LoadedInv'
      BY <1>3, <2>0 DEF Store, PointersInv, LoadedInv, After, Locals, InServeHTTP
    <2>3. SteadyInv'
      BY <1>3 DEF Store, StoreOrder, PointersInv, SteadyInv, After, Locals, InServeHTTP,
         Edition, Address, Decide
    <2> QED
      BY <2>1, <2>2, <2>3
  <1>4. ASSUME NEW q \in Arrivals, Arrive(q) PROVE EdgeInv'
    <2>1. PointersInv'
      BY <1>4 DEF Arrive, StoreOrder, NoEdge, PointersInv, LoadedInv, After, Locals
    <2>2. LoadedInv'
      BY <1>4 DEF Arrive, StoreOrder, NoEdge, PointersInv, LoadedInv, After, Locals
    <2>3. SteadyInv'
      <3>1. pc' = "trusted" /\ reload' = reload /\ edge'.cfg = After(1)
        BY <1>4 DEF Arrive, NoEdge, PointersInv
      <3>2. edge'.overlap = (reload \in 1 .. Len(StoreOrder) - 1)
        BY <1>4 DEF Arrive, NoEdge
      <3>3. reload \notin 1 .. Len(StoreOrder) - 1 => reload \in {0, 3}
        BY Stores DEF PointersInv
      <3>4. ~edge'.overlap => reload \in {0, 3}
        BY <3>2, <3>3, Zenon
      <3> QED
        BY <3>1, <3>4 DEF PointersInv, SteadyInv, After, InServeHTTP
    <2> QED
      BY <2>1, <2>2, <2>3
  <1>5. CASE FindClient
    <2>1. PointersInv'
      BY <1>5 DEF FindClient, PointersInv, LoadedInv, After, Locals
    <2>2. LoadedInv'
      BY <1>5 DEF FindClient, PointersInv, LoadedInv, After, Locals
    <2>3. SteadyInv'
      BY <1>5 DEF FindClient, PointersInv, SteadyInv, After, Locals, InServeHTTP, Edition,
         Address, Decide
    <2> QED
      BY <2>1, <2>2, <2>3
  <1>6. CASE CheckNetwork
    <2>1. PointersInv'
      BY <1>6 DEF CheckNetwork, PointersInv, LoadedInv, After, Locals
    <2>2. LoadedInv'
      BY <1>6 DEF CheckNetwork, PointersInv, LoadedInv, After, Locals
    <2>3. SteadyInv'
      BY <1>6 DEF CheckNetwork, PointersInv, SteadyInv, After, Locals, InServeHTTP, Edition,
         Address, Decide
    <2> QED
      BY <2>1, <2>2, <2>3
  <1>7. CASE Dispatch
    <2>1. PointersInv'
      BY <1>7 DEF Dispatch, PointersInv, LoadedInv, After, Locals
    <2>2. LoadedInv'
      BY <1>7 DEF Dispatch, PointersInv, LoadedInv, After, Locals
    <2>3. SteadyInv'
      BY <1>7 DEF Dispatch, PointersInv, SteadyInv, After, Locals, InServeHTTP, Edition,
         Address, Decide
    <2> QED
      BY <2>1, <2>2, <2>3
  <1>8. CASE Identify
    <2>1. PointersInv'
      BY <1>8 DEF Identify, PointersInv, LoadedInv, After, Locals
    <2>2. LoadedInv'
      BY <1>8 DEF Identify, PointersInv, LoadedInv, After, Locals
    <2>3. SteadyInv'
      BY <1>8 DEF Identify, PointersInv, SteadyInv, After, Locals, InServeHTTP, Edition,
         Address, Decide
    <2> QED
      BY <2>1, <2>2, <2>3
  <1>9. ASSUME NEW j \in Jobs, ReadBody(j) PROVE EdgeInv'
    <2>1. PointersInv'
      BY <1>9 DEF ReadBody, First, NoEdge, PointersInv, LoadedInv, After, Locals
    <2>2. LoadedInv'
      BY <1>9 DEF ReadBody, First, NoEdge, PointersInv, LoadedInv, After, Locals
    <2>3. SteadyInv'
      BY <1>9 DEF ReadBody, First, NoEdge, PointersInv, SteadyInv, After, Locals,
         InServeHTTP, Edition, Address, Decide
    <2> QED
      BY <2>1, <2>2, <2>3
  <1>10. ASSUME NEW objects \in Answers, NEW limit \in LogLimits, Commit(objects, limit)
         PROVE  EdgeInv'
    BY <1>10 DEF Commit, edgeVars, PointersInv, LoadedInv, SteadyInv, After, Locals,
       InServeHTTP
  <1>11. ASSUME NEW n, Chunk(n) PROVE EdgeInv'
    BY <1>11 DEF Chunk, edgeVars, PointersInv, LoadedInv, SteadyInv, After, Locals, InServeHTTP
  <1>12. CASE Prepare \/ TryTarget \/ StreamEnds
    BY <1>12 DEF Prepare, TryTarget, StreamEnds, edgeVars, PointersInv, LoadedInv,
       SteadyInv, After, Locals, InServeHTTP
  <1>13. CASE Rest \/ UNCHANGED vars
    BY <1>13 DEF Rest, vars, PointersInv, LoadedInv, SteadyInv, After, Locals, InServeHTTP,
       Edition, Address
  <1> QED
    BY <1>1, <1>2, <1>3, <1>4, <1>5, <1>6, <1>7, <1>8, <1>9, <1>10, <1>11, <1>12,
       <1>13 DEF Next

(***************************************************************************)
(* Whatever a reload changes and whenever it runs, a request is decided by *)
(* one configuration unless the reload was storing its pointers meanwhile, *)
(* and an address found behind the new proxies is never held against the   *)
(* old networks (gateway.go:94-102, 123-126, 301).                         *)
(***************************************************************************)
THEOREM RequestsMeetOneConfiguration == Spec => []OneConfiguration
PROOF
  <1>1. EdgeInv => OneConfiguration
    BY DEF EdgeInv, LoadedInv, SteadyInv, OneConfiguration, Edition
  <1> QED
    BY <1>1, InitEdge, EdgeInductive, PTL DEF Spec

-----------------------------------------------------------------------------
(* What a target, whichever it is, may be sent of a job. *)
Own(j, i) == SentTo(Prepared(j).fields, j, Providers[i])

(* The payload stays what Prepare made of the job. *)
JobInv ==
  /\ sent \in Seq({Own(job, i) : i \in Nat})
  /\ pc # "targets" => sent = << >>
  /\ pc = "targets" => payload = Prepared(job)
  /\ \A i \in DOMAIN sent : sent[i] = Own(job, i)

LEMMA InitJob == Init => JobInv
PROOF
  BY DEF Init, JobInv

LEMMA JobInductive == JobInv /\ [Next]_vars => JobInv'
PROOF
  <1> SUFFICES ASSUME JobInv, [Next]_vars PROVE JobInv'
    OBVIOUS
  <1>1. CASE TryTarget
    <2> DEFINE x == SentTo(payload.fields, job, Providers[Len(sent) + 1])
    <2>1. x = Own(job, Len(sent) + 1) /\ job' = job /\ sent' = Append(sent, x)
      BY <1>1 DEF TryTarget, JobInv, Own
    <2>2. Len(sent) + 1 \in Nat
      BY DEF JobInv
    <2> HIDE DEF x
    <2> QED
      BY <1>1, <2>1, <2>2 DEF TryTarget, JobInv
  <1>2. CASE Prepare
    BY <1>2 DEF Prepare, JobInv
  <1>3. ASSUME NEW objects \in Answers, NEW limit \in LogLimits, Commit(objects, limit)
        PROVE  JobInv'
    BY <1>3 DEF Commit, JobInv
  <1>4. ASSUME NEW j \in Jobs, ReadBody(j) PROVE JobInv'
    BY <1>4 DEF ReadBody, JobInv
  <1>5. ASSUME NEW c \in Files, Load(c) PROVE JobInv'
    BY <1>5 DEF Load, jobVars, JobInv
  <1>6. ASSUME NEW q \in Arrivals, Arrive(q) PROVE JobInv'
    BY <1>6 DEF Arrive, jobVars, JobInv
  <1>7. ASSUME NEW n, Chunk(n) PROVE JobInv'
    BY <1>7 DEF Chunk, jobVars, JobInv
  <1>8. CASE FindClient \/ CheckNetwork \/ Dispatch \/ Identify
    BY <1>8 DEF FindClient, CheckNetwork, Dispatch, Identify, jobVars, JobInv
  <1>9. CASE Serve \/ Store \/ StreamEnds \/ Rest \/ UNCHANGED vars
    BY <1>9 DEF Serve, Store, StreamEnds, Rest, vars, jobVars, JobInv
  <1> QED
    BY <1>1, <1>2, <1>3, <1>4, <1>5, <1>6, <1>7, <1>8, <1>9 DEF Next

(* A header with the client's value is one of the forwarded ones. *)
LEMMA HeadersOfClient ==
  ASSUME NEW headers, NEW provider, NEW n \in DOMAIN upstreamHeaders(headers, provider),
         upstreamHeaders(headers, provider)[n] = "client"
  PROVE  n \in forwardedRequestHeaders
PROOF
  BY DEF upstreamHeaders

(***************************************************************************)
(* For any prompts, overrides, headers and targets: no target is sent      *)
(* anything that another one made necessary, nor the client's credential   *)
(* (gateway.go:378-388, 579-594, 631-647).                                 *)
(***************************************************************************)
THEOREM EveryTargetGetsItsOwn == Spec => []TargetsGetTheirOwn
PROOF
  <1>1. JobInv => TargetsGetTheirOwn
    BY HeadersOfClient DEF JobInv, TargetsGetTheirOwn, Own, SentTo
  <1> QED
    BY <1>1, InitJob, JobInductive, PTL DEF Spec
-----------------------------------------------------------------------------
(* What Load has returned was decoded, defaulted and accepted. *)
LoadInv ==
  pc = "loaded" => \E c \in Files : loaded = defaults(c) /\ Validate(defaults(c))

LEMMA LoadInductive == LoadInv /\ [Next]_vars => LoadInv'
PROOF
  <1> SUFFICES ASSUME LoadInv, [Next]_vars, pc' = "loaded"
               PROVE  \E c \in Files : loaded' = defaults(c) /\ Validate(defaults(c))
    BY DEF LoadInv
  <1>1. ASSUME NEW c \in Files, Load(c)
        PROVE  loaded' = defaults(c) /\ Validate(defaults(c))
    BY <1>1, pc' = "loaded" DEF Load
  <1>2. ASSUME NEW n, Chunk(n) PROVE pc = "loaded" /\ loaded' = loaded
    BY <1>2 DEF Chunk
  <1>3. CASE Rest \/ UNCHANGED vars
    BY <1>3 DEF Rest, vars, LoadInv
  <1>4. ASSUME NEW q, Arrive(q) PROVE FALSE
    BY <1>4 DEF Arrive
  <1>5. ASSUME NEW j, ReadBody(j) PROVE FALSE
    BY <1>5 DEF ReadBody
  <1>6. ASSUME NEW objects, NEW limit, Commit(objects, limit) PROVE FALSE
    BY <1>6 DEF Commit
  <1>7. CASE Store \/ TryTarget
    BY <1>7 DEF Store, TryTarget, InServeHTTP, LoadInv
  <1>8. CASE Serve \/ FindClient \/ CheckNetwork \/ Dispatch \/ Identify \/ Prepare \/ StreamEnds
    BY <1>8 DEF Serve, FindClient, CheckNetwork, Dispatch, Identify, Prepare, StreamEnds
  <1> QED
    BY <1>1, <1>2, <1>3, <1>4, <1>5, <1>6, <1>7, <1>8 DEF Next, LoadInv

LEMMA LimitsUsable ==
  ASSUME NEW l \in Limits, limitsValid(limitDefaults(l))
  PROVE  LET d == limitDefaults(l) IN
         /\ d.rpm # "negative" /\ d.burst \in Nat /\ d.max \in Nat
         /\ d.rpm = "positive" => d.burst > 0
         /\ d.rpm = "zero" => d.burst = 0
PROOF
  BY DEF Limits, Rates, limitsValid, limitDefaults

LEMMA DefaultsUsable ==
  ASSUME NEW c, Decoded(c), Validate(defaults(c))
  PROVE  Usable(defaults(c))
PROOF
  <1> DEFINE d == defaults(c)
  <1>1. /\ DOMAIN d.providers = DOMAIN c.providers
        /\ \A p \in DOMAIN c.providers :
             /\ d.providers[p].limits = limitDefaults(c.providers[p].limits)
             /\ d.providers[p].discover = c.providers[p].discover
             /\ d.providers[p].prefix = IF c.providers[p].discover /\ c.providers[p].prefix = ""
                                        THEN p ELSE c.providers[p].prefix
    BY DEF defaults, Decoded
  <1>2. /\ DOMAIN d.models = DOMAIN c.models
        /\ \A a \in DOMAIN c.models : d.models[a].limits = limitDefaults(c.models[a].limits)
    BY DEF defaults, Decoded
  <1>3. /\ d.client = limitDefaults(c.client)
        /\ \A n \in Checked \cup Unchecked :
             d.numbers[n] = IF c.numbers[n] = 0 THEN Preset ELSE c.numbers[n]
    BY DEF defaults, Decoded
  <1>4. /\ \A p \in DOMAIN d.providers : providerValid(d, p)
        /\ limitsValid(d.client)
        /\ \A n \in Checked : d.numbers[n] >= 0
        /\ \A a \in DOMAIN d.models : modelValid(d, a)
    BY DEF Validate
  <1> HIDE DEF d
  <1>5. ASSUME NEW l \in AllLimits(d)
        PROVE  \E x \in Limits : l = limitDefaults(x) /\ limitsValid(l)
    <2>1. CASE l = d.client
      BY <2>1, <1>3, <1>4 DEF Decoded
    <2>2. ASSUME NEW p \in DOMAIN d.providers, l = d.providers[p].limits
          PROVE  \E x \in Limits : l = limitDefaults(x) /\ limitsValid(l)
      <3>1. c.providers[p].limits \in Limits
        BY <1>1 DEF Decoded
      <3> QED
        BY <2>2, <3>1, <1>1, <1>4 DEF providerValid
    <2>3. ASSUME NEW a \in DOMAIN d.models, l = d.models[a].limits
          PROVE  \E x \in Limits : l = limitDefaults(x) /\ limitsValid(l)
      <3>1. c.models[a].limits \in Limits
        BY <1>2 DEF Decoded
      <3> QED
        BY <2>3, <3>1, <1>2, <1>4 DEF modelValid
    <2> QED
      BY <2>1, <2>2, <2>3 DEF AllLimits
  <1>6. ASSUME NEW l \in AllLimits(d)
        PROVE  /\ l.rpm # "negative" /\ l.burst \in Nat /\ l.max \in Nat
               /\ l.rpm = "positive" => l.burst > 0
               /\ l.rpm = "zero" => l.burst = 0
    BY <1>5, LimitsUsable
  <1>7. ASSUME NEW n \in Checked PROVE d.numbers[n] > 0
    <2>1. c.numbers[n] \in Int
      BY DEF Decoded
    <2> QED
      BY <2>1, <1>3, <1>4 DEF Preset
  <1>7a. ASSUME NEW n \in Unchecked PROVE d.numbers[n] # 0
    <2>1. c.numbers[n] \in Int
      BY DEF Decoded
    <2> QED
      BY <2>1, <1>3 DEF Preset
  <1>8. ASSUME NEW a \in DOMAIN d.models
        PROVE  LET targets == ResolvedTargets(d.models[a]) IN
               /\ targets # << >>
               /\ \A i \in DOMAIN targets : targets[i].provider \in DOMAIN d.providers
               /\ d.models[a].retries \in 0 .. 10
    <2>1. \A i \in DOMAIN ResolvedTargets(d.models[a]) :
            ResolvedTargets(d.models[a])[i].provider \in DOMAIN d.providers
      BY <1>4 DEF modelValid
    <2>3. d.models[a].retries \in 0 .. 10
      BY <1>4 DEF modelValid
    <2>2. ResolvedTargets(d.models[a]) # << >>
      BY DEF ResolvedTargets
    <2> QED
      BY <2>1, <2>2, <2>3
  <1>9. ASSUME NEW p \in DOMAIN d.providers, NEW q \in DOMAIN d.providers,
               d.providers[p].discover, d.providers[q].discover
        PROVE  d.providers[p].prefix # "" /\
               (p # q => d.providers[p].prefix # d.providers[q].prefix)
    <2>1. p \in DOMAIN c.providers /\ p # ""
      BY <1>1 DEF Decoded
    <2>2. d.providers[p].prefix # ""
      BY <1>9, <1>1, <2>1
    <2>3. p # q => d.providers[p].prefix # d.providers[q].prefix
      BY <1>9, <1>4 DEF providerValid
    <2> QED
      BY <2>2, <2>3
  <1>10. Usable(d)
    BY <1>6, <1>7, <1>7a, <1>8, <1>9 DEF Usable
  <1> QED
    BY <1>10 DEF d

(***************************************************************************)
(* Whatever a file holds, what Load lets through (config.go:129, 140-210,  *)
(* 212-343) has limits, targets, retries and prefixes as Proxy and         *)
(* Discovery assume, and no timer that is zero.                            *)
(***************************************************************************)
THEOREM AcceptedFilesAreUsable == Spec => []AcceptedIsUsable
PROOF
  <1>1. Init => LoadInv
    BY DEF Init, LoadInv
  <1>2. LoadInv => AcceptedIsUsable
    <2> SUFFICES ASSUME LoadInv, pc = "loaded" PROVE AcceptedIsUsable
      BY DEF AcceptedIsUsable
    <2>1. PICK c \in Files : loaded = defaults(c) /\ Validate(defaults(c))
      BY DEF LoadInv
    <2>2. Decoded(c)
      BY FilesAssumption
    <2> QED
      BY <2>1, <2>2, DefaultsUsable DEF AcceptedIsUsable
  <1> QED
    BY <1>1, <1>2, LoadInductive, PTL DEF Spec
-----------------------------------------------------------------------------
(* What is rewritten is a request's job. *)
AtJob == pc \in {"prompt", "targets"} => job \in Jobs

LEMMA AtJobInductive == AtJob /\ [Next]_vars => AtJob'
PROOF
  <1> SUFFICES ASSUME AtJob, [Next]_vars PROVE AtJob'
    OBVIOUS
  <1>1. ASSUME NEW c \in Files, Load(c) PROVE AtJob'
    BY <1>1 DEF Load, AtJob
  <1>2. ASSUME NEW n, Chunk(n) PROVE AtJob'
    BY <1>2 DEF Chunk, jobVars, AtJob
  <1>3. CASE Rest \/ UNCHANGED vars
    BY <1>3 DEF Rest, vars, AtJob
  <1>4. ASSUME NEW q, Arrive(q) PROVE AtJob'
    BY <1>4 DEF Arrive, AtJob
  <1>5. ASSUME NEW j \in Jobs, ReadBody(j) PROVE AtJob'
    BY <1>5 DEF ReadBody, AtJob
  <1>6. ASSUME NEW objects, NEW limit, Commit(objects, limit) PROVE AtJob'
    BY <1>6 DEF Commit, AtJob
  <1>7. CASE Prepare \/ TryTarget
    BY <1>7 DEF Prepare, TryTarget, AtJob
  <1>8. CASE Serve \/ Store \/ FindClient \/ CheckNetwork \/ Dispatch \/ Identify \/ StreamEnds
    BY <1>8 DEF Serve, Store, InServeHTTP, FindClient, CheckNetwork, Dispatch, Identify,
       StreamEnds, jobVars, AtJob
  <1> QED
    BY <1>1, <1>2, <1>3, <1>4, <1>5, <1>6, <1>7, <1>8 DEF Next

(* Setting x is there, with the value the configuration gave it. *)
ByPolicy(f, x) == x \in DOMAIN f /\ f[x].by = "policy"

LEMMA EffortKeeps ==
  ASSUME NEW f, NEW k \in {"thinking", "think"}, NEW x, x # k, ByPolicy(f, x)
  PROVE  ByPolicy(AsEffort(f, k), x)
PROOF
  BY DEF ByPolicy, AsEffort, Merge, Without

LEMMA EffortAdds ==
  ASSUME NEW f, NEW k \in {"thinking", "think"}, NEW x, x \notin DOMAIN f,
         x # "reasoning_effort"
  PROVE  x \notin DOMAIN AsEffort(f, k)
PROOF
  BY DEF AsEffort, Merge, Without

LEMMA EffortMoves ==
  ASSUME NEW f, NEW k \in {"thinking", "think"}, ByPolicy(f, k),
         f[k].kind \in {"bool", "text"}, "reasoning_effort" \notin DOMAIN f
  PROVE  ByPolicy(AsEffort(f, k), "reasoning_effort")
PROOF
  BY DEF ByPolicy, AsEffort, Merge, Without

LEMMA OutputTokensKeep ==
  ASSUME NEW f, NEW x, x # "max_tokens", ByPolicy(f, x)
  PROVE  ByPolicy(AsOutputTokens(f), x)
PROOF
  BY DEF ByPolicy, AsOutputTokens, Merge, Without

LEMMA OutputTokensMove ==
  ASSUME NEW f, ByPolicy(f, "max_tokens"), "max_output_tokens" \notin DOMAIN f
  PROVE  ByPolicy(AsOutputTokens(f), "max_output_tokens")
PROOF
  BY DEF ByPolicy, AsOutputTokens, Merge, Without

(* Overrides are laid over the fields the client sent. *)
LEMMA PreparedFields ==
  ASSUME NEW j \in Jobs
  PROVE  Prepared(j).fields = Merge(j.payload.fields, j.overrides)
PROOF
  <1> DEFINE p == applySystemPrompt(j.payload, j.endpoint, j.prepend, j.append)
  <1>1. "fields" \in DOMAIN j.payload
    BY JobsAssumption
  <1>2. "fields" \in DOMAIN p /\ p.fields = j.payload.fields
    BY <1>1 DEF applySystemPrompt, withPrompt
  <1>3. Prepared(j) = [p EXCEPT !.fields = Merge(@, j.overrides)]
    BY DEF Prepared, applyRequestOverrides
  <1> HIDE DEF p
  <1> QED
    BY <1>2, <1>3

LEMMA PolicyReaches ==
  ASSUME NEW j \in Jobs, NEW provider, NEW k \in DOMAIN j.overrides,
         ~TakenByClient(j, k, Spelling(k, j.endpoint, provider.protocol)),
         ~ThinkingFirst(j, k, Spelling(k, j.endpoint, provider.protocol)),
         ~Untranslatable(j, k, Spelling(k, j.endpoint, provider.protocol))
  PROVE  ByPolicy(SentTo(Prepared(j).fields, j, provider).fields,
                  Spelling(k, j.endpoint, provider.protocol))
PROOF
  <1> DEFINE P == j.payload.fields
             O == j.overrides
             F == Prepared(j).fields
             E == AsEffort(F, "thinking")
             G == AsEffort(E, "think")
             H == IF provider.protocol = "ollama" THEN G ELSE F
             name == Spelling(k, j.endpoint, provider.protocol)
  <1>1. /\ \A x \in DOMAIN O : ByPolicy(F, x) /\ F[x] = O[x]
        /\ \A x \in DOMAIN F : x \in DOMAIN O \/ (x \in DOMAIN P /\ F[x] = P[x])
    BY PreparedFields, JobsAssumption DEF Merge, ByPolicy
  <1>2. SentTo(Prepared(j).fields, j, provider).fields =
          IF j.endpoint = "/v1/responses" THEN AsOutputTokens(H) ELSE H
    BY DEF SentTo, applyProviderCompatibility
  <1>3. O[k].kind \in {"bool", "text", "other"}
    BY JobsAssumption
  <1>4. CASE name = k
    <2>1. ByPolicy(H, k)
      <3>1. CASE provider.protocol = "ollama"
        <4>1. k # "thinking" /\ k # "think"
          BY <1>4, <3>1 DEF Spelling
        <4>2. ByPolicy(E, k)
          BY <1>1, <4>1, EffortKeeps
        <4>3. ByPolicy(G, k)
          BY <4>1, <4>2, EffortKeeps
        <4> QED
          BY <3>1, <4>3
      <3>2. CASE provider.protocol # "ollama"
        BY <1>1, <3>2
      <3> QED
        BY <3>1, <3>2
    <2>2. j.endpoint = "/v1/responses" => k # "max_tokens"
      BY <1>4 DEF Spelling
    <2> HIDE DEF H, F
    <2> QED
      BY <1>2, <1>4, <2>1, <2>2, OutputTokensKeep
  <1>5. CASE name # k /\ name = "reasoning_effort"
    <2>1. provider.protocol = "ollama" /\ k \in {"thinking", "think"}
      BY <1>5 DEF Spelling
    <2>2. /\ "reasoning_effort" \notin DOMAIN P \ DOMAIN O
          /\ k = "think" /\ "thinking" \in DOMAIN P \ DOMAIN O =>
               P["thinking"].kind \notin {"bool", "text"}
      BY <1>5 DEF TakenByClient, ThinkingFirst
    <2>3. F[k].kind \in {"bool", "text"}
      BY <1>1, <1>3, <1>5 DEF Untranslatable
    <2>4. ByPolicy(G, "reasoning_effort")
      <3>1. CASE "reasoning_effort" \in DOMAIN O
        <4>1. ByPolicy(E, "reasoning_effort")
          BY <1>1, <3>1, EffortKeeps
        <4> QED
          BY <4>1, EffortKeeps
      <3>2. CASE "reasoning_effort" \notin DOMAIN O
        <4>1. "reasoning_effort" \notin DOMAIN F
          BY <1>1, <2>2, <3>2
        <4>2. CASE ByPolicy(F, "thinking") /\ F["thinking"].kind \in {"bool", "text"}
          <5>1. ByPolicy(E, "reasoning_effort")
            BY <4>1, <4>2, EffortMoves
          <5> QED
            BY <5>1, EffortKeeps
        <4>3. CASE ~(ByPolicy(F, "thinking") /\ F["thinking"].kind \in {"bool", "text"})
          <5>1. k = "think"
            BY <1>1, <2>1, <2>3, <4>3
          <5>2. "thinking" \in DOMAIN F => F["thinking"].kind \notin {"bool", "text"}
            BY <1>1, <2>2, <4>3, <5>1
          <5>3. E = Without(F, "thinking")
            BY <5>2 DEF AsEffort
          <5>4. ByPolicy(E, "think") /\ E["think"] = F["think"]
                /\ "reasoning_effort" \notin DOMAIN E
            BY <1>1, <4>1, <5>1, <5>3 DEF Without, ByPolicy
          <5> HIDE DEF E, F
          <5> QED
            BY <2>3, <5>1, <5>4, EffortMoves
        <4> QED
          BY <4>2, <4>3
      <3> QED
        BY <3>1, <3>2
    <2>5. ByPolicy(H, "reasoning_effort")
      BY <2>1, <2>4
    <2> HIDE DEF H, F
    <2> QED
      BY <1>2, <1>5, <2>5, OutputTokensKeep
  <1>6. CASE name # k /\ name # "reasoning_effort"
    <2>1. /\ j.endpoint = "/v1/responses" /\ k = "max_tokens"
          /\ name = "max_output_tokens"
      BY <1>6 DEF Spelling
    <2>2. "max_output_tokens" \notin DOMAIN P \ DOMAIN O
      BY <1>6, <2>1 DEF TakenByClient
    <2>3. ByPolicy(E, "max_tokens") /\ ByPolicy(G, "max_tokens")
      <3>1. ByPolicy(E, "max_tokens")
        BY <1>1, <2>1, EffortKeeps
      <3> QED
        BY <3>1, EffortKeeps
    <2>4. CASE "max_output_tokens" \in DOMAIN O
      <3>1. ByPolicy(E, "max_output_tokens")
        BY <1>1, <2>4, EffortKeeps
      <3>2. ByPolicy(G, "max_output_tokens")
        BY <3>1, EffortKeeps
      <3>3. ByPolicy(H, "max_output_tokens")
        BY <1>1, <2>4, <3>2
      <3> HIDE DEF H, F
      <3> QED
        BY <1>2, <2>1, <3>3, OutputTokensKeep
    <2>5. CASE "max_output_tokens" \notin DOMAIN O
      <3>1. "max_output_tokens" \notin DOMAIN F
        BY <1>1, <2>2, <2>5
      <3>2. "max_output_tokens" \notin DOMAIN E
        BY <3>1, EffortAdds
      <3>3. "max_output_tokens" \notin DOMAIN G
        BY <3>2, EffortAdds
      <3>4. ByPolicy(H, "max_tokens") /\ "max_output_tokens" \notin DOMAIN H
        BY <1>1, <2>1, <2>3, <3>1, <3>3
      <3> HIDE DEF H, F
      <3> QED
        BY <1>2, <2>1, <3>4, OutputTokensMove
    <2> QED
      BY <2>4, <2>5
  <1> QED
    BY <1>4, <1>5, <1>6

(***************************************************************************)
(* For any number of overrides of any kinds, any fields of the client and  *)
(* any targets: policy reaches every target, unless the client used the    *)
(* target's own name, its thinking comes before a configured think, or the *)
(* value cannot be translated (gateway.go:518-577).                        *)
(***************************************************************************)
THEOREM PolicyWins == Spec => []OverridesWin
PROOF
  <1>1. Init => AtJob
    BY DEF Init, AtJob
  <1>2. JobInv /\ AtJob => OverridesWin
    <2> SUFFICES ASSUME JobInv, AtJob, NEW i \in DOMAIN sent, NEW k \in DOMAIN job.overrides
                 PROVE  LET name == Spelling(k, job.endpoint, Providers[i].protocol) IN
                        \/ TakenByClient(job, k, name)
                        \/ ThinkingFirst(job, k, name)
                        \/ Untranslatable(job, k, name)
                        \/ name \in DOMAIN sent[i].fields /\ sent[i].fields[name].by = "policy"
      BY DEF OverridesWin
    <2>1. job \in Jobs /\ sent[i] = SentTo(Prepared(job).fields, job, Providers[i])
      BY DEF JobInv, AtJob, Own
    <2> QED
      BY <2>1, PolicyReaches DEF ByPolicy
  <1> QED
    BY <1>1, <1>2, InitJob, JobInductive, AtJobInductive, PTL DEF Spec
-----------------------------------------------------------------------------
(* Induction over a set of numbers instead of over a predicate, which the   *)
(* provers cannot instantiate.                                              *)
LEMMA SetInduction ==
  ASSUME NEW T, T \subseteq Nat, 0 \in T, \A n \in T : n + 1 \in T
  PROVE  T = Nat
PROOF
  <1> DEFINE R == OpToRel(<, Nat)
             D == Nat \ T
  <1> SUFFICES ASSUME D # {} PROVE FALSE
    OBVIOUS
  <1>1. PICK x \in D : \A y \in D : ~(<<y, x>> \in R)
    <2>1. IsWellFoundedOn(R, Nat)
      BY NatLessThanWellFounded
    <2> HIDE DEF R
    <2> QED
      BY <2>1, WFMin
  <1>2. \A a, b \in Nat : a < b => <<a, b>> \in R
    BY DEF OpToRel
  <1> HIDE DEF R
  <1>3. x \in Nat /\ x # 0 /\ x - 1 \in Nat /\ x - 1 < x
    OBVIOUS
  <1>4. x - 1 \in T
    BY <1>1, <1>2, <1>3
  <1> QED
    BY <1>3, <1>4

(* The walk of forwardedClientIP over the last i hops left, as an equation. *)
Walk(w, n, peer, hops, trusted) ==
  w = [i \in 0 .. n |->
         IF i = 0 THEN peer
         ELSE IF hops[i] # NoAddress /\ ~contains(trusted, hops[i]) THEN hops[i] ELSE w[i - 1]]

LEMMA WalkValue ==
  ASSUME NEW peer, NEW hops, NEW trusted, NEW n, NEW w, Walk(w, n, peer, hops, trusted),
         NEW i \in 0 .. n
  PROVE  w[i] = IF i = 0 THEN peer
                ELSE IF hops[i] # NoAddress /\ ~contains(trusted, hops[i])
                     THEN hops[i] ELSE w[i - 1]
PROOF
  <1> DEFINE e(x) == IF x = 0 THEN peer
                     ELSE IF hops[x] # NoAddress /\ ~contains(trusted, hops[x])
                          THEN hops[x] ELSE w[x - 1]
  <1>1. w = [x \in 0 .. n |-> e(x)]
    BY DEF Walk
  <1> HIDE DEF e
  <1>2. w[i] = e(i)
    BY <1>1
  <1> QED
    BY <1>2 DEF e

LEMMA WalkExists ==
  ASSUME NEW peer, NEW hops, NEW trusted, NEW n \in Nat
  PROVE  \E w : Walk(w, n, peer, hops, trusted)
PROOF
  <1> DEFINE T == {m \in Nat : \E w : Walk(w, m, peer, hops, trusted)}
  <1>1. 0 \in T
    <2>1. Walk([i \in 0 .. 0 |-> peer], 0, peer, hops, trusted)
      BY DEF Walk
    <2> QED
      BY <2>1
  <1>2. ASSUME NEW m \in T PROVE m + 1 \in T
    <2>1. PICK w : Walk(w, m, peer, hops, trusted)
      OBVIOUS
    <2> DEFINE v == [i \in 0 .. m + 1 |->
                       IF i <= m THEN w[i]
                       ELSE IF hops[i] # NoAddress /\ ~contains(trusted, hops[i])
                            THEN hops[i] ELSE w[i - 1]]
               e(i) == IF i = 0 THEN peer
                       ELSE IF hops[i] # NoAddress /\ ~contains(trusted, hops[i])
                            THEN hops[i] ELSE v[i - 1]
    <2>2. ASSUME NEW i \in 0 .. m + 1 PROVE v[i] = e(i)
      <3>1. CASE i = m + 1
        BY <3>1
      <3>2. CASE i <= m
        <4>1. i \in 0 .. m /\ v[i] = w[i] /\ (i # 0 => v[i - 1] = w[i - 1])
          BY <3>2
        <4>2. w[i] = IF i = 0 THEN peer
                     ELSE IF hops[i] # NoAddress /\ ~contains(trusted, hops[i])
                          THEN hops[i] ELSE w[i - 1]
          BY <2>1, <4>1, WalkValue
        <4> HIDE DEF v
        <4> QED
          BY <4>1, <4>2
      <3> QED
        BY <3>1, <3>2
    <2>3. v = [i \in 0 .. m + 1 |-> v[i]]
      OBVIOUS
    <2>4. v = [i \in 0 .. m + 1 |-> e(i)]
      <3> HIDE DEF v, e
      <3> QED
        BY <2>2, <2>3
    <2>5. Walk(v, m + 1, peer, hops, trusted)
      <3> HIDE DEF v
      <3> QED
        BY <2>4 DEF Walk
    <2> QED
      BY <2>5
  <1>3. T = Nat
    <2>1. T \subseteq Nat
      OBVIOUS
    <2> HIDE DEF T
    <2> QED
      BY <1>1, <1>2, <2>1, SetInduction
  <1> QED
    BY <1>3

(* Among the first n hops, ip is the last that is not trusted. *)
NearestUntrusted(ip, n, hops, trusted) ==
  /\ ip \notin trusted
  /\ \E i \in 1 .. n : /\ hops[i] = ip
                      /\ \A j \in i + 1 .. n : hops[j] \in trusted \cup {NoAddress}

LEMMA WalkFinds ==
  ASSUME NEW peer, NEW hops, NEW trusted, trusted # {}, NEW n \in Nat,
         NEW w, Walk(w, n, peer, hops, trusted)
  PROVE  w[n] = peer \/ NearestUntrusted(w[n], n, hops, trusted)
PROOF
  <1> DEFINE Found(m) == w[m] = peer \/ NearestUntrusted(w[m], m, hops, trusted)
             T == {m \in Nat : m <= n => Found(m)}
  <1>1. 0 \in T
    <2>1. w[0] = peer
      <3>1. 0 \in 0 .. n
        OBVIOUS
      <3> QED
        BY <3>1, WalkValue
    <2> QED
      BY <2>1
  <1>2. ASSUME NEW m \in T PROVE m + 1 \in T
    <2> SUFFICES ASSUME m + 1 <= n PROVE Found(m + 1)
      OBVIOUS
    <2>1. w[m + 1] = IF hops[m + 1] # NoAddress /\ ~contains(trusted, hops[m + 1])
                     THEN hops[m + 1] ELSE w[m]
      <3>1. m + 1 \in 0 .. n /\ m + 1 # 0 /\ (m + 1) - 1 = m
        OBVIOUS
      <3> QED
        BY <3>1, WalkValue
    <2>2. CASE hops[m + 1] # NoAddress /\ ~contains(trusted, hops[m + 1])
      <3>1. w[m + 1] = hops[m + 1] /\ hops[m + 1] \notin trusted
        BY <2>1, <2>2 DEF contains
      <3>2. m + 1 \in 1 .. m + 1 /\ \A j \in (m + 1) + 1 .. m + 1 : FALSE
        OBVIOUS
      <3> QED
        BY <3>1, <3>2 DEF NearestUntrusted
    <2>3. CASE ~(hops[m + 1] # NoAddress /\ ~contains(trusted, hops[m + 1]))
      <3>1. w[m + 1] = w[m] /\ hops[m + 1] \in trusted \cup {NoAddress}
        BY <2>1, <2>3 DEF contains
      <3>2. Found(m)
        OBVIOUS
      <3>3. NearestUntrusted(w[m], m, hops, trusted)
              => NearestUntrusted(w[m], m + 1, hops, trusted)
        BY <3>1 DEF NearestUntrusted
      <3> QED
        BY <3>1, <3>2, <3>3
    <2> QED
      BY <2>2, <2>3
  <1>3. T = Nat
    <2>1. T \subseteq Nat
      OBVIOUS
    <2> HIDE DEF T
    <2> QED
      BY <1>1, <1>2, <2>1, SetInduction
  <1> QED
    BY <1>3

LEMMA ClientVouchedFor ==
  ASSUME NEW peer, NEW hops \in Seq(STRING), NEW trusted
  PROVE  VouchedFor(forwardedClientIP(peer, hops, trusted), peer, <<hops>>, trusted)
PROOF
  <1> DEFINE n == Len(hops)
             w == CHOOSE x : Walk(x, n, peer, hops, trusted)
  <1>1. forwardedClientIP(peer, hops, trusted) =
          IF trusted = {} \/ ~contains(trusted, peer) THEN peer ELSE w[n]
    BY DEF forwardedClientIP, Walk
  <1>2. n \in Nat /\ DOMAIN hops = 1 .. n
    OBVIOUS
  <1>3. Walk(w, n, peer, hops, trusted)
    BY <1>2, WalkExists
  <1> HIDE DEF w, n
  <1>4. CASE trusted = {} \/ ~contains(trusted, peer)
    BY <1>1, <1>4 DEF VouchedFor
  <1>5. CASE trusted # {} /\ contains(trusted, peer)
    <2>1. peer \in trusted
      BY <1>5 DEF contains
    <2>2. w[n] = peer \/ NearestUntrusted(w[n], n, hops, trusted)
      BY <1>2, <1>3, <1>5, WalkFinds
    <2>3. Len(<<hops>>) = 1 /\ DOMAIN <<hops>> = {1} /\ <<hops>>[1] = hops
      OBVIOUS
    <2> QED
      BY <1>1, <1>2, <1>5, <2>1, <2>2, <2>3 DEF VouchedFor, NearestUntrusted, n
  <1> QED
    BY <1>4, <1>5

(* What the first line vouches for, in the words of AddressVouchedFor. *)
LEMMA FirstLineVouches ==
  ASSUME NEW q, q.lines \in Seq(Seq(STRING)), NEW trusted
  PROVE  LET ip == forwardedClientIP(q.peer, Forwarded(q), trusted) IN
         \/ VouchedFor(ip, q.peer, q.lines, trusted)
         \/ Len(q.lines) > 1 /\ VouchedFor(ip, q.peer, <<q.lines[1]>>, trusted)
PROOF
  <1> DEFINE ip == forwardedClientIP(q.peer, Forwarded(q), trusted)
  <1>1. Len(q.lines) \in Nat /\ (q.lines # << >> => Len(q.lines) > 0)
    OBVIOUS
  <1>2. Forwarded(q) \in Seq(STRING)
    BY <1>1 DEF Forwarded
  <1>3. VouchedFor(ip, q.peer, <<Forwarded(q)>>, trusted)
    BY <1>2, ClientVouchedFor
  <1> HIDE DEF ip
  <1>4. CASE q.lines = << >>
    <2>1. Forwarded(q) = << >> /\ DOMAIN <<Forwarded(q)>> = {1}
      BY <1>4 DEF Forwarded
    <2>2. DOMAIN <<Forwarded(q)>>[1] = {}
      BY <2>1
    <2>3. ip = q.peer
      BY <1>3, <2>1, <2>2 DEF VouchedFor
    <2> QED
      BY <2>3 DEF VouchedFor, ip
  <1>5. CASE q.lines # << >> /\ Len(q.lines) = 1
    <2>1. q.lines = <<Forwarded(q)>>
      BY <1>5 DEF Forwarded
    <2> QED
      BY <1>3, <2>1 DEF ip
  <1>6. CASE q.lines # << >> /\ Len(q.lines) > 1
    BY <1>3, <1>6 DEF Forwarded, ip
  <1> QED
    BY <1>1, <1>4, <1>5, <1>6

(* The address a request is judged by is the one its proxies vouch for. *)
AddressInv ==
  /\ InServeHTTP => edge.q \in Arrivals
  /\ pc \in {"off", "loaded", "idle", "trusted"} => edge.trusted = 0
  /\ AddressVouchedFor

LEMMA InitAddress == Init => AddressInv
PROOF
  BY DEF Init, AddressInv, AddressVouchedFor, NoEdge, InServeHTTP

LEMMA AddressInductive == EdgeInv /\ AddressInv /\ [Next]_vars => AddressInv'
PROOF
  <1> SUFFICES ASSUME EdgeInv, AddressInv, [Next]_vars PROVE AddressInv'
    OBVIOUS
  <1> USE DEF AddressInv, AddressVouchedFor
  <1>0. Locals(edge)
    BY DEF EdgeInv, PointersInv
  <1>1. ASSUME NEW c \in Files, Load(c) PROVE AddressInv'
    BY <1>1 DEF Load, edgeVars, InServeHTTP
  <1>2. ASSUME NEW n, Chunk(n) PROVE AddressInv'
    BY <1>2 DEF Chunk, edgeVars, InServeHTTP
  <1>3. CASE Rest \/ UNCHANGED vars
    BY <1>3 DEF Rest, vars, InServeHTTP
  <1>4. ASSUME NEW q \in Arrivals, Arrive(q) PROVE AddressInv'
    BY <1>4 DEF Arrive, NoEdge, InServeHTTP
  <1>5. ASSUME NEW j \in Jobs, ReadBody(j) PROVE AddressInv'
    BY <1>5 DEF ReadBody, NoEdge, InServeHTTP
  <1>6. ASSUME NEW objects, NEW limit, Commit(objects, limit) PROVE AddressInv'
    BY <1>6 DEF Commit, edgeVars, InServeHTTP
  <1>7. CASE FindClient
    <2> DEFINE t == pointers["trusted"]
               ip == forwardedClientIP(edge.q.peer, Forwarded(edge.q), Editions[t].proxies)
    <2>1. edge' = [edge EXCEPT !.trusted = t, !.ip = ip] /\ pc' = "acl"
      BY <1>7 DEF FindClient
    <2>2. edge.q \in Arrivals
      BY <1>7 DEF FindClient, InServeHTTP
    <2>3. edge.q.lines \in Seq(Seq(STRING))
      BY <2>2, ArrivalsAssumption
    <2>4. \/ VouchedFor(ip, edge.q.peer, edge.q.lines, Editions[t].proxies)
          \/ /\ Len(edge.q.lines) > 1
             /\ VouchedFor(ip, edge.q.peer, <<edge.q.lines[1]>>, Editions[t].proxies)
      BY <2>3, FirstLineVouches
    <2> HIDE DEF t, ip
    <2>5. edge'.q = edge.q /\ edge'.trusted = t /\ edge'.ip = ip
      BY <1>0, <2>1 DEF Locals
    <2> QED
      BY <2>1, <2>2, <2>4, <2>5
  <1>8. CASE Store \/ CheckNetwork \/ Dispatch \/ Identify
    <2>1. edge'.q = edge.q /\ edge'.trusted = edge.trusted /\ edge'.ip = edge.ip
      BY <1>0, <1>8 DEF Store, CheckNetwork, Dispatch, Identify, Locals
    <2>2. InServeHTTP' => InServeHTTP
      BY <1>8 DEF Store, CheckNetwork, Dispatch, Identify, InServeHTTP
    <2>3. pc' \in {"off", "loaded", "idle", "trusted"} => pc' = pc
      BY <1>8 DEF Store, CheckNetwork, Dispatch, Identify
    <2> QED
      BY <2>1, <2>2, <2>3
  <1>9. CASE Serve \/ Prepare \/ TryTarget \/ StreamEnds
    BY <1>9 DEF Serve, Prepare, TryTarget, StreamEnds, edgeVars, InServeHTTP
  <1> QED
    BY <1>1, <1>2, <1>3, <1>4, <1>5, <1>6, <1>7, <1>8, <1>9 DEF Next

(***************************************************************************)
(* For any header, any list of proxies and any reload: with one            *)
(* X-Forwarded-For line no client can speak for another address past a hop *)
(* that is not trusted (acl.go:66-93); with several, none past such a hop  *)
(* of the first line.                                                      *)
(***************************************************************************)
THEOREM AddressesAreVouchedFor == Spec => []AddressVouchedFor
PROOF
  <1>1. AddressInv => AddressVouchedFor
    BY DEF AddressInv
  <1> QED
    BY <1>1, InitEdge, EdgeInductive, InitAddress, AddressInductive, PTL DEF Spec
-----------------------------------------------------------------------------
(* Sequences, by their lengths and elements. *)
LEMMA Cut ==
  ASSUME NEW X, NEW s \in Seq(X), NEW m \in Nat, NEW n \in Nat, m <= n, n <= Len(s)
  PROVE  /\ SubSeq(s, m + 1, n) \in Seq(X)
         /\ Len(SubSeq(s, m + 1, n)) = n - m
         /\ \A i \in 1 .. n - m : SubSeq(s, m + 1, n)[i] = s[i + m]
PROOF
  <1>1. \A i \in m + 1 .. n : s[i] \in X
    BY ElementOfSeq
  <1>2. /\ SubSeq(s, m + 1, n) \in Seq(X)
        /\ Len(SubSeq(s, m + 1, n)) = IF m + 1 <= n THEN n - (m + 1) + 1 ELSE 0
        /\ \A i \in 1 .. n - (m + 1) + 1 : SubSeq(s, m + 1, n)[i] = s[m + 1 + i - 1]
    BY <1>1, SubSeqProperties
  <1>3. \A i \in 1 .. n - m : i \in 1 .. n - (m + 1) + 1 /\ m + 1 + i - 1 = i + m
    OBVIOUS
  <1> QED
    BY <1>2, <1>3

LEMMA Joined ==
  ASSUME NEW X, NEW s \in Seq(X), NEW t \in Seq(X)
  PROVE  /\ s \o t \in Seq(X)
         /\ Len(s \o t) = Len(s) + Len(t)
         /\ \A i \in 1 .. Len(s) + Len(t) :
              (s \o t)[i] = IF i <= Len(s) THEN s[i] ELSE t[i - Len(s)]
PROOF
  BY ConcatProperties

(* s is what is left of t without its first d elements. *)
Beyond(s, t, d) == Len(s) = Len(t) - d /\ \A i \in 1 .. Len(s) : s[i] = t[i + d]

(* How much of n bytes does not fit. *)
Excess(n, limit) == IF n <= limit THEN 0 ELSE n - limit

LEMMA SuffixIs ==
  ASSUME NEW X, NEW s \in Seq(X), NEW limit \in Nat
  PROVE  Suffix(s, limit) \in Seq(X) /\ Beyond(Suffix(s, limit), s, Excess(Len(s), limit))
PROOF
  <1>0. Len(s) \in Nat
    OBVIOUS
  <1>1. CASE Len(s) <= limit
    BY <1>0, <1>1 DEF Suffix, Beyond, Excess
  <1>2. CASE Len(s) > limit
    <2> DEFINE m == Len(s) - limit
               u == SubSeq(s, m + 1, Len(s))
    <2>1. m \in Nat /\ m <= Len(s)
      BY <1>0, <1>2
    <2>2. Suffix(s, limit) = u /\ Excess(Len(s), limit) = m
      BY <1>0, <1>2 DEF Suffix, Excess
    <2> HIDE DEF m
    <2>3. u \in Seq(X) /\ Len(u) = Len(s) - m /\ \A i \in 1 .. Len(s) - m : u[i] = s[i + m]
      BY <1>0, <2>1, Cut
    <2> HIDE DEF u
    <2> QED
      BY <2>2, <2>3 DEF Beyond
  <1> QED
    BY <1>0, <1>1, <1>2

LEMMA PrefixIs ==
  ASSUME NEW X, NEW s \in Seq(X), NEW limit \in Nat
  PROVE  /\ Prefix(s, limit) \in Seq(X)
         /\ Len(Prefix(s, limit)) = Len(s) - Excess(Len(s), limit)
         /\ \A i \in 1 .. Len(Prefix(s, limit)) : Prefix(s, limit)[i] = s[i]
PROOF
  <1>0. Len(s) \in Nat
    OBVIOUS
  <1>1. CASE Len(s) <= limit
    BY <1>0, <1>1 DEF Prefix, Excess
  <1>2. CASE Len(s) > limit
    <2> DEFINE u == SubSeq(s, 0 + 1, limit)
    <2>1. Prefix(s, limit) = u /\ Excess(Len(s), limit) = Len(s) - limit
      BY <1>0, <1>2 DEF Prefix, Excess
    <2>2. u \in Seq(X) /\ Len(u) = limit - 0 /\ \A i \in 1 .. limit - 0 : u[i] = s[i + 0]
      <3>1. 0 \in Nat /\ 0 <= limit /\ limit <= Len(s)
        BY <1>0, <1>2
      <3> QED
        BY <3>1, Cut
    <2> HIDE DEF u
    <2>3. Len(u) = limit /\ \A i \in 1 .. limit : u[i] = s[i]
      BY <2>2
    <2> QED
      BY <1>0, <2>1, <2>2, <2>3
  <1> QED
    BY <1>0, <1>1, <1>2

(* Both buffers see a body in pieces: one piece more leaves what the two    *)
(* pieces together would have left.                                         *)
LEMMA SuffixStep ==
  ASSUME NEW X, NEW s \in Seq(X), NEW p \in Seq(X), NEW limit \in Nat
  PROVE  tailWrite(Suffix(s, limit), p, limit) = Suffix(s \o p, limit)
PROOF
  <1> DEFINE b == Suffix(s, limit)
             c == s \o p
             t == tailWrite(b, p, limit)
             u == Suffix(c, limit)
             drop == Excess(Len(s) + Len(p), limit)
  <1>0. Len(s) \in Nat /\ Len(p) \in Nat /\ drop \in 0 .. Len(s) + Len(p)
    BY DEF Excess
  <1>1. b \in Seq(X) /\ Beyond(b, s, Excess(Len(s), limit))
    BY SuffixIs
  <1>2. /\ c \in Seq(X) /\ Len(c) = Len(s) + Len(p)
        /\ \A i \in 1 .. Len(s) + Len(p) : c[i] = IF i <= Len(s) THEN s[i] ELSE p[i - Len(s)]
    BY Joined
  <1> HIDE DEF b, c
  <1>3. u \in Seq(X) /\ Beyond(u, c, drop)
    BY <1>2, SuffixIs
  <1> HIDE DEF u
  <1>4. t \in Seq(X) /\ Beyond(t, c, drop)
    <2>1. CASE Len(p) >= limit
      <3> DEFINE m == Len(p) - limit
                 v == SubSeq(p, m + 1, Len(p))
      <3>1. m \in Nat /\ m <= Len(p) /\ drop = Len(s) + m
        BY <1>0, <2>1 DEF Excess
      <3>2. t = v
        BY <2>1 DEF tailWrite
      <3> HIDE DEF m, t, drop
      <3>3. v \in Seq(X) /\ Len(v) = Len(p) - m /\ \A i \in 1 .. Len(p) - m : v[i] = p[i + m]
        BY <1>0, <3>1, Cut
      <3> HIDE DEF v
      <3>4. ASSUME NEW i \in 1 .. Len(v) PROVE v[i] = c[i + drop]
        <4> DEFINE k == i + drop
        <4>1. k \in 1 .. Len(s) + Len(p) /\ ~(k <= Len(s)) /\ k - Len(s) = i + m
          BY <1>0, <3>1, <3>3
        <4>2. v[i] = p[i + m]
          BY <3>3
        <4> HIDE DEF k
        <4>3. c[k] = p[k - Len(s)]
          BY <1>2, <4>1
        <4>4. v[i] = c[k]
          BY <4>1, <4>2, <4>3
        <4> QED
          BY <4>4 DEF k
      <3>5. Len(v) = Len(c) - drop
        BY <1>0, <1>2, <3>1, <3>3
      <3> QED
        BY <3>2, <3>3, <3>4, <3>5 DEF Beyond
    <2>2. CASE Len(p) < limit
      <3> DEFINE over == Len(b) + Len(p) - limit
                 m == IF over > 0 THEN over ELSE 0
                 r == IF over > 0 THEN SubSeq(b, over + 1, Len(b)) ELSE b
                 old == Excess(Len(s), limit)
      <3>1. t = r \o p
        <4>1. ~(Len(p) >= limit)
          BY <1>0, <2>2
        <4> QED
          BY <4>1, Zenon DEF tailWrite
      <3>2. Len(b) = Len(s) - old /\ old \in 0 .. Len(s) /\ Len(b) \in Nat
        BY <1>0, <1>1 DEF Beyond, Excess
      <3>3. m \in 0 .. Len(b) /\ m + old = drop /\ drop <= Len(s)
        <4>1. CASE Len(s) <= limit
          BY <1>0, <2>2, <3>2, <4>1 DEF Excess
        <4>2. CASE Len(s) > limit
          <5>1. old = Len(s) - limit /\ Len(b) = limit /\ drop = Len(s) + Len(p) - limit
            BY <1>0, <3>2, <4>2 DEF Excess
          <5>2. m = Len(p)
            BY <1>0, <5>1
          <5> HIDE DEF m, old, drop
          <5> QED
            BY <1>0, <2>2, <4>2, <5>1, <5>2
        <4> QED
          BY <1>0, <4>1, <4>2
      <3>4. r \in Seq(X) /\ Len(r) = Len(b) - m /\ \A i \in 1 .. Len(b) - m : r[i] = b[i + m]
        <4>1. CASE over > 0
          <5>1. r = SubSeq(b, m + 1, Len(b)) /\ m \in Nat /\ m <= Len(b)
            BY <3>3, <4>1
          <5> DEFINE x == SubSeq(b, m + 1, Len(b))
          <5> HIDE DEF m, r
          <5>2. Len(b) \in Nat /\ Len(b) <= Len(b)
            BY <3>2
          <5>3. x \in Seq(X) /\ Len(x) = Len(b) - m /\ \A i \in 1 .. Len(b) - m : x[i] = b[i + m]
            BY <1>1, <5>1, <5>2, Cut
          <5> HIDE DEF x
          <5>4. r = x
            BY <5>1 DEF x
          <5> QED
            BY <5>3, <5>4
        <4>2. CASE ~(over > 0)
          <5>1. r = b /\ m = 0
            BY <4>2
          <5> HIDE DEF m, r
          <5> QED
            BY <1>1, <3>2, <5>1
        <4> QED
          BY <4>1, <4>2
      <3>5. \A i \in 1 .. Len(b) : b[i] = s[i + old]
        BY <1>1 DEF Beyond
      <3> HIDE DEF r, m, old, drop, t, over
      <3>6. ASSUME NEW i \in 1 .. Len(r) PROVE r[i] = s[i + drop]
        <4>1. i \in 1 .. Len(b) - m /\ i + m \in 1 .. Len(b) /\ (i + m) + old = i + drop
          BY <3>2, <3>3, <3>4
        <4> QED
          BY <3>4, <3>5, <4>1
      <3> DEFINE v == r \o p
      <3>7. /\ v \in Seq(X) /\ Len(v) = Len(r) + Len(p)
            /\ \A i \in 1 .. Len(r) + Len(p) : v[i] = IF i <= Len(r) THEN r[i] ELSE p[i - Len(r)]
        BY <3>4, Joined
      <3> HIDE DEF v
      <3>8. Len(r) = Len(s) - drop /\ Len(r) \in Nat
        BY <3>2, <3>3, <3>4
      <3>9. ASSUME NEW i \in 1 .. Len(v) PROVE v[i] = c[i + drop]
        <4> DEFINE k == i + drop
        <4>1. k \in 1 .. Len(s) + Len(p) /\ i \in 1 .. Len(r) + Len(p)
              /\ (k <= Len(s) <=> i <= Len(r)) /\ k - Len(s) = i - Len(r)
              /\ (i <= Len(r) => i \in 1 .. Len(r))
          BY <1>0, <3>7, <3>8
        <4>2. i <= Len(r) => r[i] = s[k]
          BY <3>6, <4>1
        <4> HIDE DEF k
        <4>3. c[k] = IF k <= Len(s) THEN s[k] ELSE p[k - Len(s)]
          BY <1>2, <4>1
        <4>4. v[i] = IF i <= Len(r) THEN r[i] ELSE p[i - Len(r)]
          BY <3>7, <4>1
        <4>5. v[i] = c[k]
          BY <4>1, <4>2, <4>3, <4>4
        <4> QED
          BY <4>5 DEF k
      <3>10. Len(v) = Len(c) - drop
        BY <1>0, <1>2, <3>7, <3>8
      <3> QED
        BY <3>1, <3>7, <3>9, <3>10 DEF Beyond, v
    <2> QED
      BY <1>0, <2>1, <2>2
  <1> HIDE DEF t, drop
  <1>5. t = u
    <2>1. Len(t) = Len(u) /\ \A i \in 1 .. Len(t) : t[i] = u[i]
      BY <1>3, <1>4 DEF Beyond
    <2> QED
      BY <1>3, <1>4, <2>1, SeqEqual
  <1> QED
    BY <1>5 DEF t, u, b, c

(* What the log holds of a body s. *)
Logged(s, limit) == [data |-> Prefix(s, limit), truncated |-> Len(s) > limit]

LEMMA MarkTruncated ==
  ASSUME NEW d, NEW g, NEW h
  PROVE  [[data |-> d, truncated |-> g] EXCEPT !.truncated = h] =
           [data |-> d, truncated |-> h]
PROOF
  OBVIOUS

LEMMA PrefixStep ==
  ASSUME NEW X, NEW s \in Seq(X), NEW p \in Seq(X), p # << >>, NEW limit \in Nat \ {0}
  PROVE  logWrite(Logged(s, limit), p, limit) = Logged(s \o p, limit)
PROOF
  <1> DEFINE d == Prefix(s, limit)
             rest == limit - Len(d)
             e == Prefix(p, rest)
             c == s \o p
             u == Prefix(c, limit)
  <1>0. Len(s) \in Nat /\ Len(p) \in Nat /\ Len(p) > 0 /\ limit \in Nat
    BY EmptySeq, LenProperties
  <1>1. /\ d \in Seq(X) /\ Len(d) = Len(s) - Excess(Len(s), limit)
        /\ \A i \in 1 .. Len(d) : d[i] = s[i]
    BY <1>0, PrefixIs
  <1>2. /\ c \in Seq(X) /\ Len(c) = Len(s) + Len(p)
        /\ \A i \in 1 .. Len(s) + Len(p) : c[i] = IF i <= Len(s) THEN s[i] ELSE p[i - Len(s)]
    BY Joined
  <1> HIDE DEF d, c
  <1>3. /\ u \in Seq(X) /\ Len(u) = Len(c) - Excess(Len(c), limit)
        /\ \A i \in 1 .. Len(u) : u[i] = c[i]
    BY <1>0, <1>2, PrefixIs
  <1> HIDE DEF u
  <1>4. Logged(c, limit) = [data |-> u, truncated |-> Len(s) + Len(p) > limit]
    BY <1>2 DEF Logged, u
  <1>5. logWrite(Logged(s, limit), p, limit) =
          IF rest <= 0 THEN [data |-> d, truncated |-> TRUE]
          ELSE [data |-> d \o e, truncated |-> Len(s) > limit \/ Len(p) > rest]
    <2> DEFINE g == Len(s) > limit
    <2>1. Logged(s, limit) = [data |-> d, truncated |-> g]
      BY DEF Logged, d
    <2> HIDE DEF g
    <2>2. logWrite([data |-> d, truncated |-> g], p, limit) =
            IF rest <= 0 THEN [data |-> d, truncated |-> TRUE]
            ELSE [data |-> d \o e, truncated |-> g \/ Len(p) > rest]
      <3> DEFINE log == [data |-> d, truncated |-> g]
      <3>1. /\ log.data = d /\ log.truncated = g
            /\ [log EXCEPT !.truncated = TRUE] = [data |-> d, truncated |-> TRUE]
        <4>1. log.data = d
          BY Zenon
        <4>2. log.truncated = g
          BY Zenon
        <4>3. [log EXCEPT !.truncated = TRUE] = [data |-> d, truncated |-> TRUE]
          BY MarkTruncated, Zenon
        <4> QED
          BY <4>1, <4>2, <4>3
      <3> HIDE DEF log
      <3>2. logWrite(log, p, limit) =
              IF limit - Len(log.data) <= 0 THEN [log EXCEPT !.truncated = TRUE]
              ELSE [data |-> log.data \o Prefix(p, limit - Len(log.data)),
                    truncated |-> log.truncated \/ Len(p) > limit - Len(log.data)]
        BY Zenon DEF logWrite
      <3>3. logWrite(log, p, limit) =
              IF limit - Len(d) <= 0 THEN [data |-> d, truncated |-> TRUE]
              ELSE [data |-> d \o Prefix(p, limit - Len(d)),
                    truncated |-> g \/ Len(p) > limit - Len(d)]
        BY <3>1, <3>2, Zenon
      <3> QED
        BY <3>3, Zenon DEF log
    <2> QED
      BY <2>1, <2>2 DEF g
  <1>6. CASE rest <= 0
    <2>1. Len(s) >= limit /\ Len(d) = limit /\ Len(u) = limit /\ Len(s) + Len(p) > limit
      BY <1>0, <1>1, <1>2, <1>3, <1>6 DEF Excess
    <2>2. ASSUME NEW i \in 1 .. Len(d) PROVE d[i] = u[i]
      <3>1. i \in 1 .. Len(u) /\ i \in 1 .. Len(s) + Len(p) /\ i <= Len(s)
        BY <1>0, <2>1
      <3> QED
        BY <1>1, <1>2, <1>3, <3>1
    <2>3. d = u
      BY <1>1, <1>3, <2>1, <2>2, SeqEqual
    <2>4. (Len(s) + Len(p) > limit) = TRUE
      BY <2>1
    <2> QED
      BY <1>4, <1>5, <1>6, <2>3, <2>4 DEF c
  <1>7. CASE rest > 0
    <2>1. Len(d) = Len(s) /\ rest \in Nat /\ rest = limit - Len(s) /\ Len(s) <= limit
      BY <1>0, <1>1, <1>7 DEF Excess
    <2>2. (Len(s) > limit \/ Len(p) > rest) = (Len(s) + Len(p) > limit)
      BY <1>0, <2>1
    <2> HIDE DEF rest
    <2>3. /\ e \in Seq(X) /\ Len(e) = Len(p) - Excess(Len(p), rest)
          /\ \A i \in 1 .. Len(e) : e[i] = p[i]
      BY <2>1, PrefixIs
    <2> HIDE DEF e
    <2> DEFINE v == d \o e
    <2>4. /\ v \in Seq(X) /\ Len(v) = Len(s) + Len(e)
          /\ \A i \in 1 .. Len(s) + Len(e) : v[i] = IF i <= Len(s) THEN d[i] ELSE e[i - Len(s)]
      <3>1. /\ v \in Seq(X) /\ Len(v) = Len(d) + Len(e)
            /\ \A i \in 1 .. Len(d) + Len(e) : v[i] = IF i <= Len(d) THEN d[i] ELSE e[i - Len(d)]
        BY <1>1, <2>3, Joined
      <3> HIDE DEF v
      <3> QED
        BY <2>1, <3>1
    <2> HIDE DEF v
    <2>5. Len(v) = Len(u) /\ Len(e) \in 0 .. Len(p)
      <3> DEFINE ls == Len(s)
                 lp == Len(p)
      <3>1. Len(u) = (ls + lp) - Excess(ls + lp, limit) /\ Len(v) = ls + (lp - Excess(lp, limit - ls))
            /\ Len(e) = lp - Excess(lp, limit - ls)
        BY <1>2, <1>3, <2>1, <2>3, <2>4
      <3>2. ls \in Nat /\ lp \in Nat /\ ls <= limit
        BY <1>0, <2>1
      <3> HIDE DEF ls, lp
      <3>3. Len(v) = Len(u) /\ Len(e) \in 0 .. lp
        BY <3>1, <3>2 DEF Excess
      <3> QED
        BY <3>3 DEF lp
    <2>6. ASSUME NEW i \in 1 .. Len(v) PROVE v[i] = u[i]
      <3>1. i \in 1 .. Len(u) /\ i \in 1 .. Len(s) + Len(p) /\ i \in 1 .. Len(s) + Len(e)
        BY <1>0, <2>4, <2>5
      <3>2. CASE i <= Len(s)
        <4>1. i \in 1 .. Len(d)
          BY <1>0, <2>1, <3>1, <3>2
        <4> QED
          BY <1>1, <1>2, <1>3, <2>4, <3>1, <3>2, <4>1
      <3>3. CASE ~(i <= Len(s))
        <4>1. i - Len(s) \in 1 .. Len(e)
          BY <1>0, <2>5, <3>1, <3>3
        <4> QED
          BY <1>2, <1>3, <2>3, <2>4, <3>1, <3>3, <4>1
      <3> QED
        BY <3>2, <3>3
    <2>7. v = u
      BY <1>3, <2>4, <2>5, <2>6, SeqEqual
    <2>8. ~(rest <= 0)
      BY <1>7, <2>1
    <2> QED
      BY <1>4, <1>5, <2>2, <2>7, <2>8 DEF v, c
  <1> QED
    BY <1>0, <1>1, <1>6, <1>7 DEF Excess
-----------------------------------------------------------------------------
(* The bytes of a body: in the order of its objects, and as many of each as *)
(* its size says.                                                           *)
Positions(s, i) == {k \in DOMAIN s : s[k] = i}

Orderly(s, m, objects) ==
  /\ s \in Seq(1 .. m)
  /\ \A j, k \in 1 .. Len(s) : j <= k => s[j] <= s[k]
  /\ \A i \in 1 .. m : /\ IsFiniteSet(Positions(s, i))
                       /\ Cardinality(Positions(s, i)) = objects[i].size

(* FlattenSeq as an equation. *)
Flat(f, n, seqs) == f = [i \in 1 .. n |-> IF i = 1 THEN seqs[i] ELSE f[i - 1] \o seqs[i]]

LEMMA FlatValue ==
  ASSUME NEW seqs, NEW n, NEW f, Flat(f, n, seqs), NEW i \in 1 .. n
  PROVE  f[i] = IF i = 1 THEN seqs[i] ELSE f[i - 1] \o seqs[i]
PROOF
  <1> DEFINE e(x) == IF x = 1 THEN seqs[x] ELSE f[x - 1] \o seqs[x]
  <1>1. f = [x \in 1 .. n |-> e(x)]
    BY DEF Flat
  <1> HIDE DEF e
  <1>2. f[i] = e(i)
    BY <1>1
  <1> QED
    BY <1>2 DEF e

LEMMA FlatExists ==
  ASSUME NEW seqs, NEW n \in Nat
  PROVE  \E f : Flat(f, n, seqs)
PROOF
  <1> DEFINE T == {m \in Nat : \E f : Flat(f, m, seqs)}
  <1>1. 0 \in T
    <2>1. Flat([i \in 1 .. 0 |-> seqs], 0, seqs)
      BY DEF Flat
    <2> QED
      BY <2>1
  <1>2. ASSUME NEW m \in T PROVE m + 1 \in T
    <2>1. PICK f : Flat(f, m, seqs)
      OBVIOUS
    <2> DEFINE g == [i \in 1 .. m + 1 |->
                       IF i <= m THEN f[i] ELSE IF i = 1 THEN seqs[i] ELSE f[i - 1] \o seqs[i]]
               e(i) == IF i = 1 THEN seqs[i] ELSE g[i - 1] \o seqs[i]
    <2>2. ASSUME NEW i \in 1 .. m + 1 PROVE g[i] = e(i)
      <3>1. CASE i = m + 1
        BY <3>1
      <3>2. CASE i <= m
        <4>1. i \in 1 .. m /\ g[i] = f[i] /\ (i # 1 => g[i - 1] = f[i - 1])
          BY <3>2
        <4>2. f[i] = IF i = 1 THEN seqs[i] ELSE f[i - 1] \o seqs[i]
          BY <2>1, <4>1, FlatValue
        <4> HIDE DEF g
        <4> QED
          BY <4>1, <4>2
      <3> QED
        BY <3>1, <3>2
    <2>3. g = [i \in 1 .. m + 1 |-> g[i]]
      OBVIOUS
    <2>4. g = [i \in 1 .. m + 1 |-> e(i)]
      <3> HIDE DEF g, e
      <3> QED
        BY <2>2, <2>3
    <2>5. Flat(g, m + 1, seqs)
      <3> HIDE DEF g
      <3> QED
        BY <2>4 DEF Flat
    <2> QED
      BY <2>5
  <1>3. T = Nat
    <2>1. T \subseteq Nat
      OBVIOUS
    <2> HIDE DEF T
    <2> QED
      BY <1>1, <1>2, <2>1, SetInduction
  <1> QED
    BY <1>3

(* One object's bytes behind those of the objects before it. *)
LEMMA OrderlyStep ==
  ASSUME NEW objects, NEW m \in Nat, NEW s, Orderly(s, m, objects),
         objects[m + 1].size \in Nat \ {0},
         NEW r, r = [j \in 1 .. objects[m + 1].size |-> m + 1]
  PROVE  Orderly(s \o r, m + 1, objects)
PROOF
  <1> DEFINE n == objects[m + 1].size
             c == s \o r
  <1>1. n \in Nat /\ s \in Seq(1 .. m + 1) /\ Len(s) \in Nat /\ DOMAIN s = 1 .. Len(s)
    <2>1. s \in Seq(1 .. m) /\ 1 .. m \subseteq 1 .. m + 1
      BY DEF Orderly
    <2> QED
      BY <2>1
  <1>2. r \in Seq(1 .. m + 1) /\ Len(r) = n /\ \A j \in 1 .. n : r[j] = m + 1
    <2>1. m + 1 \in 1 .. m + 1
      OBVIOUS
    <2> HIDE DEF n
    <2>2. r = [j \in 1 .. n |-> m + 1]
      BY DEF n
    <2> QED
      BY <1>1, <2>1, <2>2
  <1>3. /\ c \in Seq(1 .. m + 1) /\ Len(c) = Len(s) + n
        /\ \A i \in 1 .. Len(s) + n : c[i] = IF i <= Len(s) THEN s[i] ELSE r[i - Len(s)]
    <2>1. /\ c \in Seq(1 .. m + 1) /\ Len(c) = Len(s) + Len(r)
          /\ \A i \in 1 .. Len(s) + Len(r) : c[i] = IF i <= Len(s) THEN s[i] ELSE r[i - Len(s)]
      BY <1>1, <1>2, Joined
    <2> HIDE DEF c, n
    <2> QED
      BY <1>2, <2>1
  <1> HIDE DEF c, n
  <1>4. \A i \in 1 .. Len(s) + n : c[i] = IF i <= Len(s) THEN s[i] ELSE m + 1
    <2> SUFFICES ASSUME NEW i \in 1 .. Len(s) + n, ~(i <= Len(s)) PROVE c[i] = m + 1
      BY <1>3
    <2>1. i - Len(s) \in 1 .. n
      BY <1>1
    <2> QED
      BY <1>2, <1>3, <2>1
  <1>5. \A i \in 1 .. Len(s) : s[i] \in 1 .. m
    BY ElementOfSeq DEF Orderly
  <1>6. ASSUME NEW j \in 1 .. Len(c), NEW k \in 1 .. Len(c), j <= k PROVE c[j] <= c[k]
    <2>1. j \in 1 .. Len(s) + n /\ k \in 1 .. Len(s) + n
      BY <1>3
    <2>2. CASE k <= Len(s)
      <3>1. j \in 1 .. Len(s) /\ k \in 1 .. Len(s)
        BY <1>1, <1>6, <2>1, <2>2
      <3>2. c[j] = s[j] /\ c[k] = s[k]
        <4>1. j <= Len(s) /\ k <= Len(s)
          BY <1>1, <3>1
        <4> QED
          BY <1>4, <2>1, <4>1
      <3>3. s[j] <= s[k]
        BY <1>6, <3>1 DEF Orderly
      <3> QED
        BY <3>2, <3>3
    <2>3. CASE j <= Len(s) /\ ~(k <= Len(s))
      <3>1. j \in 1 .. Len(s)
        BY <2>1, <2>3
      <3>2. c[j] = s[j] /\ c[k] = m + 1 /\ s[j] \in 1 .. m
        BY <1>4, <1>5, <2>1, <2>3, <3>1
      <3> QED
        BY <3>2
    <2>4. CASE ~(j <= Len(s)) /\ ~(k <= Len(s))
      <3>1. c[j] = m + 1 /\ c[k] = m + 1
        BY <1>4, <2>1, <2>4
      <3> QED
        BY <3>1
    <2> QED
      BY <1>1, <1>6, <2>1, <2>2, <2>3, <2>4
  <1>7. DOMAIN c = 1 .. Len(s) + n
    BY <1>3
  <1>8. ASSUME NEW i \in 1 .. m PROVE Positions(c, i) = Positions(s, i)
    <2>1. i # m + 1
      OBVIOUS
    <2>2. ASSUME NEW k PROVE k \in Positions(c, i) <=> k \in Positions(s, i)
      <3>1. k \in 1 .. Len(s) <=> k \in 1 .. Len(s) + n /\ k <= Len(s)
        BY <1>1
      <3> QED
        BY <1>1, <1>4, <1>7, <2>1, <3>1 DEF Positions
    <2> QED
      BY <2>2
  <1>9. Positions(c, m + 1) = Len(s) + 1 .. Len(s) + n
    <2>1. ASSUME NEW k PROVE k \in Positions(c, m + 1) <=> k \in Len(s) + 1 .. Len(s) + n
      <3>1. k \in Len(s) + 1 .. Len(s) + n <=> k \in 1 .. Len(s) + n /\ ~(k <= Len(s))
        BY <1>1
      <3>2. k \in 1 .. Len(s) + n /\ k <= Len(s) => k \in 1 .. Len(s)
        BY <1>1
      <3>3. k \in 1 .. Len(s) => s[k] # m + 1
        BY <1>5
      <3> QED
        BY <1>4, <1>7, <3>1, <3>2, <3>3 DEF Positions
    <2> QED
      BY <2>1
  <1>10. IsFiniteSet(Positions(c, m + 1)) /\ Cardinality(Positions(c, m + 1)) = n
    <2> DEFINE a == Len(s) + 1
               b == Len(s) + n
    <2>1. a \in Int /\ b \in Int /\ a <= b + 1 /\ b - a + 1 = n
      BY <1>1
    <2> HIDE DEF a, b
    <2>2. IsFiniteSet(a .. b) /\ Cardinality(a .. b) = IF a > b THEN 0 ELSE b - a + 1
      BY <2>1, FS_Interval
    <2>3. Cardinality(a .. b) = n
      BY <2>1, <2>2
    <2>4. Positions(c, m + 1) = a .. b
      BY <1>9 DEF a, b
    <2> QED
      BY <2>2, <2>3, <2>4
  <1>11. ASSUME NEW i \in 1 .. m + 1
         PROVE  IsFiniteSet(Positions(c, i)) /\ Cardinality(Positions(c, i)) = objects[i].size
    <2>1. CASE i = m + 1
      BY <1>10, <2>1 DEF n
    <2>2. CASE i # m + 1
      <3>1. i \in 1 .. m
        BY <2>2
      <3> QED
        BY <1>8, <3>1 DEF Orderly
    <2> QED
      BY <2>1, <2>2
  <1> QED
    BY <1>3, <1>6, <1>11 DEF Orderly, c

LEMMA BytesOrderly ==
  ASSUME NEW objects \in Answers
  PROVE  Orderly(Bytes(objects), Len(objects), objects)
PROOF
  <1> DEFINE seqs == [i \in DOMAIN objects |-> [j \in 1 .. objects[i].size |-> i]]
             n == Len(objects)
  <1>1. n \in Nat /\ DOMAIN objects = 1 .. n
        /\ \A i \in 1 .. n : objects[i].size \in Nat \ {0}
    BY AnswersAssumption
  <1>2. seqs = [i \in 1 .. n |-> [j \in 1 .. objects[i].size |-> i]]
    BY <1>1
  <1>3. Len(seqs) = n
    <2> HIDE DEF n
    <2> QED
      BY <1>1, <1>2, LenProperties, IsASeq
  <1> DEFINE f == CHOOSE g : Flat(g, n, seqs)
  <1>4. Bytes(objects) = IF n = 0 THEN seqs ELSE f[n]
    <2>1. FlattenSeq(seqs) = IF Len(seqs) = 0 THEN seqs
                             ELSE (CHOOSE g : Flat(g, Len(seqs), seqs))[Len(seqs)]
      BY DEF FlattenSeq, Flat
    <2> QED
      BY <1>3, <2>1 DEF Bytes
  <1>5. Flat(f, n, seqs)
    BY <1>1, FlatExists
  <1>6. Orderly(<< >>, 0, objects)
    BY DEF Orderly
  <1> HIDE DEF f, seqs, n
  <1>7. CASE n = 0
    <2>1. seqs = << >>
      BY <1>2, <1>7
    <2> QED
      BY <1>4, <1>6, <1>7, <2>1 DEF n
  <1>8. CASE n # 0
    <2> DEFINE T == {m \in Nat : m + 1 <= n => Orderly(f[m + 1], m + 1, objects)}
    <2>1. 0 \in T
      <3>1. 1 \in 1 .. n /\ objects[1].size \in Nat \ {0}
        BY <1>1, <1>8
      <3>2. f[1] = seqs[1] /\ seqs[1] = [j \in 1 .. objects[1].size |-> 1]
        <4>1. f[1] = IF 1 = 1 THEN seqs[1] ELSE f[1 - 1] \o seqs[1]
          BY <1>5, <3>1, FlatValue, Zenon
        <4>2. seqs[1] = [j \in 1 .. objects[1].size |-> 1]
          BY <1>2, <3>1
        <4> QED
          BY <4>1, <4>2
      <3> DEFINE r == [j \in 1 .. objects[1].size |-> 1]
      <3>3. Orderly(<< >> \o r, 1, objects)
        <4>1. 0 \in Nat /\ 0 + 1 = 1
          OBVIOUS
        <4> QED
          BY <1>6, <3>1, <4>1, OrderlyStep
      <3>4. << >> \o r = r
        <4>1. r \in Seq({1})
          BY <3>1
        <4> HIDE DEF r
        <4> QED
          BY <4>1, ConcatEmptySeq
      <3> QED
        BY <3>2, <3>3, <3>4
    <2>2. ASSUME NEW m \in T PROVE m + 1 \in T
      <3> SUFFICES ASSUME (m + 1) + 1 <= n
                   PROVE  Orderly(f[(m + 1) + 1], (m + 1) + 1, objects)
        OBVIOUS
      <3> DEFINE k == m + 1
      <3>1. k \in Nat /\ k + 1 \in 1 .. n /\ k + 1 # 1 /\ (k + 1) - 1 = k
        BY <1>1
      <3>2. Orderly(f[k], k, objects)
        BY <1>1
      <3> HIDE DEF k, T
      <3>3. f[k + 1] = f[k] \o seqs[k + 1]
        <4> DEFINE x == k + 1
        <4>1. x \in 1 .. n /\ x # 1 /\ x - 1 = k
          BY <3>1
        <4> HIDE DEF x
        <4>2. f[x] = IF x = 1 THEN seqs[x] ELSE f[x - 1] \o seqs[x]
          <5>1. \A i \in 1 .. n : f[i] = IF i = 1 THEN seqs[i] ELSE f[i - 1] \o seqs[i]
            BY <1>5, FlatValue
          <5> QED
            BY <4>1, <5>1
        <4>3. f[x] = f[k] \o seqs[x]
          BY <4>1, <4>2
        <4> QED
          BY <4>3 DEF x
      <3>4. seqs[k + 1] = [j \in 1 .. objects[k + 1].size |-> k + 1]
        BY <1>2, <3>1
      <3>5. objects[k + 1].size \in Nat \ {0}
        BY <1>1, <3>1
      <3>6. Orderly(f[k + 1], k + 1, objects)
        BY <3>1, <3>2, <3>3, <3>4, <3>5, OrderlyStep
      <3> QED
        BY <3>6 DEF k
    <2>3. T = Nat
      <3>1. T \subseteq Nat
        OBVIOUS
      <3> HIDE DEF T
      <3> QED
        BY <2>1, <2>2, <3>1, SetInduction
    <2>4. Orderly(f[n], n, objects)
      <3>1. n - 1 \in Nat /\ (n - 1) + 1 = n /\ n <= n
        BY <1>1, <1>8
      <3>2. n - 1 \in T
        BY <2>3, <3>1, Zenon
      <3> QED
        BY <3>1, <3>2
    <2> QED
      BY <1>4, <1>8, <2>4 DEF n
  <1> QED
    BY <1>7, <1>8
-----------------------------------------------------------------------------
(* What has streamed through so far. *)
Seen(st) == SubSeq(Bytes(st.objects), 1, st.at)

(* Both buffers hold what one piece would have left in them. *)
Streaming(st) ==
  /\ st \in [objects: {st.objects}, at: {st.at}, buf: {st.buf}, limit: {st.limit},
             log: {st.log}]
  /\ st.objects \in Answers
  /\ st.limit \in LogLimits
  /\ st.at \in 0 .. Len(Bytes(st.objects))
  /\ st.buf = Suffix(Seen(st), TailLimit)
  /\ st.log = Logged(Seen(st), st.limit)

StreamInv == pc \in {"stream", "recorded"} => Streaming(stream)

LEMMA BytesSequence ==
  ASSUME NEW objects \in Answers
  PROVE  Bytes(objects) \in Seq(Nat) /\ Len(Bytes(objects)) \in Nat
PROOF
  <1>1. Bytes(objects) \in Seq(1 .. Len(objects)) /\ Len(objects) \in Nat
    BY BytesOrderly, AnswersAssumption DEF Orderly
  <1>2. 1 .. Len(objects) \subseteq Nat
    BY <1>1
  <1> HIDE AnswersAssumption
  <1> QED
    BY <1>1, <1>2

LEMMA StreamStarts ==
  ASSUME NEW objects \in Answers, NEW limit \in LogLimits
  PROVE  Streaming([objects |-> objects, at |-> 0, buf |-> << >>, limit |-> limit,
                    log |-> newLogBodyBuffer])
PROOF
  <1> DEFINE st == [objects |-> objects, at |-> 0, buf |-> << >>, limit |-> limit,
                    log |-> newLogBodyBuffer]
  <1>1. Seen(st) = << >> /\ Len(<< >>) = 0
    BY SubSeqEmpty DEF Seen
  <1>2. TailLimit \in Nat /\ limit \in Nat \ {0}
    BY AnswersAssumption
  <1>3. Suffix(<< >>, TailLimit) = << >> /\ Prefix(<< >>, limit) = << >>
    BY <1>1, <1>2 DEF Suffix, Prefix
  <1>4. (Len(<< >>) > limit) = FALSE
    BY <1>1, <1>2
  <1>5. newLogBodyBuffer = Logged(<< >>, limit)
    BY <1>3, <1>4, Zenon DEF Logged, newLogBodyBuffer
  <1>6. st.at \in 0 .. Len(Bytes(st.objects))
    BY BytesSequence
  <1>7. st.buf = << >> /\ st.log = newLogBodyBuffer /\ st.limit = limit /\ st.objects = objects
        /\ st.at = 0
        /\ st \in [objects: {st.objects}, at: {st.at}, buf: {st.buf}, limit: {st.limit},
                   log: {st.log}]
    OBVIOUS
  <1> HIDE DEF st
  <1>8. Streaming(st)
    BY <1>1, <1>3, <1>5, <1>6, <1>7 DEF Streaming
  <1> QED
    BY <1>8 DEF st

LEMMA StreamStep ==
  ASSUME NEW st, Streaming(st), NEW n \in Nat \ {0}, st.at + n <= Len(Bytes(st.objects))
  PROVE  LET p == SubSeq(Bytes(st.objects), st.at + 1, st.at + n) IN
         Streaming([st EXCEPT !.at = @ + n, !.buf = tailWrite(@, p, TailLimit),
                              !.log = logWrite(@, p, st.limit)])
PROOF
  <1> DEFINE B == Bytes(st.objects)
             a == st.at
             b == a + n
             p == SubSeq(B, a + 1, b)
             s == SubSeq(B, 1, a)
             t == SubSeq(B, 1, b)
  <1>1. B \in Seq(Nat) /\ Len(B) \in Nat /\ TailLimit \in Nat /\ st.limit \in Nat \ {0}
    BY BytesSequence, AnswersAssumption DEF Streaming
  <1>2. a \in Nat /\ b \in Nat /\ a <= b /\ b <= Len(B) /\ b - a = n
    BY <1>1 DEF Streaming
  <1>3. st.buf = Suffix(s, TailLimit) /\ st.log = Logged(s, st.limit)
    BY DEF Streaming, Seen
  <1> DEFINE w == tailWrite(st.buf, p, TailLimit)
             l == logWrite(st.log, p, st.limit)
             u == [st EXCEPT !.at = b, !.buf = w, !.log = l]
  <1>4. /\ u.objects = st.objects /\ u.at = b /\ u.limit = st.limit
        /\ u.buf = w /\ u.log = l
        /\ u \in [objects: {u.objects}, at: {u.at}, buf: {u.buf}, limit: {u.limit},
                  log: {u.log}]
    <2>1. st \in [objects: {st.objects}, at: {st.at}, buf: {st.buf}, limit: {st.limit},
                  log: {st.log}]
      BY DEF Streaming
    <2> HIDE DEF w, l, b
    <2> QED
      BY <2>1
  <1> HIDE DEF B, b, a, u
  <1>5. p \in Seq(Nat) /\ Len(p) = n /\ p # << >>
    <2>1. p \in Seq(Nat) /\ Len(p) = b - a
      BY <1>1, <1>2, Cut
    <2> HIDE DEF p
    <2> QED
      BY <1>2, <2>1
  <1>6. s \in Seq(Nat)
    <2>1. 0 \in Nat /\ 0 <= a /\ a <= Len(B) /\ 0 + 1 = 1
      BY <1>1, <1>2
    <2>2. SubSeq(B, 0 + 1, a) \in Seq(Nat)
      BY <1>1, <1>2, <2>1, Cut
    <2> QED
      BY <2>1, <2>2
  <1>7. s \o p = t
    <2>1. 1 \in 1 .. Len(B) + 1 /\ a \in 1 - 1 .. Len(B) /\ b \in a .. Len(B)
      BY <1>1, <1>2
    <2> QED
      BY <1>1, <2>1, ConcatAdjacentSubSeq
  <1> HIDE DEF s, p, t
  <1>8. u.buf = Suffix(t, TailLimit)
    <2>1. w = Suffix(s \o p, TailLimit)
      BY <1>1, <1>3, <1>5, <1>6, SuffixStep
    <2> HIDE DEF w
    <2> QED
      BY <1>4, <1>7, <2>1
  <1>9. u.log = Logged(t, u.limit)
    <2>1. l = Logged(s \o p, st.limit)
      BY <1>1, <1>3, <1>5, <1>6, PrefixStep
    <2> HIDE DEF l
    <2> QED
      BY <1>4, <1>7, <2>1
  <1>10. Seen(u) = t
    BY <1>4 DEF Seen, t, B
  <1>11. u.at \in 0 .. Len(Bytes(u.objects))
    BY <1>1, <1>2, <1>4 DEF B
  <1>12. u.objects \in Answers /\ u.limit \in LogLimits
    BY <1>4 DEF Streaming
  <1>13. Streaming(u)
    BY <1>4, <1>8, <1>9, <1>10, <1>11, <1>12 DEF Streaming
  <1> QED
    BY <1>13, Zenon DEF u, p, a, b, B

LEMMA StreamInductive == StreamInv /\ [Next]_vars => StreamInv'
PROOF
  <1> SUFFICES ASSUME StreamInv, [Next]_vars PROVE StreamInv'
    OBVIOUS
  <1>1. ASSUME NEW c \in Files, Load(c) PROVE StreamInv'
    BY <1>1 DEF Load, StreamInv
  <1>2. ASSUME NEW n \in 1 .. Len(Bytes(IF pc = "stream" THEN stream.objects ELSE << >>)),
               Chunk(n)
        PROVE  StreamInv'
    <2>1. pc = "stream" /\ Streaming(stream)
      BY <1>2 DEF Chunk, StreamInv
    <2>2. n \in Nat \ {0} /\ stream.at + n <= Len(Bytes(stream.objects))
      <3>1. stream.objects \in Answers
        BY <2>1 DEF Streaming
      <3> QED
        BY <1>2, <2>1, <3>1, BytesSequence DEF Chunk
    <2>3. Streaming(stream')
      BY <1>2, <2>1, <2>2, StreamStep DEF Chunk
    <2> QED
      BY <2>3 DEF StreamInv
  <1>3. CASE Rest \/ UNCHANGED vars
    BY <1>3 DEF Rest, vars, StreamInv
  <1>4. ASSUME NEW q, Arrive(q) PROVE StreamInv'
    BY <1>4 DEF Arrive, StreamInv
  <1>5. ASSUME NEW j, ReadBody(j) PROVE StreamInv'
    BY <1>5 DEF ReadBody, StreamInv
  <1>6. ASSUME NEW objects \in Answers, NEW limit \in LogLimits, Commit(objects, limit)
        PROVE  StreamInv'
    <2>1. Streaming(stream')
      BY <1>6, StreamStarts DEF Commit
    <2> QED
      BY <2>1 DEF StreamInv
  <1>7. CASE Prepare \/ TryTarget \/ StreamEnds
    BY <1>7 DEF Prepare, TryTarget, StreamEnds, StreamInv
  <1>8. CASE Serve \/ Store \/ FindClient \/ CheckNetwork \/ Dispatch \/ Identify
    BY <1>8 DEF Serve, Store, InServeHTTP, FindClient, CheckNetwork, Dispatch, Identify,
       StreamInv
  <1> QED
    BY <1>1, <1>2, <1>3, <1>4, <1>5, <1>6, <1>7, <1>8 DEF Next

LEMMA StreamAlways == Spec => []StreamInv
PROOF
  <1>1. Init => StreamInv
    BY DEF Init, StreamInv
  <1> QED
    BY <1>1, StreamInductive, PTL DEF Spec

(***************************************************************************)
(* For any body, any way of cutting it and any limits: the usage capture   *)
(* holds the last bytes, the log the first, and the log knows whether that *)
(* was all (gateway.go tailBuffer.Write, logging.go:75-99).                *)
(***************************************************************************)
THEOREM BuffersHoldTheirEnds == Spec => []BuffersKeepTheirEnds
PROOF
  <1>1. StreamInv => BuffersKeepTheirEnds
    <2> SUFFICES ASSUME StreamInv, pc = "stream" PROVE BuffersKeepTheirEnds
      BY DEF BuffersKeepTheirEnds
    <2> DEFINE s == Seen(stream)
               l == stream.limit
    <2>1. Streaming(stream)
      BY DEF StreamInv
    <2>2. l \in Nat \ {0} /\ s \in Seq(Nat)
      <3> DEFINE B == Bytes(stream.objects)
      <3>1. B \in Seq(Nat) /\ stream.at \in Nat /\ stream.at <= Len(B) /\ l \in Nat \ {0}
        BY <2>1, BytesSequence, AnswersAssumption DEF Streaming
      <3> HIDE DEF B
      <3>2. SubSeq(B, 0 + 1, stream.at) \in Seq(Nat)
        <4>1. 0 \in Nat /\ 0 <= stream.at
          BY <3>1
        <4> QED
          BY <3>1, <4>1, Cut
      <3> QED
        BY <3>1, <3>2 DEF Seen, B
    <2>3. stream.buf = Suffix(s, TailLimit) /\ stream.log = Logged(s, l)
      BY <2>1 DEF Streaming
    <2> HIDE DEF s, l
    <2>4. stream.log.data = Prefix(s, l) /\ (stream.log.truncated <=> Len(s) > l)
      <3>1. stream.log = [data |-> Prefix(s, l), truncated |-> Len(s) > l]
        BY <2>3 DEF Logged
      <3>2. stream.log.data = Prefix(s, l)
        BY <3>1
      <3> DEFINE g == Len(s) > l
      <3>3. stream.log = [data |-> Prefix(s, l), truncated |-> g]
        BY <3>1
      <3> HIDE DEF g
      <3>4. stream.log.truncated = g
        BY <3>3
      <3> QED
        BY <3>2, <3>4 DEF g
    <2>5. boundedLogBody(s, l) = Logged(s, l)
      <3>1. newLogBodyBuffer = Logged(<< >>, l)
        <4>1. Prefix(<< >>, l) = << >> /\ (Len(<< >>) > l) = FALSE
          BY <2>2 DEF Prefix
        <4> QED
          BY <4>1, Zenon DEF Logged, newLogBodyBuffer
      <3>2. CASE s = << >>
        <4>1. logWrite(newLogBodyBuffer, << >>, l) = newLogBodyBuffer
          <5>1. /\ ~(l - Len(<< >>) <= 0) /\ Prefix(<< >>, l - Len(<< >>)) = << >>
                /\ << >> \o << >> = << >> /\ (Len(<< >>) > l - Len(<< >>)) = FALSE
            BY <2>2 DEF Prefix
          <5>2. newLogBodyBuffer.data = << >> /\ newLogBodyBuffer.truncated = FALSE
            BY Zenon DEF newLogBodyBuffer
          <5>3. logWrite(newLogBodyBuffer, << >>, l) =
                  [data |-> << >> \o Prefix(<< >>, l - Len(<< >>)),
                   truncated |-> FALSE \/ Len(<< >>) > l - Len(<< >>)]
            BY <5>1, <5>2, Zenon DEF logWrite
          <5>4. (FALSE \/ Len(<< >>) > l - Len(<< >>)) = FALSE
            BY <5>1
          <5> QED
            BY <5>1, <5>3, <5>4, Zenon DEF newLogBodyBuffer
        <4> QED
          BY <3>1, <3>2, <4>1 DEF boundedLogBody
      <3>3. CASE s # << >>
        <4>1. << >> \in Seq(Nat) /\ << >> \o s = s
          BY <2>2, ConcatEmptySeq
        <4> QED
          BY <2>2, <3>1, <3>3, <4>1, PrefixStep DEF boundedLogBody
      <3> QED
        BY <3>2, <3>3
    <2> QED
      BY <2>3, <2>4, <2>5 DEF BuffersKeepTheirEnds, s, l, Seen
  <1> QED
    BY <1>1, StreamAlways, PTL
-----------------------------------------------------------------------------
(* What the tail holds of an object: buf lacks the first d bytes of s. *)
LEMMA PositionsInTail ==
  ASSUME NEW s \in Seq(Nat), NEW d \in 0 .. Len(s), NEW buf \in Seq(Nat), Beyond(buf, s, d),
         NEW i, IsFiniteSet(Positions(s, i))
  PROVE  /\ IsFiniteSet(Positions(buf, i))
         /\ Cardinality(Positions(buf, i)) <= Cardinality(Positions(s, i))
         /\ (\A k \in Positions(s, i) : k > d)
              => Cardinality(Positions(buf, i)) = Cardinality(Positions(s, i))
PROOF
  <1> DEFINE P == Positions(buf, i)
             Q == Positions(s, i)
             f == [k \in P |-> k + d]
  <1>1. /\ DOMAIN s = 1 .. Len(s) /\ Len(s) \in Nat /\ Len(buf) = Len(s) - d
        /\ DOMAIN buf = 1 .. Len(buf) /\ d \in Nat
    BY DEF Beyond
  <1>2. ASSUME NEW k \in P PROVE k \in Nat /\ k + d \in Q
    <2>1. k \in 1 .. Len(buf) /\ buf[k] = i
      BY <1>1 DEF Positions
    <2>2. buf[k] = s[k + d] /\ k + d \in 1 .. Len(s)
      BY <1>1, <2>1 DEF Beyond
    <2> QED
      BY <1>1, <2>1, <2>2 DEF Positions
  <1>3. f \in Injection(P, Q)
    <2>1. f \in [P -> Q]
      BY <1>2
    <2>2. \A a, b \in P : f[a] = f[b] => a = b
      BY <1>1, <1>2
    <2> HIDE DEF f, P, Q
    <2> QED
      BY <2>1, <2>2 DEF Injection, IsInjective
  <1>4. ASSUME \A k \in Q : k > d PROVE f \in Surjection(P, Q)
    <2>1. ASSUME NEW q \in Q PROVE \E k \in P : f[k] = q
      <3>1. q \in 1 .. Len(s) /\ s[q] = i /\ q > d
        BY <1>1, <1>4 DEF Positions
      <3> DEFINE k == q - d
      <3>2. k \in 1 .. Len(buf) /\ k + d = q
        BY <1>1, <3>1
      <3>3. buf[k] = i
        BY <3>1, <3>2 DEF Beyond
      <3>4. k \in P
        BY <1>1, <3>2, <3>3 DEF Positions
      <3> HIDE DEF k, P
      <3> QED
        BY <3>2, <3>4
    <2>2. f \in [P -> Q]
      BY <1>2
    <2> HIDE DEF f, P, Q
    <2> QED
      BY <2>1, <2>2 DEF Surjection
  <1> HIDE DEF f, P, Q
  <1>5. IsFiniteSet(Q)
    BY DEF Q
  <1>6. /\ IsFiniteSet(P) /\ Cardinality(P) <= Cardinality(Q)
        /\ Cardinality(P) = Cardinality(Q) <=> f \in Surjection(P, Q)
    BY <1>3, <1>5, FS_Injection
  <1> QED
    BY <1>4, <1>6 DEF P, Q

(* An object that is whole in the tail is whole, and so are in the tail all *)
(* whole objects after it.                                                  *)
LEMMA TailIsClosed ==
  ASSUME NEW objects \in Answers, NEW at \in 0 .. Len(Bytes(objects)),
         NEW s, s = SubSeq(Bytes(objects), 1, at), NEW i \in DOMAIN objects
  PROVE  LET buf == Suffix(s, TailLimit) IN
         /\ Whole(buf, objects, i) => Whole(s, objects, i)
         /\ \A k \in DOMAIN objects :
              Whole(buf, objects, k) /\ k < i /\ Whole(s, objects, i) => Whole(buf, objects, i)
PROOF
  <1> DEFINE B == Bytes(objects)
             n == Len(objects)
             buf == Suffix(s, TailLimit)
             d == Excess(Len(s), TailLimit)
  <1>1. /\ B \in Seq(Nat) /\ Len(B) \in Nat /\ at \in Nat /\ at <= Len(B) /\ TailLimit \in Nat
        /\ n \in Nat /\ DOMAIN objects = 1 .. n /\ i \in 1 .. n
        /\ \A k \in 1 .. n : objects[k].size \in Nat \ {0}
    <2>1. B \in Seq(Nat) /\ Len(B) \in Nat
      BY BytesSequence
    <2>2. /\ n \in Nat /\ DOMAIN objects = 1 .. n
          /\ \A k \in 1 .. n : objects[k].size \in Nat \ {0}
      BY AnswersAssumption
    <2>3. TailLimit \in Nat
      BY AnswersAssumption
    <2> HIDE DEF B, n
    <2> QED
      BY <2>1, <2>2, <2>3 DEF B
  <1>2. Orderly(B, n, objects)
    BY BytesOrderly
  <1> HIDE DEF B, n
  <1>3. s \in Seq(Nat) /\ Len(s) = at /\ \A k \in 1 .. at : s[k] = B[k]
    <2>1. 0 \in Nat /\ 0 <= at /\ 0 + 1 = 1 /\ at - 0 = at /\ s = SubSeq(B, 0 + 1, at)
      BY <1>1 DEF B
    <2>2. /\ SubSeq(B, 0 + 1, at) \in Seq(Nat) /\ Len(SubSeq(B, 0 + 1, at)) = at - 0
          /\ \A k \in 1 .. at - 0 : SubSeq(B, 0 + 1, at)[k] = B[k + 0]
      BY <1>1, <2>1, Cut
    <2>3. \A k \in 1 .. at : k + 0 = k
      BY <1>1
    <2> QED
      BY <2>1, <2>2, <2>3
  <1>4. buf \in Seq(Nat) /\ Beyond(buf, s, d) /\ d \in 0 .. Len(s)
    <2>1. TailLimit \in Nat /\ s \in Seq(Nat) /\ Len(s) \in Nat
      BY <1>1, <1>3
    <2>2. buf \in Seq(Nat) /\ Beyond(buf, s, d)
      BY <2>1, SuffixIs
    <2>3. d \in 0 .. Len(s)
      BY <2>1 DEF Excess
    <2> QED
      BY <2>2, <2>3
  <1> HIDE DEF buf, d
  <1>5. ASSUME NEW k \in 1 .. n
        PROVE  /\ IsFiniteSet(Positions(s, k)) /\ Cardinality(Positions(s, k)) <= objects[k].size
               /\ Positions(s, k) \subseteq {j \in 1 .. Len(s) : B[j] = k}
    <2>1. Positions(s, k) = {j \in Positions(B, k) : j <= at}
      <3>1. DOMAIN s = 1 .. at /\ DOMAIN B = 1 .. Len(B)
        BY <1>1, <1>3
      <3>2. ASSUME NEW j PROVE j \in 1 .. at <=> j \in 1 .. Len(B) /\ j <= at
        BY <1>1
      <3> QED
        BY <1>3, <3>1, <3>2 DEF Positions
    <2>2. IsFiniteSet(Positions(B, k)) /\ Cardinality(Positions(B, k)) = objects[k].size
      BY <1>2 DEF Orderly
    <2>3. Positions(s, k) \subseteq Positions(B, k)
      BY <2>1
    <2>4. IsFiniteSet(Positions(s, k))
          /\ Cardinality(Positions(s, k)) <= Cardinality(Positions(B, k))
      BY <2>2, <2>3, FS_Subset
    <2>5. DOMAIN s = 1 .. Len(s) /\ Len(s) = at
      BY <1>3
    <2>6. Positions(s, k) \subseteq {j \in 1 .. Len(s) : B[j] = k}
      BY <1>3, <2>5 DEF Positions
    <2> QED
      BY <2>2, <2>4, <2>6
  <1>6. ASSUME NEW k \in 1 .. n
        PROVE  /\ IsFiniteSet(Positions(buf, k))
               /\ Cardinality(Positions(buf, k)) <= Cardinality(Positions(s, k))
               /\ (\A j \in Positions(s, k) : j > d)
                    => Cardinality(Positions(buf, k)) = Cardinality(Positions(s, k))
    <2>1. IsFiniteSet(Positions(s, k))
      BY <1>5
    <2>2. s \in Seq(Nat)
      BY <1>3
    <2> QED
      BY <1>4, <2>1, <2>2, PositionsInTail, Zenon
  <1>7. \A t : \A k : Whole(t, objects, k) <=> Cardinality(Positions(t, k)) = objects[k].size
    BY DEF Whole, Positions
  <1>8. ASSUME Whole(buf, objects, i) PROVE Whole(s, objects, i)
    <2>1. /\ Cardinality(Positions(s, i)) \in Nat /\ objects[i].size \in Nat
          /\ Cardinality(Positions(buf, i)) = objects[i].size
      BY <1>1, <1>5, <1>7, <1>8, FS_CardinalityType
    <2>2. Cardinality(Positions(s, i)) = objects[i].size
      BY <1>1, <1>5, <1>6, <2>1
    <2> QED
      BY <1>7, <2>2
  <1>9. ASSUME NEW k \in 1 .. n, Whole(buf, objects, k), k < i, Whole(s, objects, i)
        PROVE  Whole(buf, objects, i)
    <2>1. Cardinality(Positions(buf, k)) # 0
      BY <1>1, <1>7, <1>9
    <2>2. PICK x : x \in Positions(buf, k)
      BY <1>6, <2>1, FS_EmptySet
    <2>3. x \in 1 .. Len(buf) /\ buf[x] = k
      BY <1>4, <2>2 DEF Positions
    <2> DEFINE y == x + d
    <2>4. y \in 1 .. Len(s) /\ buf[x] = s[y] /\ y > d
      BY <1>3, <1>4, <2>3 DEF Beyond
    <2> HIDE DEF y
    <2>5. B[y] = k /\ y \in 1 .. Len(B)
      BY <1>1, <1>3, <2>3, <2>4
    <2>6. ASSUME NEW j \in Positions(s, i) PROVE j > d
      <3>1. j \in 1 .. Len(s) /\ B[j] = i /\ j \in 1 .. Len(B)
        BY <1>1, <1>3, <1>5
      <3>2. ~(B[j] <= B[y])
        BY <1>1, <1>9, <2>5, <3>1
      <3>3. ~(j <= y)
        BY <1>2, <2>5, <3>1, <3>2 DEF Orderly
      <3> QED
        BY <1>4, <2>4, <3>1, <3>3
    <2>7. Cardinality(Positions(buf, i)) = Cardinality(Positions(s, i))
      BY <1>1, <1>6, <2>6
    <2> QED
      BY <1>7, <1>9, <2>7
  <1> QED
    BY <1>1, <1>8, <1>9 DEF buf
-----------------------------------------------------------------------------
(* Which object of those in I a counter is taken from. *)
Naming(objects, I, c) == {i \in I : c \in DOMAIN objects[i].usage}
Named(objects, I) == UNION {DOMAIN objects[i].usage : i \in I}
Latest(S) == CHOOSE i \in S : \A j \in S : j <= i

LEMMA LastNamedIs ==
  ASSUME NEW objects, NEW I
  PROVE  LastNamed(objects, I) =
           [c \in Named(objects, I) |-> objects[Latest(Naming(objects, I, c))].usage[c]]
PROOF
  BY DEF LastNamed, Named, Naming, Latest

LEMMA LatestIs ==
  ASSUME NEW S, S \subseteq Nat, NEW x \in S, \A j \in S : j <= x
  PROVE  Latest(S) = x
PROOF
  <1>1. Latest(S) \in S /\ \A j \in S : j <= Latest(S)
    BY DEF Latest
  <1> HIDE DEF Latest
  <1>2. Latest(S) \in Nat /\ x \in Nat /\ Latest(S) <= x /\ x <= Latest(S)
    BY <1>1
  <1> QED
    BY <1>2

LEMMA LatestExists ==
  ASSUME NEW n \in Nat, NEW S, S \subseteq 1 .. n, S # {}
  PROVE  \E x \in S : \A j \in S : j <= x
PROOF
  <1> DEFINE T == {m \in Nat : \A R \in SUBSET (1 .. m) :
                                 R # {} => \E x \in R : \A j \in R : j <= x}
  <1>1. 0 \in T
    <2>1. 1 .. 0 = {}
      OBVIOUS
    <2> QED
      BY <2>1
  <1>2. ASSUME NEW m \in T PROVE m + 1 \in T
    <2> SUFFICES ASSUME NEW R \in SUBSET (1 .. m + 1), R # {}
                 PROVE  \E x \in R : \A j \in R : j <= x
      OBVIOUS
    <2>1. CASE m + 1 \in R
      BY <2>1
    <2>2. CASE m + 1 \notin R
      <3>1. R \in SUBSET (1 .. m)
        BY <2>2
      <3> QED
        BY <3>1
    <2> QED
      BY <2>1, <2>2
  <1>3. T = Nat
    <2>1. T \subseteq Nat
      OBVIOUS
    <2> HIDE DEF T
    <2> QED
      BY <1>1, <1>2, <2>1, SetInduction
  <1> QED
    BY <1>3

(* An object laid over those before it. *)
LEMMA OverlayLast ==
  ASSUME NEW objects, NEW I, I \subseteq Nat, NEW x \in Nat, \A i \in I : i < x
  PROVE  overlay(LastNamed(objects, I), objects[x].usage) = LastNamed(objects, I \cup {x})
PROOF
  <1> DEFINE J == I \cup {x}
             u == objects[x].usage
             old(c) == objects[Latest(Naming(objects, I, c))].usage[c]
             new(c) == objects[Latest(Naming(objects, J, c))].usage[c]
             f == LastNamed(objects, I)
  <1>1. f = [c \in Named(objects, I) |-> old(c)]
    BY LastNamedIs
  <1>2. LastNamed(objects, J) = [c \in Named(objects, J) |-> new(c)]
    BY LastNamedIs
  <1>3. Named(objects, J) = Named(objects, I) \cup DOMAIN u
    BY DEF Named
  <1>4. ASSUME NEW c \in DOMAIN u PROVE new(c) = u[c]
    <2>1. /\ Naming(objects, J, c) \subseteq Nat /\ x \in Naming(objects, J, c)
          /\ \A j \in Naming(objects, J, c) : j <= x
      <3>1. J \subseteq Nat /\ x \in J /\ \A j \in J : j <= x
        OBVIOUS
      <3> HIDE DEF J
      <3> QED
        BY <3>1 DEF Naming
    <2>2. Latest(Naming(objects, J, c)) = x
      BY <2>1, LatestIs
    <2> QED
      BY <2>2
  <1>5. ASSUME NEW c, c \notin DOMAIN u PROVE new(c) = old(c)
    <2>1. Naming(objects, J, c) = Naming(objects, I, c)
      BY <1>5 DEF Naming
    <2> QED
      BY <2>1
  <1> HIDE DEF old, new, u, f, J
  <1>6. overlay(f, u) = [c \in Named(objects, I) \cup DOMAIN u |->
                           IF c \in DOMAIN u THEN u[c] ELSE f[c]]
    BY <1>1 DEF overlay
  <1>7. overlay(f, u) = LastNamed(objects, J)
    BY <1>1, <1>2, <1>3, <1>4, <1>5, <1>6
  <1> QED
    BY <1>7 DEF f, u, J

(* The loop of extractUsage as an equation. *)
Best(f, n, buf, objects) ==
  f = [i \in 0 .. n |->
         IF i = 0 THEN None
         ELSE IF Whole(buf, objects, i) THEN overlay(f[i - 1], objects[i].usage) ELSE f[i - 1]]

LEMMA BestValue ==
  ASSUME NEW buf, NEW objects, NEW n, NEW f, Best(f, n, buf, objects), NEW i \in 0 .. n
  PROVE  f[i] = IF i = 0 THEN None
                ELSE IF Whole(buf, objects, i) THEN overlay(f[i - 1], objects[i].usage)
                     ELSE f[i - 1]
PROOF
  <1> DEFINE e(x) == IF x = 0 THEN None
                     ELSE IF Whole(buf, objects, x) THEN overlay(f[x - 1], objects[x].usage)
                          ELSE f[x - 1]
  <1>1. f = [x \in 0 .. n |-> e(x)]
    BY DEF Best
  <1> HIDE DEF e
  <1>2. f[i] = e(i)
    BY <1>1
  <1> QED
    BY <1>2 DEF e

LEMMA BestExists ==
  ASSUME NEW buf, NEW objects, NEW n \in Nat
  PROVE  \E f : Best(f, n, buf, objects)
PROOF
  <1> DEFINE T == {m \in Nat : \E f : Best(f, m, buf, objects)}
  <1>1. 0 \in T
    <2>1. Best([i \in 0 .. 0 |-> None], 0, buf, objects)
      BY DEF Best
    <2> QED
      BY <2>1
  <1>2. ASSUME NEW m \in T PROVE m + 1 \in T
    <2>1. PICK f : Best(f, m, buf, objects)
      OBVIOUS
    <2> DEFINE g == [i \in 0 .. m + 1 |->
                       IF i <= m THEN f[i]
                       ELSE IF Whole(buf, objects, i) THEN overlay(f[i - 1], objects[i].usage)
                            ELSE f[i - 1]]
               e(i) == IF i = 0 THEN None
                       ELSE IF Whole(buf, objects, i) THEN overlay(g[i - 1], objects[i].usage)
                            ELSE g[i - 1]
    <2>2. ASSUME NEW i \in 0 .. m + 1 PROVE g[i] = e(i)
      <3>1. CASE i = m + 1
        <4>1. g[i - 1] = f[i - 1] /\ i # 0 /\ ~(i <= m)
          BY <3>1
        <4>2. g[i] = IF Whole(buf, objects, i) THEN overlay(f[i - 1], objects[i].usage)
                     ELSE f[i - 1]
          BY <4>1
        <4> HIDE DEF g
        <4> QED
          BY <4>1, <4>2
      <3>2. CASE i <= m
        <4>1. i \in 0 .. m /\ g[i] = f[i] /\ (i # 0 => g[i - 1] = f[i - 1])
          BY <3>2
        <4>2. f[i] = IF i = 0 THEN None
                     ELSE IF Whole(buf, objects, i) THEN overlay(f[i - 1], objects[i].usage)
                          ELSE f[i - 1]
          BY <2>1, <4>1, BestValue
        <4> HIDE DEF g
        <4> QED
          BY <4>1, <4>2
      <3> QED
        BY <3>1, <3>2
    <2>3. g = [i \in 0 .. m + 1 |-> g[i]]
      OBVIOUS
    <2>4. g = [i \in 0 .. m + 1 |-> e(i)]
      <3> HIDE DEF g, e
      <3> QED
        BY <2>2, <2>3
    <2>5. Best(g, m + 1, buf, objects)
      <3> HIDE DEF g
      <3> QED
        BY <2>4 DEF Best
    <2> QED
      BY <2>5
  <1>3. T = Nat
    <2>1. T \subseteq Nat
      OBVIOUS
    <2> HIDE DEF T
    <2> QED
      BY <1>1, <1>2, <2>1, SetInduction
  <1> QED
    BY <1>3

(* extractUsage takes every counter from the last whole object naming it. *)
LEMMA ExtractsLast ==
  ASSUME NEW buf, NEW objects, Len(objects) \in Nat
  PROVE  extractUsage(buf, objects) =
           LastNamed(objects, {i \in 1 .. Len(objects) : Whole(buf, objects, i)})
PROOF
  <1> DEFINE n == Len(objects)
             f == CHOOSE g : Best(g, n, buf, objects)
             K(m) == {i \in 1 .. m : Whole(buf, objects, i)}
             T == {m \in Nat : m <= n => f[m] = LastNamed(objects, K(m))}
  <1>1. extractUsage(buf, objects) = f[n]
    BY DEF extractUsage, Best
  <1>2. Best(f, n, buf, objects)
    BY BestExists
  <1> HIDE DEF f, n
  <1>3. n \in Nat
    BY DEF n
  <1>4. \A i \in 0 .. n :
          f[i] = IF i = 0 THEN None
                 ELSE IF Whole(buf, objects, i) THEN overlay(f[i - 1], objects[i].usage)
                      ELSE f[i - 1]
    BY <1>2, BestValue
  <1>5. 0 \in T
    <2>1. f[0] = None
      BY <1>3, <1>4
    <2>2. K(0) = {}
      OBVIOUS
    <2>3. LastNamed(objects, {}) = None
      <3>1. Named(objects, {}) = {}
        BY DEF Named
      <3> QED
        BY <3>1, LastNamedIs DEF None
    <2> HIDE DEF K
    <2> QED
      BY <2>1, <2>2, <2>3
  <1>6. ASSUME NEW m \in T PROVE m + 1 \in T
    <2> SUFFICES ASSUME m + 1 <= n PROVE f[m + 1] = LastNamed(objects, K(m + 1))
      OBVIOUS
    <2> DEFINE x == m + 1
    <2>1. x \in 0 .. n /\ x # 0 /\ x - 1 = m /\ x \in Nat
      BY <1>3
    <2>2. f[m] = LastNamed(objects, K(m))
      BY <1>3
    <2>3. K(m) \subseteq Nat /\ \A i \in K(m) : i < x
      OBVIOUS
    <2>4. K(x) = IF Whole(buf, objects, x) THEN K(m) \cup {x} ELSE K(m)
      <3>1. 1 .. x = (1 .. m) \cup {x}
        OBVIOUS
      <3> HIDE DEF x
      <3> QED
        BY <3>1
    <2> HIDE DEF x, K, T
    <2>5. f[x] = IF Whole(buf, objects, x) THEN overlay(f[m], objects[x].usage) ELSE f[m]
      BY <1>4, <2>1
    <2>6. overlay(LastNamed(objects, K(m)), objects[x].usage) =
            LastNamed(objects, K(m) \cup {x})
      BY <2>1, <2>3, OverlayLast
    <2>7. f[x] = LastNamed(objects, K(x))
      BY <2>2, <2>4, <2>5, <2>6
    <2> QED
      BY <2>7 DEF x
  <1>7. T = Nat
    <2>1. T \subseteq Nat
      OBVIOUS
    <2> HIDE DEF T
    <2> QED
      BY <1>5, <1>6, <2>1, SetInduction
  <1>8. f[n] = LastNamed(objects, K(n))
    BY <1>3, <1>7
  <1> QED
    BY <1>1, <1>8 DEF n

(* Objects cut off before one that names every counter do not matter. *)
LEMMA EarlierDoNotMatter ==
  ASSUME NEW objects, NEW n \in Nat, NEW there, there \subseteq 1 .. n,
         NEW kept, kept \subseteq there, NEW k \in kept,
         Named(objects, there) \subseteq DOMAIN objects[k].usage,
         \A i \in there : k < i => i \in kept
  PROVE  LastNamed(objects, kept) = LastNamed(objects, there)
PROOF
  <1>1. Named(objects, kept) = Named(objects, there)
    <2>1. Named(objects, kept) \subseteq Named(objects, there)
      BY DEF Named
    <2>2. DOMAIN objects[k].usage \subseteq Named(objects, kept)
      BY DEF Named
    <2> QED
      BY <2>1, <2>2
  <1>2. ASSUME NEW c \in Named(objects, there)
        PROVE  Latest(Naming(objects, kept, c)) = Latest(Naming(objects, there, c))
    <2> DEFINE S == Naming(objects, there, c)
               R == Naming(objects, kept, c)
    <2>1. k \in R /\ R \subseteq S /\ S \subseteq 1 .. n
      BY DEF Naming
    <2>2. PICK x \in S : \A j \in S : j <= x
      BY <2>1, LatestExists
    <2>3. x \in there /\ c \in DOMAIN objects[x].usage /\ k <= x /\ k \in Nat /\ x \in Nat
      BY <2>1, <2>2 DEF Naming
    <2>4. x \in kept
      BY <2>3
    <2>5. x \in R
      BY <2>3, <2>4 DEF Naming
    <2> HIDE DEF S, R
    <2>6. S \subseteq Nat /\ R \subseteq Nat
      BY <2>1
    <2>7. Latest(S) = x
      BY <2>2, <2>6, LatestIs
    <2>8. Latest(R) = x
      BY <2>1, <2>2, <2>5, <2>6, LatestIs
    <2> QED
      BY <2>7, <2>8 DEF S, R
  <1> QED
    BY <1>1, <1>2, LastNamedIs

(***************************************************************************)
(* For any response, any way of cutting it and any size of the capture,    *)
(* and wherever the stream ends: what was dropped from the tail changes no *)
(* token count as long as one object left in it names all counters         *)
(* (usage.go extractUsage, gateway.go tailBuffer).                         *)
(***************************************************************************)
THEOREM UsageSurvivesCutting == Spec => []UsageSurvives
PROOF
  <1>1. StreamInv => UsageSurvives
    <2> SUFFICES ASSUME StreamInv, pc = "recorded" PROVE UsageSurvives
      BY DEF UsageSurvives
    <2> DEFINE objects == stream.objects
               s == SubSeq(Bytes(objects), 1, stream.at)
               buf == stream.buf
               there == {i \in DOMAIN objects : Whole(s, objects, i)}
               kept == {i \in there : Whole(buf, objects, i)}
               all == LastNamed(objects, there)
    <2>1. objects \in Answers /\ stream.at \in 0 .. Len(Bytes(objects))
          /\ buf = Suffix(s, TailLimit)
      BY DEF StreamInv, Streaming, Seen
    <2>2. Len(objects) \in Nat /\ DOMAIN objects = 1 .. Len(objects)
      BY <2>1, AnswersAssumption
    <2>3. ASSUME NEW i \in DOMAIN objects
          PROVE  /\ Whole(buf, objects, i) => Whole(s, objects, i)
                 /\ \A k \in DOMAIN objects :
                      Whole(buf, objects, k) /\ k < i /\ Whole(s, objects, i)
                        => Whole(buf, objects, i)
      <3> DEFINE at == stream.at
      <3>1. s = SubSeq(Bytes(objects), 1, at) /\ at \in 0 .. Len(Bytes(objects))
        BY <2>1
      <3> HIDE DEF objects, s, at, buf
      <3>2. LET b == Suffix(s, TailLimit) IN
            /\ Whole(b, objects, i) => Whole(s, objects, i)
            /\ \A k \in DOMAIN objects :
                 Whole(b, objects, k) /\ k < i /\ Whole(s, objects, i) => Whole(b, objects, i)
        BY <2>1, <3>1, TailIsClosed
      <3> QED
        BY <2>1, <3>2
    <2>4. DOMAIN all = Named(objects, there)
      <3> HIDE DEF there, objects
      <3> QED
        BY LastNamedIs
    <2> HIDE DEF objects, s, buf
    <2>5. kept = {i \in 1 .. Len(objects) : Whole(buf, objects, i)}
      BY <2>2, <2>3
    <2>6. extractUsage(buf, objects) = LastNamed(objects, kept)
      BY <2>2, <2>5, ExtractsLast
    <2>7. ASSUME NEW k \in kept, DOMAIN all \subseteq DOMAIN objects[k].usage
          PROVE  LastNamed(objects, kept) = LastNamed(objects, there)
      <3>1. there \subseteq 1 .. Len(objects) /\ kept \subseteq there
        BY <2>2
      <3>2. \A i \in there : k < i => i \in kept
        BY <2>3
      <3>3. Named(objects, there) \subseteq DOMAIN objects[k].usage
        BY <2>4, <2>7
      <3> HIDE DEF there, kept, all
      <3> QED
        BY <2>2, <3>1, <3>2, <3>3, EarlierDoNotMatter
    <2>8. (\E k \in kept : DOMAIN all \subseteq DOMAIN objects[k].usage)
            => extractUsage(buf, objects) = all
      <3> HIDE DEF there, kept
      <3> QED
        BY <2>6, <2>7
    <2> QED
      BY <2>8 DEF UsageSurvives, objects, s, buf
  <1> QED
    BY <1>1, StreamAlways, PTL
-----------------------------------------------------------------------------
(* Kept as an equation. *)
Keeping(w, n, s, S) ==
  w = [i \in 0 .. n |->
         IF i = 0 THEN << >>
         ELSE IF s[i] \in S THEN Append(w[i - 1], s[i]) ELSE w[i - 1]]

LEMMA KeepingValue ==
  ASSUME NEW s, NEW S, NEW n, NEW w, Keeping(w, n, s, S), NEW i \in 0 .. n
  PROVE  w[i] = IF i = 0 THEN << >>
                ELSE IF s[i] \in S THEN Append(w[i - 1], s[i]) ELSE w[i - 1]
PROOF
  <1> DEFINE e(x) == IF x = 0 THEN << >>
                     ELSE IF s[x] \in S THEN Append(w[x - 1], s[x]) ELSE w[x - 1]
  <1>1. w = [x \in 0 .. n |-> e(x)]
    BY DEF Keeping
  <1> HIDE DEF e
  <1>2. w[i] = e(i)
    BY <1>1
  <1> QED
    BY <1>2 DEF e

LEMMA KeepingExists ==
  ASSUME NEW s, NEW S, NEW n \in Nat
  PROVE  \E w : Keeping(w, n, s, S)
PROOF
  <1> DEFINE T == {m \in Nat : \E w : Keeping(w, m, s, S)}
  <1>1. 0 \in T
    <2>1. Keeping([i \in 0 .. 0 |-> << >>], 0, s, S)
      BY DEF Keeping
    <2> QED
      BY <2>1
  <1>2. ASSUME NEW m \in T PROVE m + 1 \in T
    <2>1. PICK w : Keeping(w, m, s, S)
      OBVIOUS
    <2> DEFINE v == [i \in 0 .. m + 1 |->
                       IF i <= m THEN w[i]
                       ELSE IF s[i] \in S THEN Append(w[i - 1], s[i]) ELSE w[i - 1]]
               e(i) == IF i = 0 THEN << >>
                       ELSE IF s[i] \in S THEN Append(v[i - 1], s[i]) ELSE v[i - 1]
    <2>2. ASSUME NEW i \in 0 .. m + 1 PROVE v[i] = e(i)
      <3>1. CASE i = m + 1
        BY <3>1
      <3>2. CASE i # m + 1
        <4>1. i \in 0 .. m /\ v[i] = w[i] /\ (i # 0 => v[i - 1] = w[i - 1])
          BY <3>2
        <4>2. w[i] = IF i = 0 THEN << >>
                     ELSE IF s[i] \in S THEN Append(w[i - 1], s[i]) ELSE w[i - 1]
          BY <2>1, <4>1, KeepingValue
        <4> QED
          BY <4>1, <4>2
      <3> QED
        BY <3>1, <3>2
    <2>3. v = [i \in 0 .. m + 1 |-> e(i)]
      <3> HIDE DEF e
      <3>1. DOMAIN v = 0 .. m + 1 /\ v = [i \in 0 .. m + 1 |-> v[i]]
        OBVIOUS
      <3> QED
        BY <2>2, <3>1
    <2>4. Keeping(v, m + 1, s, S)
      <3> HIDE DEF v
      <3> QED
        BY <2>3 DEF Keeping
    <2> HIDE DEF v
    <2> QED
      BY <2>4
  <1>3. T \subseteq Nat
    OBVIOUS
  <1> HIDE DEF T
  <1>4. T = Nat
    BY <1>1, <1>2, <1>3, SetInduction
  <1> QED
    BY <1>4 DEF T

LEMMA KeptIs ==
  ASSUME NEW s, NEW S, Len(s) \in Nat
  PROVE  \E w : Keeping(w, Len(s), s, S) /\ Kept(s, S) = w[Len(s)]
PROOF
  <1> DEFINE w == CHOOSE w : Keeping(w, Len(s), s, S)
  <1>1. Keeping(w, Len(s), s, S)
    BY KeepingExists
  <1>2. Kept(s, S) = w[Len(s)]
    BY DEF Kept, Keeping
  <1> HIDE DEF w
  <1> QED
    BY <1>1, <1>2

(* The middle is kept if it is in S and nothing around it is. *)
LEMMA KeptMiddle ==
  ASSUME NEW X, NEW S, NEW p \in Seq(X), NEW u \in Seq(X), NEW a \in Seq(X),
         \A i \in 1 .. Len(p) : p[i] \notin S,
         \A i \in 1 .. Len(u) : u[i] \in S,
         \A i \in 1 .. Len(a) : a[i] \notin S
  PROVE  Kept(p \o u \o a, S) = u
PROOF
  <1> DEFINE s == p \o u \o a
             b == Len(p)
             c == Len(u)
             d == Len(a)
             Upto(i) == IF i <= b THEN << >> ELSE IF i <= b + c THEN SubSeq(u, 1, i - b) ELSE u
  <1>1. b \in Nat /\ c \in Nat /\ d \in Nat
    OBVIOUS
  <1>2. Len(s) = b + c + d /\ Len(s) \in Nat
    OBVIOUS
  <1>3. ASSUME NEW i \in 1 .. b + c + d
        PROVE  s[i] = IF i <= b THEN p[i] ELSE IF i <= b + c THEN u[i - b] ELSE a[i - (b + c)]
    OBVIOUS
  <1>4. PICK w : Keeping(w, Len(s), s, S) /\ Kept(s, S) = w[Len(s)]
    <2> HIDE DEF s
    <2> QED
      BY <1>2, KeptIs
  <1> DEFINE T == {i \in Nat : i <= b + c + d => w[i] = Upto(i)}
  <1> HIDE DEF s
  <1>5. 0 \in T
    <2>1. 0 \in 0 .. Len(s)
      BY <1>2
    <2>2. w[0] = << >>
      BY <1>4, <2>1, KeepingValue
    <2> QED
      BY <1>1, <2>2
  <1>6. ASSUME NEW i \in T PROVE i + 1 \in T
    <2> SUFFICES ASSUME i + 1 <= b + c + d PROVE w[i + 1] = Upto(i + 1)
      OBVIOUS
    <2> DEFINE k == i + 1
    <2>1. k \in 1 .. b + c + d /\ k \in 0 .. Len(s) /\ k # 0 /\ k - 1 = i /\ i \in Nat
      BY <1>1, <1>2
    <2>2. w[i] = Upto(i)
      BY <1>1
    <2> HIDE DEF k
    <2>3. w[k] = IF s[k] \in S THEN Append(w[i], s[k]) ELSE w[i]
      BY <1>4, <2>1, KeepingValue
    <2>4. CASE k <= b
      <3>1. s[k] = p[k] /\ k \in 1 .. b
        BY <1>1, <1>3, <2>1, <2>4
      <3> QED
        BY <1>1, <2>1, <2>2, <2>3, <2>4, <3>1 DEF k
    <2>5. CASE b < k /\ k <= b + c
      <3>1. s[k] = u[k - b] /\ k - b \in 1 .. c
        BY <1>1, <1>3, <2>1, <2>5
      <3>2. w[k] = Append(Upto(i), u[k - b])
        BY <2>2, <2>3, <3>1
      <3> DEFINE n == k - b
      <3>3. n \in 1 .. c /\ (n = 1 <=> i <= b) /\ i - b = n - 1 /\ (n # 1 => i <= b + c)
        BY <1>1, <2>1, <2>5
      <3>4. Upto(k) = SubSeq(u, 1, n)
        BY <1>1, <2>1, <2>5
      <3>5. Upto(i) = IF n = 1 THEN << >> ELSE SubSeq(u, 1, n - 1)
        BY <3>3
      <3> HIDE DEF n
      <3>6. Append(IF n = 1 THEN << >> ELSE SubSeq(u, 1, n - 1), u[n]) = SubSeq(u, 1, n)
        BY <1>1, <3>3
      <3> QED
        BY <3>2, <3>4, <3>5, <3>6 DEF n, k
    <2>6. CASE b + c < k
      <3>1. s[k] = a[k - (b + c)] /\ k - (b + c) \in 1 .. d
        BY <1>1, <1>3, <2>1, <2>6
      <3>2. w[k] = Upto(i)
        BY <2>2, <2>3, <3>1
      <3>3. Upto(i) = u
        BY <1>1, <2>1, <2>6
      <3>4. Upto(k) = u
        BY <1>1, <2>1, <2>6
      <3> HIDE DEF Upto
      <3> QED
        BY <3>2, <3>3, <3>4 DEF k
    <2> QED
      BY <1>1, <2>1, <2>4, <2>5, <2>6
  <1>7. T \subseteq Nat
    OBVIOUS
  <1>8. T = Nat
    <2> HIDE DEF T
    <2> QED
      BY <1>5, <1>6, <1>7, SetInduction
  <1>9. w[b + c + d] = Upto(b + c + d)
    BY <1>1, <1>8
  <1>10. Upto(b + c + d) = u
    BY <1>1
  <1> QED
    BY <1>2, <1>4, <1>9, <1>10 DEF s
(* An element that is not kept may as well not be in front. *)
LEMMA KeptTail ==
  ASSUME NEW X, NEW s \in Seq(X), NEW x \in X, NEW S, NEW U, x \notin S,
         \A i \in 1 .. Len(s) : s[i] \in S <=> s[i] \in U
  PROVE  Kept(<<x>> \o s, S) = Kept(s, U)
PROOF
  <1> DEFINE t == <<x>> \o s
             n == Len(s)
  <1>1. n \in Nat /\ Len(t) = n + 1 /\ Len(t) \in Nat /\ t[1] = x
    OBVIOUS
  <1>2. \A i \in 1 .. n : t[i + 1] = s[i]
    OBVIOUS
  <1>3. PICK w : Keeping(w, n, s, U) /\ Kept(s, U) = w[n]
    BY <1>1, KeptIs
  <1> HIDE DEF t
  <1>4. PICK v : Keeping(v, Len(t), t, S) /\ Kept(t, S) = v[Len(t)]
    BY <1>1, KeptIs
  <1> DEFINE T == {i \in Nat : i <= n => v[i + 1] = w[i]}
  <1>5. 0 \in T
    <2>1. 0 \in 0 .. Len(t) /\ 1 \in 0 .. Len(t) /\ 0 \in 0 .. n
      BY <1>1
    <2>2. v[0] = << >> /\ w[0] = << >>
      BY <1>3, <1>4, <2>1, KeepingValue
    <2>3. v[1] = IF 1 = 0 THEN << >>
                 ELSE IF t[1] \in S THEN Append(v[1 - 1], t[1]) ELSE v[1 - 1]
      BY <1>4, <2>1, KeepingValue
    <2>4. v[1] = v[0]
      BY <1>1, <2>3
    <2> QED
      BY <2>2, <2>4
  <1>6. ASSUME NEW i \in T PROVE i + 1 \in T
    <2> SUFFICES ASSUME i + 1 <= n PROVE v[i + 1 + 1] = w[i + 1]
      OBVIOUS
    <2> DEFINE k == i + 1
               m == k + 1
    <2>1. /\ k \in 1 .. n /\ k \in 0 .. n /\ k # 0 /\ k - 1 = i
          /\ m \in 0 .. Len(t) /\ m # 0 /\ m - 1 = k
      <3>1. i \in Nat /\ i + 1 <= n /\ Len(t) = n + 1 /\ n \in Nat
        BY <1>1
      <3> QED
        BY <3>1
    <2>2. v[k] = w[i]
      BY <1>1
    <2> HIDE DEF m
    <2>3. t[m] = s[k]
      BY <1>2, <2>1 DEF m
    <2> HIDE DEF k
    <2>4. w[k] = IF s[k] \in U THEN Append(w[i], s[k]) ELSE w[i]
      BY <1>3, <2>1, KeepingValue
    <2>5. v[m] = IF t[m] \in S THEN Append(v[k], t[m]) ELSE v[k]
      BY <1>4, <2>1, KeepingValue
    <2>6. s[k] \in S <=> s[k] \in U
      BY <2>1
    <2>7. v[m] = w[k]
      BY <2>2, <2>3, <2>4, <2>5, <2>6
    <2> QED
      BY <2>7 DEF m, k
  <1>7. T \subseteq Nat
    OBVIOUS
  <1>8. T = Nat
    <2> HIDE DEF T
    <2> QED
      BY <1>5, <1>6, <1>7, SetInduction
  <1>9. v[n + 1] = w[n]
    BY <1>1, <1>8
  <1> QED
    BY <1>1, <1>3, <1>4, <1>9 DEF t

ClientMessage == [role: STRING, kind: STRING, text: Seq({"user"})]

LEMMA KeptText ==
  ASSUME NEW p \in Seq(STRING \ {"user"}), NEW u \in Seq({"user"}),
         NEW a \in Seq(STRING \ {"user"})
  PROVE  Kept(p \o u \o a, {"user"}) = u
PROOF
  <1> DEFINE others == STRING \ {"user"}
             X == others \cup {"user"}
  <1>1. p \in Seq(X) /\ u \in Seq(X) /\ a \in Seq(X)
    <2>1. others \subseteq X /\ {"user"} \subseteq X
      BY Zenon
    <2> HIDE DEF others, X
    <2> QED
      BY <2>1, SeqMonotonic DEF others
  <1>2. \A i \in 1 .. Len(p) : p[i] \notin {"user"}
    OBVIOUS
  <1>3. \A i \in 1 .. Len(u) : u[i] \in {"user"}
    OBVIOUS
  <1>4. \A i \in 1 .. Len(a) : a[i] \notin {"user"}
    OBVIOUS
  <1> DEFINE S == {"user"}
  <1> HIDE DEF X, others, S
  <1>5. Kept(p \o u \o a, S) = u
    BY <1>1, <1>2, <1>3, <1>4, KeptMiddle DEF S
  <1> QED
    BY <1>5 DEF S

LEMMA KeptClientText ==
  ASSUME NEW u \in Seq({"user"})
  PROVE  Kept(u, {"user"}) = u
PROOF
  <1> DEFINE none == << >>
  <1>1. none \in Seq(STRING \ {"user"}) /\ none \o u \o none = u
    OBVIOUS
  <1> HIDE DEF none
  <1>2. Kept(none \o u \o none, {"user"}) = u
    BY <1>1, KeptText
  <1> QED
    BY <1>1, <1>2

IsSystemText(m) == m.role = "system" /\ m.kind = "text"

(* The first system text, by what makes it the first. *)
FirstSystemText(s, i) ==
  /\ i \in DOMAIN s
  /\ IsSystemText(s[i])
  /\ \A k \in DOMAIN s : IsSystemText(s[k]) => i <= k

LEMMA SystemTextFound ==
  ASSUME NEW s, DOMAIN s \subseteq Nat, SystemText(s) # 0
  PROVE  FirstSystemText(s, SystemText(s))
PROOF
  <1> DEFINE found == {i \in DOMAIN s : s[i].role = "system" /\ s[i].kind = "text"}
             R == OpToRel(<, Nat)
  <1>1. SystemText(s) = CHOOSE i \in found : \A j \in found : i <= j
    BY DEF SystemText
  <1>2. found # {} /\ found \subseteq Nat
    BY DEF SystemText
  <1>3. \E i \in found : \A j \in found : i <= j
    <2>1. IsWellFoundedOn(R, Nat)
      BY NatLessThanWellFounded
    <2>2. \A x, y \in Nat : x < y => <<x, y>> \in R
      BY DEF OpToRel
    <2> HIDE DEF R, found
    <2>3. PICK i \in found : \A j \in found : ~(<<j, i>> \in R)
      BY <1>2, <2>1, WFMin
    <2>4. ASSUME NEW j \in found PROVE i <= j
      <3>1. i \in Nat /\ j \in Nat /\ ~(j < i)
        BY <1>2, <2>2, <2>3
      <3> QED
        BY <3>1
    <2> QED
      BY <2>4
  <1>4. SystemText(s) \in found /\ \A j \in found : SystemText(s) <= j
    <2> HIDE DEF found
    <2> QED
      BY <1>1, <1>3
  <1> QED
    BY <1>4 DEF FirstSystemText, IsSystemText

LEMMA SystemTextIs ==
  ASSUME NEW s, NEW i, DOMAIN s \subseteq Nat, FirstSystemText(s, i)
  PROVE  SystemText(s) = i
PROOF
  <1> DEFINE found == {k \in DOMAIN s : s[k].role = "system" /\ s[k].kind = "text"}
  <1>1. i \in found /\ found \subseteq Nat /\ \A k \in found : i <= k
    BY DEF FirstSystemText, IsSystemText
  <1>2. SystemText(s) = CHOOSE k \in found : \A j \in found : k <= j
    BY <1>1 DEF SystemText
  <1>3. \A k \in found : (\A j \in found : k <= j) => k = i
    BY <1>1
  <1> HIDE DEF found
  <1> QED
    BY <1>1, <1>2, <1>3

(* What Prepare makes of the messages. *)
LEMMA PreparedMessages ==
  ASSUME NEW j \in Jobs, j.endpoint # "/v1/responses"
  PROVE  LET in == j.payload.messages
             i == SystemText(in)
         IN  Prepared(j).messages =
               IF ~(j.prepend.given \/ j.append.given) THEN in
               ELSE IF i # 0
               THEN [in EXCEPT ![i].text = j.prepend.text \o in[i].text \o j.append.text]
               ELSE <<System(j.prepend.text \o << >> \o j.append.text)>> \o in
PROOF
  <1> DEFINE p == applySystemPrompt(j.payload, j.endpoint, j.prepend, j.append)
             in == j.payload.messages
             i == SystemText(in)
  <1>1. "messages" \in DOMAIN j.payload
    BY JobsAssumption
  <1>2. Prepared(j).messages = p.messages
    <2>1. Prepared(j) = [p EXCEPT !.fields = Merge(@, j.overrides)]
      BY DEF Prepared, applyRequestOverrides
    <2>2. "messages" \in DOMAIN p
      BY <1>1 DEF applySystemPrompt, withPrompt
    <2> HIDE DEF p
    <2> QED
      BY <2>1, <2>2
  <1>3. CASE ~(j.prepend.given \/ j.append.given)
    BY <1>2, <1>3 DEF applySystemPrompt
  <1>4. CASE (j.prepend.given \/ j.append.given) /\ i # 0
    BY <1>1, <1>2, <1>4 DEF applySystemPrompt, withPrompt, joinPrompt
  <1>5. CASE (j.prepend.given \/ j.append.given) /\ i = 0
    BY <1>1, <1>2, <1>5 DEF applySystemPrompt, withPrompt, joinPrompt
  <1> QED
    BY <1>3, <1>4, <1>5
(* x is a client's message m with the gateway's pieces around its text. *)
Around(x, m, p, a) ==
  /\ [x EXCEPT !.text = Kept(@, {"user"})] = [m EXCEPT !.text = Kept(@, {"user"})]
  /\ x.role = m.role /\ x.kind = m.kind
  /\ Kept(x.text, {"user"}) = m.text
  /\ x.text = p \o m.text \o a

LEMMA MessageWithoutPrompts ==
  ASSUME NEW m \in ClientMessage, NEW p \in Seq(STRING \ {"user"}),
         NEW a \in Seq(STRING \ {"user"}), NEW x,
         x = [m EXCEPT !.text = p \o m.text \o a]
  PROVE  Around(x, m, p, a)
PROOF
  <1>1. m.text \in Seq({"user"})
    BY DEF ClientMessage
  <1>2. x.text = p \o m.text \o a /\ x.role = m.role /\ x.kind = m.kind
    BY DEF ClientMessage
  <1>3. Kept(x.text, {"user"}) = m.text /\ Kept(m.text, {"user"}) = m.text
    BY <1>1, <1>2, KeptText, KeptClientText
  <1>4. [x EXCEPT !.text = m.text] = [m EXCEPT !.text = m.text]
    BY DEF ClientMessage
  <1> QED
    BY <1>2, <1>3, <1>4 DEF Around

LEMMA ClientText ==
  ASSUME NEW in \in Seq(ClientMessage), NEW k \in DOMAIN in
  PROVE  in[k] \in ClientMessage /\ Range(in[k].text) \subseteq {"user"}
PROOF
  <1>1. in[k] \in ClientMessage
    BY LenProperties
  <1>2. in[k].text \in Seq({"user"})
    BY <1>1 DEF ClientMessage
  <1> QED
    BY <1>1, <1>2, LenProperties DEF Range

(* The property, of messages before and after. *)
Placed(in, out, p, a, given) ==
  LET i == SystemText(out) IN
  /\ ByClient(out) = ByClient(in)
  /\ given => /\ i # 0
              /\ out[i].text = p \o Kept(out[i].text, {"user"}) \o a
              /\ \A k \in DOMAIN out \ {i} : Range(out[k].text) \subseteq {"user"}

(* The prompts are put around the first system text. *)
LEMMA PlacedAround ==
  ASSUME NEW in \in Seq(ClientMessage), NEW p \in Seq(STRING \ {"user"}),
         NEW a \in Seq(STRING \ {"user"}), NEW given, SystemText(in) # 0,
         NEW out, out = [in EXCEPT ![SystemText(in)].text = p \o in[SystemText(in)].text \o a]
  PROVE  Placed(in, out, p, a, given)
PROOF
  <1> DEFINE i == SystemText(in)
  <1>1. DOMAIN in = 1 .. Len(in) /\ Len(in) \in Nat /\ DOMAIN in \subseteq Nat
    BY LenProperties
  <1>2. FirstSystemText(in, i)
    BY <1>1, SystemTextFound
  <1>3. i \in DOMAIN in /\ i # 0
    BY <1>2 DEF FirstSystemText
  <1> HIDE DEF i
  <1>4. /\ DOMAIN out = DOMAIN in
        /\ out[i] = [in[i] EXCEPT !.text = p \o in[i].text \o a]
        /\ \A k \in DOMAIN in : k # i => out[k] = in[k]
    BY <1>3 DEF i
  <1>5. /\ [out[i] EXCEPT !.text = Kept(@, {"user"})] = [in[i] EXCEPT !.text = Kept(@, {"user"})]
        /\ out[i].role = in[i].role /\ out[i].kind = in[i].kind
        /\ Kept(out[i].text, {"user"}) = in[i].text
        /\ out[i].text = p \o in[i].text \o a
    <2>1. in[i] \in ClientMessage
      BY <1>3, ClientText
    <2> DEFINE m == in[i]
               x == out[i]
    <2>2. m \in ClientMessage /\ x = [m EXCEPT !.text = p \o m.text \o a]
      BY <1>4, <2>1
    <2> HIDE DEF m, x
    <2>3. Around(x, m, p, a)
      BY <2>2, MessageWithoutPrompts
    <2> QED
      BY <2>3 DEF Around, m, x
  <1>6. ASSUME NEW k \in DOMAIN in
        PROVE  [out[k] EXCEPT !.text = Kept(@, {"user"})] = [in[k] EXCEPT !.text = Kept(@, {"user"})]
    BY <1>4, <1>5
  <1>7. WithoutPrompts(out) = WithoutPrompts(in)
    BY <1>4, <1>6 DEF WithoutPrompts
  <1>8. ByClient(out) = ByClient(in)
    BY <1>7 DEF ByClient
  <1>9. FirstSystemText(out, i)
    BY <1>2, <1>4, <1>5 DEF FirstSystemText, IsSystemText
  <1>10. SystemText(out) = i
    BY <1>1, <1>4, <1>9, SystemTextIs
  <1>11. \A k \in DOMAIN out \ {i} : Range(out[k].text) \subseteq {"user"}
    BY <1>4, ClientText
  <1> QED
    BY <1>3, <1>5, <1>8, <1>10, <1>11 DEF Placed

(* They are a message of their own, in front. *)
LEMMA PlacedInFront ==
  ASSUME NEW in \in Seq(ClientMessage), NEW p \in Seq(STRING \ {"user"}),
         NEW a \in Seq(STRING \ {"user"}), NEW given,
         NEW out, out = <<System(p \o << >> \o a)>> \o in
  PROVE  Placed(in, out, p, a, given)
PROOF
  <1> DEFINE own == p \o << >> \o a
             x == System(own)
             blank == System(<< >>)
             P == WithoutPrompts(in)
  <1>1. DOMAIN in = 1 .. Len(in) /\ Len(in) \in Nat
    BY LenProperties
  <1>2. Kept(own, {"user"}) = << >>
    <2> DEFINE none == << >>
    <2>1. none \in Seq({"user"})
      OBVIOUS
    <2>2. own = p \o none \o a
      OBVIOUS
    <2> HIDE DEF none, own
    <2>3. Kept(own, {"user"}) = none
      BY <2>1, <2>2, KeptText
    <2> QED
      BY <2>3 DEF none
  <1> HIDE DEF own
  <1>3. x.role = "system" /\ x.kind = "text" /\ x.text = own
        /\ [x EXCEPT !.text = Kept(@, {"user"})] = blank
    BY <1>2 DEF System
  <1> HIDE DEF x, blank
  <1>4. /\ Len(out) = Len(in) + 1 /\ DOMAIN out = 1 .. Len(in) + 1
        /\ out[1] = x /\ \A k \in 1 .. Len(in) : out[k + 1] = in[k]
    BY <1>1 DEF x, own
  <1>5. DOMAIN out \subseteq Nat /\ FirstSystemText(out, 1)
    BY <1>1, <1>3, <1>4 DEF FirstSystemText, IsSystemText
  <1>6. SystemText(out) = 1
    BY <1>5, SystemTextIs
  <1>7. out[1].text = p \o Kept(out[1].text, {"user"}) \o a
    BY <1>2, <1>3, <1>4 DEF own
  <1>8. ASSUME NEW k \in DOMAIN out \ {1} PROVE Range(out[k].text) \subseteq {"user"}
    <2> DEFINE n == k - 1
    <2>1. n \in 1 .. Len(in) /\ n + 1 = k
      BY <1>1, <1>4
    <2> HIDE DEF n
    <2>2. out[k] = in[n] /\ n \in DOMAIN in
      BY <1>1, <1>4, <2>1
    <2> QED
      BY <2>2, ClientText
  <1>9. WithoutPrompts(out) = <<blank>> \o P
    <2> DEFINE Strip(m) == [m EXCEPT !.text = Kept(@, {"user"})]
               Q == WithoutPrompts(out)
               L == <<blank>> \o P
               X == {Strip(in[k]) : k \in DOMAIN in} \cup {blank}
    <2>1. P = [k \in 1 .. Len(in) |-> Strip(in[k])]
          /\ Q = [k \in 1 .. Len(in) + 1 |-> Strip(out[k])]
      BY <1>1, <1>4 DEF WithoutPrompts
    <2>2. Strip(out[1]) = blank
      BY <1>3, <1>4
    <2> HIDE DEF Strip, Q
    <2>3. P \in Seq(X) /\ Len(P) = Len(in) /\ \A k \in 1 .. Len(in) : P[k] = Strip(in[k])
      <3>1. \A k \in 1 .. Len(in) : Strip(in[k]) \in X
        BY <1>1
      <3> HIDE DEF X, P
      <3> QED
        BY <1>1, <2>1, <3>1
    <2> HIDE DEF P, X
    <2>4. /\ L \in Seq(X) /\ Len(L) = Len(in) + 1
          /\ \A k \in 1 .. Len(in) + 1 : L[k] = IF k = 1 THEN blank ELSE P[k - 1]
      <3>1. blank \in X
        BY DEF X
      <3> QED
        BY <1>1, <2>3, <3>1
    <2>5. ASSUME NEW k \in 1 .. Len(in) + 1 PROVE L[k] = Q[k]
      <3>1. CASE k = 1
        BY <1>1, <2>1, <2>2, <2>4, <3>1
      <3>2. CASE k # 1
        <4> DEFINE n == k - 1
        <4>1. n \in 1 .. Len(in) /\ n + 1 = k
          BY <1>1, <3>2
        <4>2. L[k] = P[n]
          BY <2>4, <3>2
        <4> HIDE DEF n, L
        <4>3. out[k] = in[n] /\ P[n] = Strip(in[n])
          BY <1>4, <2>3, <4>1
        <4> QED
          BY <2>1, <4>2, <4>3
      <3> QED
        BY <3>1, <3>2
    <2>6. DOMAIN L = 1 .. Len(in) + 1 /\ L = [k \in 1 .. Len(in) + 1 |-> L[k]]
      <3> HIDE DEF L
      <3>1. L \in [1 .. Len(L) -> X]
        BY <2>4, LenProperties
      <3> QED
        BY <2>4, <3>1
    <2>7. DOMAIN Q = 1 .. Len(in) + 1 /\ Q = [k \in 1 .. Len(in) + 1 |-> Q[k]]
      BY <2>1
    <2> HIDE DEF L
    <2>8. Q = L
      BY <2>5, <2>6, <2>7
    <2> QED
      BY <2>8 DEF Q, L
  <1>10. ByClient(out) = ByClient(in)
    <2> DEFINE S == Range(<<blank>> \o P) \ {blank}
               U == Range(P) \ {blank}
               X == Range(P) \cup {blank}
    <2>1. P \in Seq(X) /\ blank \in X
      <3>1. DOMAIN P = 1 .. Len(in) /\ P = [k \in 1 .. Len(in) |-> P[k]]
        BY <1>1 DEF WithoutPrompts
      <3> HIDE DEF P
      <3>2. \A k \in 1 .. Len(in) : P[k] \in X
        BY <3>1 DEF Range
      <3> HIDE DEF X
      <3>3. P \in Seq(X)
        BY <1>1, <3>1, <3>2
      <3> QED
        BY <3>3 DEF X
    <2> HIDE DEF P
    <2>2. ASSUME NEW k \in 1 .. Len(P) PROVE P[k] \in S <=> P[k] \in U
      <3> DEFINE L == <<blank>> \o P
      <3>1. DOMAIN P = 1 .. Len(P) /\ Len(P) \in Nat /\ P[k] \in Range(P)
        BY <2>1, LenProperties DEF Range
      <3>2. k + 1 \in DOMAIN L /\ L[k + 1] = P[k]
        <4> HIDE DEF X
        <4> QED
          BY <2>1, <3>1
      <3>3. P[k] \in Range(L)
        <4> DEFINE n == k + 1
        <4>1. n \in DOMAIN L /\ L[n] = P[k]
          BY <3>2
        <4> HIDE DEF n, L
        <4> QED
          BY <4>1 DEF Range
      <3> HIDE DEF L
      <3> QED
        BY <3>1, <3>3 DEF L
    <2>3. blank \notin S
      OBVIOUS
    <2> HIDE DEF S, U, X
    <2>4. Kept(<<blank>> \o P, S) = Kept(P, U)
      BY <2>1, <2>2, <2>3, KeptTail
    <2> QED
      BY <1>9, <2>4 DEF ByClient, S, U, P, blank
  <1>11. SystemText(out) # 0
    BY <1>6
  <1> QED
    BY <1>6, <1>7, <1>8, <1>10, <1>11, Zenon DEF Placed
(***************************************************************************)
(* For any conversation, any prompts and any endpoint that takes messages: *)
(* the configured prompts are in the conversation once, around its first   *)
(* system text or in front, and nothing of the client's is lost or moved   *)
(* (gateway.go:662-704).                                                   *)
(***************************************************************************)
THEOREM PromptsArePlaced == Spec => []PromptsInPlace
PROOF
  <1>1. JobInv /\ AtJob => PromptsInPlace
    <2> SUFFICES ASSUME JobInv, AtJob, pc = "targets", job.endpoint # "/v1/responses"
                 PROVE  PromptsInPlace
      BY DEF PromptsInPlace
    <2> DEFINE in == job.payload.messages
               out == payload.messages
               p == job.prepend.text
               a == job.append.text
               given == job.prepend.given \/ job.append.given
               i == SystemText(in)
    <2>1. job \in Jobs /\ payload = Prepared(job)
      BY DEF JobInv, AtJob
    <2>2. /\ in \in Seq(ClientMessage)
          /\ p \in Seq(STRING \ {"user"}) /\ a \in Seq(STRING \ {"user"})
      BY <2>1, JobsAssumption DEF ClientMessage
    <2>3. out = IF ~given THEN in
                ELSE IF i # 0 THEN [in EXCEPT ![i].text = p \o in[i].text \o a]
                ELSE <<System(p \o << >> \o a)>> \o in
      BY <2>1, PreparedMessages
    <2> HIDE DEF in, out, p, a, given, i
    <2>4. CASE given /\ i # 0
      <3>1. Placed(in, out, p, a, given)
        BY <2>2, <2>3, <2>4, PlacedAround DEF i
      <3> QED
        BY <3>1 DEF Placed, PromptsInPlace, in, out, p, a, given
    <2>5. CASE given /\ i = 0
      <3>1. Placed(in, out, p, a, given)
        BY <2>2, <2>3, <2>5, PlacedInFront
      <3> QED
        BY <3>1 DEF Placed, PromptsInPlace, in, out, p, a, given
    <2>6. CASE ~given
      <3>1. out = in
        BY <2>3, <2>6
      <3> QED
        BY <2>6, <3>1 DEF PromptsInPlace, in, out, given
    <2> QED
      BY <2>4, <2>5, <2>6
  <1>2. Init => AtJob
    BY DEF Init, AtJob
  <1> QED
    BY <1>1, <1>2, InitJob, JobInductive, AtJobInductive, PTL DEF Spec
=============================================================================
