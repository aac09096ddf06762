---------------------------- MODULE ProxyProofs -----------------------------
(***************************************************************************)
(* Proofs about Proxy: for any number of requests, any sequence of valid   *)
(* configurations and any interleaving with reloads.                       *)
(*                                                                         *)
(* The argument has four layers, each an invariant that rests on the one   *)
(* before: where a request is (CoreInv), what its attempts have been       *)
(* (StoryInv, and beside it FlagsInv for the two flags of the loop), which *)
(* leases it holds (LeaseInv), and how the metrics count (MetricsInv).     *)
(* CoreInv alone shows that the gateway uses the limits and the queue as   *)
(* they are meant to be used, so that the theorems about them hold inside  *)
(* the gateway, and the later layers build on those.                       *)
(***************************************************************************)
EXTENDS Proxy, FiniteSetTheorems, WellFoundedInduction, TLAPS

-----------------------------------------------------------------------------
(* Layer 1: where a request is. *)

Places == {"idle", "admit", "body", "resolve", "prompt", "target", "upstream",
           "backoff", "fail", "stream", "stalled", "unwind", "done"}

Failures == {"timedOut", "allLimited", "badGateway"}

Refusals == {"busy", "tooLarge", "badRequest", "noDiscovery", "unknownModel",
             "encodeError"}

Answers == {"none"} \cup StatusClasses \cup Failures \cup Refusals

Outcomes == StatusClasses \cup {"error", "timeout", "refused"}

Providers == UNION {DOMAIN Configs[i].providers : i \in DOMAIN Configs}

ModelType == [limits: Limits!Limits, targets: Seq(Providers), retries: Nat]

RequestType ==
  [pc: Places, stage: Stages, cfg: DOMAIN Configs, client: Clients \cup {"none"},
   alias: Aliases \cup {"none"}, model: ModelType, target: Nat, attempt: Nat,
   ctx: {"live", "gone", "deadline"}, late: BOOLEAN, limited: BOOLEAN,
   lastErr: BOOLEAN, completed: BOOLEAN, sse: BOOLEAN, answer: Answers,
   recorded: Seq(Answers)]

AttemptType == [target: Nat, attempt: Nat, late: BOOLEAN, outcome: Outcomes]

CallType == [at: {"idle", "try", "enter", "poll", "leave", "return"},
             ok: BOOLEAN, queued: BOOLEAN]

TypeInv ==
  /\ req \in [Requests -> RequestType]
  /\ tried \in [Requests -> Seq(AttemptType)]
  /\ call \in [Requests -> CallType]
  /\ config \in DOMAIN Configs
  /\ reload \in {"none", "queue", "limits"}

(* A call of wait is in progress exactly while the request asks for         *)
(* admission, and it is granted only on its way out.                        *)
CallInv(q, c) ==
  /\ q.pc = "admit" <=> c.at # "idle"
  /\ c.ok => c.at \in {"leave", "return"}

(* The model a request was given is one of its configuration's, or one its  *)
(* configuration lets it discover.                                          *)
Routed(q) ==
  LET cfg == Configs[q.cfg] IN
  /\ \/ q.alias \in DOMAIN cfg.models /\ q.model = cfg.models[q.alias]
     \/ q.alias \in Aliases \ DOMAIN cfg.models /\ q.model.limits = NoLimits
  /\ q.model.targets \in Seq(DOMAIN cfg.providers)
  /\ q.model.targets # << >>

StageOf(q) ==
  /\ q.pc # "idle" => q.client \in Clients
  /\ q.pc \in {"idle", "body", "resolve"} => q.stage = "ingress"
  /\ q.pc = "resolve" => q.alias \in Aliases \ DOMAIN Configs[q.cfg].models
  /\ q.pc = "prompt" => q.stage = "model"
  /\ q.pc = "target" => q.stage # "ingress"
  /\ q.pc \in {"upstream", "backoff", "fail", "stream", "stalled"} => q.stage = "provider"

InRange(q) ==
  /\ q.stage = "provider" \/ q.pc = "target" =>
       q.target \in 1 .. Len(q.model.targets) /\ q.attempt \in 0 .. q.model.retries
  /\ q.stage # "provider" \/ q.pc = "target" => q.attempt = 0
  /\ q.pc = "backoff" => q.attempt < q.model.retries

RouteInv(q) ==
  /\ StageOf(q)
  /\ q.stage # "ingress" => Routed(q)
  /\ InRange(q)

CoreInv ==
  /\ TypeInv
  /\ \A r \in Requests : CallInv(req[r], call[r]) /\ RouteInv(req[r])

-----------------------------------------------------------------------------
(* Layer 2: what its attempts have been. *)

(* The attempt that the failover policy puts after attempt a. *)
Follows(a, target, attempt, retries) ==
  IF a.outcome \in {"error", "failing"} /\ a.attempt < retries
  THEN target = a.target /\ attempt = a.attempt + 1
  ELSE target = a.target + 1 /\ attempt = 0

(* The first attempt, or the one after the last of t. *)
IsNext(t, target, attempt, retries) ==
  IF t = << >> THEN target = 1 /\ attempt = 0
               ELSE Follows(t[Len(t)], target, attempt, retries)

TriedTargets(t) == {t[i].target : i \in DOMAIN t}

(* An attempt is due, or under way. *)
Pending(q) ==
  q.pc \in {"target", "upstream"} \/ (q.pc = "admit" /\ q.stage = "provider")

(* Every target was considered, the last one last. *)
Exhausted(q, t) ==
  /\ t # << >>
  /\ t[Len(t)].target = Len(q.model.targets)
  /\ TriedTargets(t) = 1 .. Len(q.model.targets)

OrderInv(q, t) ==
  /\ t # << >> => t[1].target = 1 /\ t[1].attempt = 0
  /\ \A i \in 1 .. Len(t) - 1 :
       Follows(t[i], t[i + 1].target, t[i + 1].attempt, q.model.retries)
  /\ q.stage # "provider" => t = << >>
  /\ Pending(q) => /\ IsNext(t, q.target, q.attempt, q.model.retries)
                   /\ TriedTargets(t) \cup {q.target} = 1 .. q.target
  /\ q.pc = "backoff" => /\ IsNext(t, q.target, q.attempt + 1, q.model.retries)
                         /\ TriedTargets(t) = 1 .. q.target
  /\ q.pc = "fail" /\ q.ctx = "live" => Exhausted(q, t)

(* The attempts that began after the end of ctx. *)
LateInv(q, t) ==
  /\ \A i \in DOMAIN t :
       t[i].late => i = Len(t) /\ q.pc \in {"fail", "unwind", "done"}
  /\ q.pc = "upstream" /\ q.late => q.ctx # "live"

(* What the client was sent and what was recorded, by where the request is. *)
ReplyInv(q) ==
  /\ q.pc \notin {"stream", "stalled", "unwind", "done"} => q.answer = "none"
  /\ q.pc \in {"stream", "stalled"} => q.answer \in StatusClasses
  /\ q.pc \in {"unwind", "done"} => q.answer # "none"
  /\ q.pc \notin {"unwind", "done"} => q.recorded = << >>
  /\ q.recorded \in {<< >>, <<q.answer>>}
  /\ q.pc \in {"unwind", "done"} =>
       q.recorded = IF Accounted(q) THEN <<q.answer>> ELSE << >>
  /\ q.completed <=> q.answer \in StatusClasses

(* What justifies the answer. *)
CauseInv(q, t) ==
  /\ q.answer \in StatusClasses =>
       /\ q.stage = "provider"
       /\ t # << >>
       /\ t[Len(t)].outcome = q.answer
       /\ q.answer # "final" => t[Len(t)].target = Len(q.model.targets)
       /\ q.answer = "failing" => t[Len(t)].attempt = q.model.retries
  /\ q.answer \in {"allLimited", "badGateway"} /\ q.ctx = "live" =>
       q.stage = "provider" /\ Exhausted(q, t)
  /\ q.answer = "timedOut" => q.ctx = "deadline"

Story(q, t) == OrderInv(q, t) /\ LateInv(q, t) /\ ReplyInv(q) /\ CauseInv(q, t)

StoryInv == \A r \in Requests : Story(req[r], tried[r])

(* providerLimited and lastErr say what the attempts say, and the failure   *)
(* that was reported is the one they call for.                              *)
FlagsOK(q, t) ==
  /\ q.limited <=> Refused(t)
  /\ q.lastErr <=> Broken(t)
  /\ q.answer = "allLimited" => q.limited /\ ~q.lastErr
  /\ q.answer = "badGateway" => ~q.limited \/ q.lastErr

FlagsInv == \A r \in Requests : FlagsOK(req[r], tried[r])

-----------------------------------------------------------------------------
(* Layer 3: which leases it holds. *)

LeasesOf(r) == [s \in Stages |-> leases[<<r, s>>]]

(* What a request at a stage asks to be admitted through. *)
ScopesOf(q) ==
  CASE q.stage = "ingress"  -> IngressCall(Configs[q.cfg], q.client)
    [] q.stage = "model"    -> ModelCall(q.alias, q.model.limits)
    [] q.stage = "provider" -> ProviderCall(Configs[q.cfg], q.model.targets[q.target])

(* q is the request, c its call of wait and l its leases. *)
LeaseOK(q, c, l) ==
  /\ l["provider"] # Limits!NoLease =>
       \/ q.pc \in {"upstream", "stream", "stalled"}
       \/ q.pc = "unwind" /\ q.completed
       \/ q.pc = "admit" /\ q.stage = "provider" /\ c.ok
  /\ q.pc \in {"upstream", "stream", "stalled"} => l["provider"] = ScopesOf(q)
  /\ q.pc = "admit" /\ c.ok => l[q.stage] = ScopesOf(q)
  /\ q.pc \in {"idle", "done"} => \A s \in Stages : l[s] = Limits!NoLease

LeaseInv ==
  /\ leases \in [Requests \X Stages -> AllCalls \cup {Limits!NoLease}]
  /\ \A r \in Requests : LeaseOK(req[r], call[r], LeasesOf(r))

-----------------------------------------------------------------------------
(* Layer 4: how the metrics count. *)

Arrived == {r \in Requests : ~At(r, "idle")}
Underway == {r \in Requests : req[r].pc \notin {"idle", "done"}}
Served == {r \in Requests : req[r].completed}
Unserved == {r \in Requests : At(r, "done") /\ ~req[r].completed}

MetricsType == [requests: Int, completed: Int, failed: Int, active: Int,
                upstreamRequests: Int, upstreamErrors: Int,
                queueWaits: Int, queueRejected: Int]

MetricsInv ==
  /\ metrics \in MetricsType
  /\ metrics.requests = Cardinality(Arrived)
  /\ metrics.active = Cardinality(Underway)
  /\ metrics.completed = Cardinality(Served)
  /\ metrics.failed = Cardinality(Unserved)

-----------------------------------------------------------------------------
(* Layer 1, proved. *)

(* The configuration a request loaded is a valid one. *)
LEMMA ConfigIsValid ==
  ASSUME NEW i \in DOMAIN Configs
  PROVE  /\ ValidConfig(Configs[i])
         /\ DOMAIN Configs[i].providers \subseteq Providers
PROOF
  BY ConfigsAssumption DEF Providers

LEMMA NoLimitsType == NoLimits \in Limits!Limits
PROOF
  BY DEF NoLimits, Limits!Limits

(* A model of the configuration may be given to a request. *)
LEMMA ConfiguredModel ==
  ASSUME NEW i \in DOMAIN Configs, NEW a \in DOMAIN Configs[i].models
  PROVE  /\ Configs[i].models[a] \in ModelType
         /\ Configs[i].models[a].targets \in Seq(DOMAIN Configs[i].providers)
         /\ Configs[i].models[a].targets # << >>
PROOF
  <1> DEFINE m == Configs[i].models[a]
  <1>1. m \in [limits: Limits!Limits, retries: 0 .. 10,
              targets: Seq(DOMAIN Configs[i].providers)] /\ m.targets # << >>
    BY ConfigIsValid DEF ValidConfig
  <1>2. m.targets \in Seq(Providers)
    BY <1>1, ConfigIsValid
  <1>3. m.retries \in Nat
    BY <1>1
  <1> HIDE DEF m
  <1>4. m \in ModelType
    BY <1>1, <1>2, <1>3 DEF ModelType
  <1> QED
    BY <1>1, <1>4 DEF m

LEMMA Singleton ==
  ASSUME NEW S, NEW e \in S
  PROVE  <<e>> \in Seq(S)
PROOF
  OBVIOUS

LEMMA DiscoveredModelRoute ==
  ASSUME NEW i \in DOMAIN Configs, NEW p \in DOMAIN Configs[i].providers
  PROVE  /\ DiscoveredModel(p) \in ModelType
         /\ DiscoveredModel(p).limits = NoLimits
         /\ DiscoveredModel(p).targets \in Seq(DOMAIN Configs[i].providers)
         /\ DiscoveredModel(p).targets # << >>
PROOF
  <1>1. p \in Providers
    BY ConfigIsValid
  <1>2. <<p>> \in Seq(Providers) /\ <<p>> \in Seq(DOMAIN Configs[i].providers)
    BY <1>1, Singleton, Zenon
  <1> QED
    BY <1>2, NoLimitsType DEF DiscoveredModel, ModelType

(* continue targetLoop keeps a request where it may be. *)
LEMMA NextTargetRoute ==
  ASSUME NEW q \in RequestType, RouteInv(q), q.stage = "provider", q.pc # "idle"
  PROVE  NextTarget(q) \in RequestType /\ RouteInv(NextTarget(q))
         /\ NextTarget(q).pc \in {"target", "fail"}
PROOF
  <1>0. q.model.targets \in Seq(Providers) /\ Len(q.model.targets) \in Nat
        /\ q.model.retries \in Nat
    BY DEF RequestType, ModelType
  <1>1. CASE q.target < Len(q.model.targets)
    <2>1. NextTarget(q) = [q EXCEPT !.pc = "target", !.target = @ + 1, !.attempt = 0]
      BY <1>1 DEF NextTarget
    <2>2. NextTarget(q) \in RequestType
      <3>1. "target" \in Places /\ q.target + 1 \in Nat /\ 0 \in Nat
        BY DEF RequestType, Places
      <3> QED
        BY <2>1, <3>1 DEF RequestType
    <2>3. StageOf(NextTarget(q))
      BY <2>1 DEF RequestType, RouteInv, StageOf
    <2>4. Routed(NextTarget(q))
      BY <2>1 DEF RequestType, RouteInv, Routed
    <2>5. InRange(NextTarget(q))
      BY <2>1, <1>0, <1>1 DEF RequestType, RouteInv, InRange
    <2> QED
      BY <2>1, <2>2, <2>3, <2>4, <2>5 DEF RouteInv, RequestType
  <1>2. CASE ~(q.target < Len(q.model.targets))
    <2>1. NextTarget(q) = [q EXCEPT !.pc = "fail"]
      BY <1>2 DEF NextTarget
    <2>2. NextTarget(q) \in RequestType
      BY <2>1 DEF RequestType, Places
    <2>3. StageOf(NextTarget(q))
      BY <2>1 DEF RequestType, RouteInv, StageOf
    <2>4. Routed(NextTarget(q))
      BY <2>1 DEF RequestType, RouteInv, Routed
    <2>5. InRange(NextTarget(q))
      BY <2>1, <1>0 DEF RequestType, RouteInv, InRange
    <2> QED
      BY <2>1, <2>2, <2>3, <2>4, <2>5 DEF RouteInv, RequestType
  <1> QED
    BY <1>1, <1>2

SameRoute(q2, q) ==
  /\ q2.stage = q.stage /\ q2.cfg = q.cfg /\ q2.client = q.client
  /\ q2.alias = q.alias /\ q2.model = q.model
  /\ q2.target = q.target /\ q2.attempt = q.attempt

(* Answering and accounting do not move a request's route. *)
LEMMA ReplyType ==
  ASSUME NEW q \in RequestType, NEW a \in Answers
  PROVE  /\ Reply(q, a) \in RequestType
         /\ Reply(q, a).pc = "unwind"
         /\ Reply(q, a).answer = a
         /\ Reply(q, a).recorded = q.recorded
         /\ SameRoute(Reply(q, a), q)
PROOF
  BY DEF RequestType, Reply, Places, SameRoute

LEMMA RecordType ==
  ASSUME NEW q \in RequestType, NEW a \in Answers
  PROVE  /\ Record(q, a) \in RequestType
         /\ Record(q, a).pc = q.pc
         /\ Record(q, a).recorded = Append(q.recorded, a)
         /\ SameRoute(Record(q, a), q)
PROOF
  <1>1. Append(q.recorded, a) \in Seq(Answers)
    BY DEF RequestType
  <1> QED
    BY <1>1 DEF RequestType, Record, SameRoute

(* A request that has been answered may be where it is. *)
LEMMA LeavingRoute ==
  ASSUME NEW q \in RequestType, NEW q2 \in RequestType, RouteInv(q), q.pc # "idle",
         q2.pc \in {"unwind", "done"}, SameRoute(q2, q)
  PROVE  RouteInv(q2)
PROOF
  <1>1. StageOf(q2)
    BY DEF RouteInv, StageOf, SameRoute
  <1>2. q2.stage # "ingress" => Routed(q2)
    BY DEF RouteInv, Routed, SameRoute
  <1>3. InRange(q2)
    BY DEF RouteInv, InRange, SameRoute
  <1> QED
    BY <1>1, <1>2, <1>3 DEF RouteInv

(* A step of one request leaves the others where they are. *)
LEMMA CoreMove ==
  ASSUME CoreInv, NEW r \in Requests, NEW q2 \in RequestType, NEW c2 \in CallType,
         req' = [req EXCEPT ![r] = q2], call' = [call EXCEPT ![r] = c2],
         CallInv(q2, c2), RouteInv(q2),
         tried' \in [Requests -> Seq(AttemptType)], UNCHANGED <<config, reload>>
  PROVE  CoreInv'
PROOF
  <1>1. TypeInv'
    BY DEF CoreInv, TypeInv
  <1>2. ASSUME NEW s \in Requests
        PROVE  CallInv(req'[s], call'[s]) /\ RouteInv(req'[s])
    <2>1. CASE s = r
      BY <2>1 DEF CoreInv, TypeInv
    <2>2. CASE s # r
      <3>1. req'[s] = req[s] /\ call'[s] = call[s]
        BY <2>2 DEF CoreInv, TypeInv
      <3> QED
        BY <3>1 DEF CoreInv
    <2> QED
      BY <2>1, <2>2
  <1> QED
    BY <1>1, <1>2 DEF CoreInv

(* ... outside admission *)
LEMMA StepMove ==
  ASSUME CoreInv, NEW r \in Requests, NEW q2 \in RequestType,
         Set(r, q2), RouteInv(q2), q2.pc = "admit" <=> req[r].pc = "admit",
         tried' \in [Requests -> Seq(AttemptType)], UNCHANGED <<config, reload, call>>
  PROVE  CoreInv'
PROOF
  <1>1. call[r] \in CallType /\ CallInv(req[r], call[r])
    BY DEF CoreInv, TypeInv
  <1>2. CallInv(q2, call[r])
    BY <1>1 DEF CallInv
  <1>3. call' = [call EXCEPT ![r] = call[r]]
    BY DEF CoreInv, TypeInv
  <1> QED
    BY <1>1, <1>2, <1>3, CoreMove DEF Set

(* ... when it asks for admission *)
LEMMA AskMove ==
  ASSUME CoreInv, NEW r \in Requests, NEW q, NEW s,
         [q EXCEPT !.pc = "admit", !.stage = s] \in RequestType,
         [q EXCEPT !.pc = "admit", !.stage = s].pc = "admit",
         RouteInv([q EXCEPT !.pc = "admit", !.stage = s]),
         Ask(r, q, s), UNCHANGED <<tried, config, reload>>
  PROVE  CoreInv'
PROOF
  <1> DEFINE q2 == [q EXCEPT !.pc = "admit", !.stage = s]
             c2 == [call[r] EXCEPT !.at = "try"]
  <1>1. call[r] \in CallType /\ CallInv(req[r], call[r]) /\ call[r].at = "idle"
    BY DEF CoreInv, TypeInv, Ask, Queue!Call
  <1>2. c2 \in CallType /\ c2.at = "try" /\ ~c2.ok
    BY <1>1 DEF CallType, CallInv
  <1>3. call' = [call EXCEPT ![r] = c2] /\ req' = [req EXCEPT ![r] = q2]
    BY DEF Ask, Queue!Call, Set
  <1>4. tried' \in [Requests -> Seq(AttemptType)]
    BY DEF CoreInv, TypeInv
  <1> HIDE DEF q2, c2
  <1>5. CallInv(q2, c2)
    BY <1>2 DEF CallInv, q2
  <1> QED
    BY <1>2, <1>3, <1>4, <1>5, CoreMove DEF q2

(* ... when wait returns *)
LEMMA ReturnMove ==
  ASSUME CoreInv, NEW r \in Requests, NEW q2 \in RequestType,
         Set(r, q2), RouteInv(q2), q2.pc # "admit", Queue!Return(r),
         tried' \in [Requests -> Seq(AttemptType)], UNCHANGED <<config, reload>>
  PROVE  CoreInv'
PROOF
  <1>1. Queue!Idle \in CallType /\ CallInv(q2, Queue!Idle)
    BY DEF Queue!Idle, CallType, CallInv
  <1>2. call' = [call EXCEPT ![r] = Queue!Idle]
    BY DEF Queue!Return
  <1> QED
    BY <1>1, <1>2, CoreMove DEF Set

LEMMA CoreArrive ==
  ASSUME CoreInv, NEW r \in Requests, NEW client \in Clients, Arrive(r, client)
  PROVE  CoreInv'
PROOF
  <1> DEFINE q == [req[r] EXCEPT !.cfg = config, !.client = client]
             q2 == [q EXCEPT !.pc = "admit", !.stage = "ingress"]
  <1>1. req[r] \in RequestType /\ RouteInv(req[r]) /\ req[r].pc = "idle"
        /\ config \in DOMAIN Configs
    BY DEF CoreInv, TypeInv, Arrive, At
  <1>2. q2 \in RequestType /\ q2.pc = "admit"
    BY <1>1 DEF RequestType, Places, Stages
  <1>3. StageOf(q2)
    BY <1>1 DEF RequestType, RouteInv, StageOf
  <1>4. InRange(q2) /\ q2.stage = "ingress"
    BY <1>1 DEF RequestType, RouteInv, StageOf, InRange
  <1> HIDE DEF q
  <1>5. RouteInv(q2)
    BY <1>3, <1>4 DEF RouteInv
  <1>6. Ask(r, q, "ingress") /\ UNCHANGED <<tried, config, reload>>
    BY DEF Arrive, q
  <1> QED
    BY <1>2, <1>5, <1>6, AskMove

(* Inside wait, the request stays where it is. *)
LEMMA CoreWait ==
  ASSUME CoreInv, NEW r \in Requests,
         Try(r) \/ PollAgain(r) \/ EnterQueue(r) \/ LeaveQueue(r) \/ GiveUpWaiting(r)
  PROVE  CoreInv'
PROOF
  <1>1. req[r] \in RequestType /\ RouteInv(req[r]) /\ call[r] \in CallType
        /\ CallInv(req[r], call[r])
    BY DEF CoreInv, TypeInv
  <1>2. UNCHANGED <<req, tried, config, reload>>
    BY DEF Try, PollAgain, EnterQueue, LeaveQueue, GiveUpWaiting
  <1>3. tried' \in [Requests -> Seq(AttemptType)] /\ req' = [req EXCEPT ![r] = req[r]]
    BY <1>2 DEF CoreInv, TypeInv
  <1>4. ASSUME NEW c2 \in CallType, CallInv(req[r], c2), call' = [call EXCEPT ![r] = c2]
        PROVE  CoreInv'
    BY <1>1, <1>2, <1>3, <1>4, CoreMove
  <1>5. CASE Try(r)
    <2>1. PICK ok \in BOOLEAN : Queue!TryFirst(r, ok)
      BY <1>5 DEF Try
    <2> DEFINE c2 == IF ok THEN [at |-> "return", ok |-> TRUE, queued |-> FALSE]
                           ELSE [call[r] EXCEPT !.at = "enter"]
    <2>2. c2 \in CallType /\ CallInv(req[r], c2)
      BY <1>1, <2>1 DEF CallType, CallInv, Queue!TryFirst
    <2>3. call' = [call EXCEPT ![r] = c2]
      BY <2>1 DEF Queue!TryFirst
    <2> QED
      BY <1>4, <2>2, <2>3
  <1>6. CASE PollAgain(r)
    <2>1. PICK ok \in BOOLEAN : Queue!Poll(r, ok)
      BY <1>6 DEF PollAgain
    <2> DEFINE c2 == IF ok THEN [call[r] EXCEPT !.at = "leave", !.ok = TRUE]
                           ELSE call[r]
    <2>2. c2 \in CallType /\ CallInv(req[r], c2)
      BY <1>1, <2>1 DEF CallType, CallInv, Queue!Poll
    <2>3. call' = [call EXCEPT ![r] = c2]
      BY <2>1 DEF Queue!Poll, CoreInv, TypeInv
    <2> QED
      BY <1>4, <2>2, <2>3
  <1>7. CASE EnterQueue(r)
    <2> DEFINE c2 == IF Queue!Room THEN [at |-> "poll", ok |-> FALSE, queued |-> TRUE]
                                   ELSE [call[r] EXCEPT !.at = "return"]
    <2>1. Queue!Enter(r)
      BY <1>7 DEF EnterQueue
    <2>2. c2 \in CallType /\ CallInv(req[r], c2)
      BY <1>1, <2>1 DEF CallType, CallInv, Queue!Enter
    <2>3. call' = [call EXCEPT ![r] = c2]
      BY <2>1 DEF Queue!Enter
    <2> QED
      BY <1>4, <2>2, <2>3
  <1>8. CASE LeaveQueue(r)
    <2> DEFINE c2 == [call[r] EXCEPT !.at = "return"]
    <2>1. Queue!Leave(r)
      BY <1>8 DEF LeaveQueue
    <2>2. c2 \in CallType /\ CallInv(req[r], c2)
      BY <1>1, <2>1 DEF CallType, CallInv, Queue!Leave
    <2>3. call' = [call EXCEPT ![r] = c2]
      BY <2>1 DEF Queue!Leave
    <2> QED
      BY <1>4, <2>2, <2>3
  <1>9. CASE GiveUpWaiting(r)
    <2> DEFINE c2 == [call[r] EXCEPT !.at = "leave"]
    <2>1. Queue!Expire(r)
      BY <1>9 DEF GiveUpWaiting
    <2>2. c2 \in CallType /\ CallInv(req[r], c2)
      BY <1>1, <2>1 DEF CallType, CallInv, Queue!Expire
    <2>3. call' = [call EXCEPT ![r] = c2]
      BY <2>1 DEF Queue!Expire
    <2> QED
      BY <1>4, <2>2, <2>3
  <1> QED
    BY <1>5, <1>6, <1>7, <1>8, <1>9

LEMMA CoreGranted ==
  ASSUME CoreInv, NEW r \in Requests, Granted(r)
  PROVE  CoreInv'
PROOF
  <1> DEFINE q == req[r]
             q2 == CASE q.stage = "ingress" -> [q EXCEPT !.pc = "body"]
                     [] q.stage = "model"   -> [q EXCEPT !.pc = "prompt"]
                     [] OTHER -> [q EXCEPT !.pc = "upstream", !.late = q.ctx # "live"]
  <1>1. q \in RequestType /\ RouteInv(q) /\ q.pc = "admit" /\ Queue!Return(r)
    BY DEF CoreInv, TypeInv, CallInv, Granted, Queue!Return
  <1>2. Set(r, q2) /\ UNCHANGED <<tried, config, reload>>
    BY DEF Granted
  <1>3. tried' \in [Requests -> Seq(AttemptType)]
    BY <1>2 DEF CoreInv, TypeInv
  <1> HIDE DEF q
  <1>4. CASE q.stage = "ingress"
    <2>1. q2 = [q EXCEPT !.pc = "body"]
      BY <1>4
    <2> HIDE DEF q2
    <2>2. q2 \in RequestType
      BY <1>1, <2>1 DEF RequestType, Places
    <2>3. RouteInv(q2) /\ q2.pc # "admit"
      BY <1>1, <1>4, <2>1 DEF RequestType, RouteInv, StageOf, InRange
    <2> QED
      BY <1>1, <1>2, <1>3, <2>2, <2>3, ReturnMove
  <1>5. CASE q.stage = "model"
    <2>1. q2 = [q EXCEPT !.pc = "prompt"]
      BY <1>5
    <2> HIDE DEF q2
    <2>2. q2 \in RequestType
      BY <1>1, <2>1 DEF RequestType, Places
    <2>3. RouteInv(q2) /\ q2.pc # "admit"
      BY <1>1, <1>5, <2>1 DEF RequestType, RouteInv, StageOf, InRange, Routed
    <2> QED
      BY <1>1, <1>2, <1>3, <2>2, <2>3, ReturnMove
  <1>6. CASE q.stage = "provider"
    <2>1. q2 = [q EXCEPT !.pc = "upstream", !.late = q.ctx # "live"]
      BY <1>6
    <2> HIDE DEF q2
    <2>2. q2 \in RequestType
      BY <1>1, <2>1 DEF RequestType, Places
    <2>3. RouteInv(q2) /\ q2.pc # "admit"
      BY <1>1, <1>6, <2>1 DEF RequestType, RouteInv, StageOf, InRange, Routed
    <2> QED
      BY <1>1, <1>2, <1>3, <2>2, <2>3, ReturnMove
  <1> QED
    BY <1>1, <1>4, <1>5, <1>6 DEF RequestType, Stages

(* An attempt is added to the history. *)
LEMMA TriedType ==
  ASSUME TypeInv, NEW r \in Requests, NEW a \in AttemptType,
         tried' = [tried EXCEPT ![r] = Append(@, a)]
  PROVE  tried' \in [Requests -> Seq(AttemptType)]
PROOF
  BY DEF TypeInv

LEMMA CoreDenied ==
  ASSUME CoreInv, NEW r \in Requests, Denied(r)
  PROVE  CoreInv'
PROOF
  <1> DEFINE q == req[r]
  <1>1. q \in RequestType /\ RouteInv(q) /\ q.pc = "admit" /\ Queue!Return(r)
    BY DEF CoreInv, TypeInv, CallInv, Denied, Queue!Return
  <1>2. TypeInv /\ UNCHANGED <<config, reload>>
    BY DEF CoreInv, Denied
  <1>3. CASE q.stage = "provider"
    <2> DEFINE q1 == [q EXCEPT !.limited = TRUE]
               a == [target |-> q.target, attempt |-> q.attempt, late |-> FALSE,
                     outcome |-> "refused"]
    <2>1. q1 \in RequestType /\ q1.pc = "admit" /\ q1.stage = "provider"
      BY <1>1, <1>3 DEF RequestType
    <2>2. RouteInv(q1)
      BY <1>1, <1>3 DEF RequestType, RouteInv, StageOf, Routed, InRange
    <2>3. a \in AttemptType
      BY <1>1 DEF RequestType, AttemptType, Outcomes
    <2>4. Set(r, NextTarget(q1)) /\ tried' = [tried EXCEPT ![r] = Append(@, a)]
      BY <1>3 DEF Denied, IngressRefused, ModelRefused, ProviderRefused
    <2> HIDE DEF q, q1, a
    <2>5. tried' \in [Requests -> Seq(AttemptType)]
      BY <1>2, <2>3, <2>4, TriedType
    <2>6. NextTarget(q1) \in RequestType /\ RouteInv(NextTarget(q1))
          /\ NextTarget(q1).pc # "admit"
      BY <2>1, <2>2, NextTargetRoute
    <2> QED
      BY <1>1, <1>2, <2>4, <2>5, <2>6, ReturnMove
  <1>4. CASE q.stage # "provider"
    <2> DEFINE q1 == IF q.stage = "model" THEN Record(q, "busy") ELSE q
               q2 == Reply(q1, "busy")
    <2>1. "busy" \in Answers
      BY DEF Answers, Refusals
    <2>2. q1 \in RequestType /\ SameRoute(q1, q)
      BY <1>1, <2>1, RecordType DEF SameRoute
    <2>3. Set(r, q2) /\ tried' = tried
      BY <1>4 DEF Denied, IngressRefused, ModelRefused, ProviderRefused
    <2> HIDE DEF q, q1
    <2>4. q2 \in RequestType /\ q2.pc = "unwind" /\ SameRoute(q2, q)
      BY <2>1, <2>2, ReplyType DEF SameRoute
    <2> HIDE DEF q2
    <2>5. RouteInv(q2) /\ q2.pc # "admit"
      BY <1>1, <2>4, LeavingRoute
    <2>6. tried' \in [Requests -> Seq(AttemptType)]
      BY <1>2, <2>3 DEF TypeInv
    <2> QED
      BY <1>1, <1>2, <2>3, <2>4, <2>5, <2>6, ReturnMove
  <1> QED
    BY <1>3, <1>4

(* The request is answered, or ends: it goes nowhere else. *)
LEMMA CoreLeaves ==
  ASSUME CoreInv, NEW r \in Requests,
         \/ BadBody(r) \/ Fail(r) \/ StreamEnds(r) \/ WriteFails(r) \/ Finish(r)
  PROVE  CoreInv'
PROOF
  <1> DEFINE q == req[r]
  <1>1. q \in RequestType /\ RouteInv(q) /\ q.pc \notin {"idle", "admit"}
    BY DEF CoreInv, TypeInv, BadBody, Fail, StreamEnds, WriteFails, Finish, At
  <1>2. UNCHANGED <<tried, config, reload, call>>
    BY DEF BadBody, Fail, StreamEnds, WriteFails, Finish, queueVars
  <1>3. tried' \in [Requests -> Seq(AttemptType)]
    BY <1>2 DEF CoreInv, TypeInv
  <1>4. ASSUME NEW q2 \in RequestType, Set(r, q2), q2.pc \in {"unwind", "done"},
               SameRoute(q2, q)
        PROVE  CoreInv'
    <2>1. RouteInv(q2) /\ (q2.pc = "admit" <=> req[r].pc = "admit")
      BY <1>1, <1>4, LeavingRoute
    <2> QED
      BY <1>2, <1>3, <1>4, <2>1, StepMove
  <1>5. CASE BadBody(r)
    <2>1. PICK a \in {"tooLarge", "badRequest"} : Set(r, Reply(q, a))
      BY <1>5 DEF BadBody
    <2>2. a \in Answers
      BY DEF Answers, Refusals
    <2> QED
      BY <1>1, <1>4, <2>1, <2>2, ReplyType
  <1>6. CASE Fail(r)
    <2> DEFINE a == FailureStatus(q)
    <2>1. a \in Answers
      BY <1>1 DEF FailureStatus, Answers, Failures, RequestType
    <2>2. Set(r, Reply(Record(q, a), a))
      BY <1>6 DEF Fail
    <2> HIDE DEF a
    <2>3. SameRoute(Reply(Record(q, a), a), q)
      BY <1>1, <2>1, ReplyType, RecordType DEF SameRoute
    <2> QED
      BY <1>1, <1>4, <2>1, <2>2, <2>3, ReplyType, RecordType
  <1>7. CASE StreamEnds(r) \/ WriteFails(r)
    <2> DEFINE q1 == Record(q, q.answer)
               q2 == [q1 EXCEPT !.pc = "unwind"]
    <2>1. Set(r, q2)
      BY <1>7 DEF StreamEnds, WriteFails
    <2>2. q1 \in RequestType /\ SameRoute(q1, q)
      BY <1>1, RecordType DEF RequestType
    <2> HIDE DEF q1
    <2>3. q2 \in RequestType /\ q2.pc = "unwind" /\ SameRoute(q2, q)
      BY <2>2 DEF RequestType, Places, SameRoute
    <2> QED
      BY <1>4, <2>1, <2>3
  <1>8. CASE Finish(r)
    <2> DEFINE q2 == [q EXCEPT !.pc = "done"]
    <2>1. Set(r, q2)
      BY <1>8 DEF Finish
    <2>2. q2 \in RequestType /\ q2.pc = "done" /\ SameRoute(q2, q)
      BY <1>1 DEF RequestType, Places, SameRoute
    <2> QED
      BY <1>4, <2>1, <2>2
  <1> QED
    BY <1>5, <1>6, <1>7, <1>8

LEMMA CoreReadBody ==
  ASSUME CoreInv, NEW r \in Requests, NEW alias \in Aliases, ReadBody(r, alias)
  PROVE  CoreInv'
PROOF
  <1> DEFINE q == req[r]
             cfg == Configs[q.cfg]
  <1>1. q \in RequestType /\ RouteInv(q) /\ q.pc = "body" /\ q.cfg \in DOMAIN Configs
    BY DEF CoreInv, TypeInv, ReadBody, At, RequestType
  <1>2. UNCHANGED <<tried, config, reload>> /\ tried \in [Requests -> Seq(AttemptType)]
    BY DEF ReadBody, CoreInv, TypeInv
  <1>3. CASE alias \in DOMAIN cfg.models
    <2> DEFINE q1 == [q EXCEPT !.alias = alias, !.model = cfg.models[alias]]
               q2 == [q1 EXCEPT !.pc = "admit", !.stage = "model"]
    <2>1. /\ cfg.models[alias] \in ModelType
          /\ cfg.models[alias].targets \in Seq(DOMAIN cfg.providers)
          /\ cfg.models[alias].targets # << >>
      BY <1>1, <1>3, ConfiguredModel
    <2>2. q2 \in RequestType /\ q2.pc = "admit" /\ q2.stage = "model"
      BY <1>1, <2>1 DEF RequestType, Places, Stages
    <2>3. StageOf(q2)
      BY <1>1 DEF RequestType, RouteInv, StageOf
    <2>4. Routed(q2)
      BY <1>1, <1>3, <2>1 DEF RequestType, Routed
    <2>5. InRange(q2)
      BY <1>1, <2>1 DEF RequestType, RouteInv, StageOf, InRange
    <2>6. Ask(r, q1, "model")
      BY <1>3 DEF ReadBody, Cfg
    <2> HIDE DEF q1
    <2>7. RouteInv(q2)
      BY <2>3, <2>4, <2>5 DEF RouteInv
    <2> QED
      BY <1>2, <2>2, <2>6, <2>7, AskMove
  <1>4. CASE alias \notin DOMAIN cfg.models
    <2> DEFINE q2 == [q EXCEPT !.pc = "resolve", !.alias = alias]
    <2>1. q2 \in RequestType /\ q2.pc = "resolve" /\ q2.stage = "ingress"
      BY <1>1 DEF RequestType, Places, RouteInv, StageOf
    <2>2. RouteInv(q2)
      BY <1>1, <1>4, <2>1 DEF RequestType, RouteInv, StageOf, InRange
    <2>3. Set(r, q2) /\ UNCHANGED call
      BY <1>4 DEF ReadBody, Cfg, queueVars
    <2> QED
      BY <1>1, <1>2, <2>1, <2>2, <2>3, StepMove
  <1> QED
    BY <1>3, <1>4

LEMMA CoreResolve ==
  ASSUME CoreInv, NEW r \in Requests, Resolve(r)
  PROVE  CoreInv'
PROOF
  <1> DEFINE q == req[r]
             cfg == Configs[q.cfg]
  <1>1. q \in RequestType /\ RouteInv(q) /\ q.pc = "resolve" /\ q.cfg \in DOMAIN Configs
    BY DEF CoreInv, TypeInv, Resolve, At, RequestType
  <1>2. UNCHANGED <<tried, config, reload>> /\ tried \in [Requests -> Seq(AttemptType)]
    BY DEF Resolve, CoreInv, TypeInv
  <1>3. ASSUME NEW p \in Discoverable(r),
               Ask(r, [q EXCEPT !.model = DiscoveredModel(p)], "model")
        PROVE  CoreInv'
    <2> DEFINE m == DiscoveredModel(p)
               q1 == [q EXCEPT !.model = m]
               q2 == [q1 EXCEPT !.pc = "admit", !.stage = "model"]
    <2>1. /\ m \in ModelType /\ m.limits = NoLimits
          /\ m.targets \in Seq(DOMAIN cfg.providers) /\ m.targets # << >>
      BY <1>1, DiscoveredModelRoute DEF Discoverable, Cfg
    <2> HIDE DEF m
    <2>2. q2 \in RequestType /\ q2.pc = "admit" /\ q2.stage = "model"
      BY <1>1, <2>1 DEF RequestType, Places, Stages
    <2>3. StageOf(q2)
      BY <1>1 DEF RequestType, RouteInv, StageOf
    <2>4. Routed(q2)
      BY <1>1, <2>1 DEF RequestType, RouteInv, StageOf, Routed
    <2>5. InRange(q2)
      BY <1>1, <2>1 DEF RequestType, RouteInv, StageOf, InRange
    <2>6. Ask(r, q1, "model")
      BY <1>3 DEF m
    <2> HIDE DEF q1
    <2>7. RouteInv(q2)
      BY <2>3, <2>4, <2>5 DEF RouteInv
    <2> QED
      BY <1>2, <2>2, <2>6, <2>7, AskMove
  <1>4. ASSUME NEW a \in {"noDiscovery", "unknownModel"}, Set(r, Reply(q, a)),
               UNCHANGED queueVars
        PROVE  CoreInv'
    <2>1. a \in Answers
      BY DEF Answers, Refusals
    <2>2. Reply(q, a) \in RequestType /\ RouteInv(Reply(q, a))
          /\ Reply(q, a).pc = "unwind"
      BY <1>1, <2>1, ReplyType, LeavingRoute
    <2> QED
      BY <1>1, <1>2, <1>4, <2>2, StepMove DEF queueVars
  <1> QED
    BY <1>3, <1>4 DEF Resolve

LEMMA CorePrepare ==
  ASSUME CoreInv, NEW r \in Requests, Prepare(r)
  PROVE  CoreInv'
PROOF
  <1> DEFINE q == req[r]
  <1>1. q \in RequestType /\ RouteInv(q) /\ q.pc = "prompt"
    BY DEF CoreInv, TypeInv, Prepare, At
  <1>2. UNCHANGED <<tried, config, reload, call>>
        /\ tried \in [Requests -> Seq(AttemptType)]
    BY DEF Prepare, CoreInv, TypeInv, queueVars
  <1>3. CASE Set(r, Reply(q, "badRequest"))
    <2>1. "badRequest" \in Answers
      BY DEF Answers, Refusals
    <2>2. Reply(q, "badRequest") \in RequestType /\ RouteInv(Reply(q, "badRequest"))
          /\ Reply(q, "badRequest").pc = "unwind"
      BY <1>1, <2>1, ReplyType, LeavingRoute
    <2> QED
      BY <1>1, <1>2, <1>3, <2>2, StepMove
  <1>4. CASE Set(r, [q EXCEPT !.pc = "target", !.target = 1])
    <2> DEFINE q2 == [q EXCEPT !.pc = "target", !.target = 1]
    <2>1. q2 \in RequestType /\ q2.pc = "target"
      BY <1>1 DEF RequestType, Places
    <2>2. StageOf(q2)
      BY <1>1 DEF RequestType, RouteInv, StageOf
    <2>3. Routed(q2)
      BY <1>1 DEF RequestType, RouteInv, StageOf, Routed
    <2>4. Len(q.model.targets) >= 1 /\ Len(q.model.targets) \in Nat
          /\ q.model.retries \in Nat
      BY <1>1 DEF RequestType, RouteInv, StageOf, Routed, ModelType
    <2>5. InRange(q2)
      BY <1>1, <2>4 DEF RequestType, RouteInv, StageOf, InRange
    <2>6. RouteInv(q2)
      BY <2>2, <2>3, <2>5 DEF RouteInv
    <2> QED
      BY <1>1, <1>2, <1>4, <2>1, <2>6, StepMove
  <1> QED
    BY <1>3, <1>4 DEF Prepare

(* A request that goes back to the admission of its target. *)
LEMMA AskProvider ==
  ASSUME CoreInv, NEW r \in Requests, NEW n \in {0, 1},
         req[r].pc \in {"target", "backoff"}, n = 1 => req[r].pc = "backoff",
         Ask(r, [req[r] EXCEPT !.attempt = @ + n], "provider"),
         UNCHANGED <<tried, config, reload>>
  PROVE  CoreInv'
PROOF
  <1> DEFINE q == req[r]
             q1 == [q EXCEPT !.attempt = @ + n]
             q2 == [q1 EXCEPT !.pc = "admit", !.stage = "provider"]
  <1>1. q \in RequestType /\ RouteInv(q) /\ q.attempt \in Nat /\ q.model.retries \in Nat
        /\ q.pc \in {"target", "backoff"} /\ (n = 1 => q.pc = "backoff")
    BY DEF CoreInv, TypeInv, RequestType, ModelType
  <1>2. q.attempt + n \in Nat
    BY <1>1
  <1> HIDE DEF q
  <1>3. q2 \in RequestType /\ q2.pc = "admit" /\ q2.stage = "provider"
    BY <1>1, <1>2 DEF RequestType, Places, Stages
  <1>4. StageOf(q2)
    BY <1>1 DEF RequestType, RouteInv, StageOf
  <1>5. Routed(q2)
    BY <1>1 DEF RequestType, RouteInv, StageOf, Routed
  <1>6. q.attempt + n \in 0 .. q.model.retries
    BY <1>1 DEF RouteInv, InRange, StageOf
  <1>7. InRange(q2)
    BY <1>1, <1>6 DEF RequestType, RouteInv, StageOf, InRange
  <1>8. RouteInv(q2)
    BY <1>4, <1>5, <1>7 DEF RouteInv
  <1> HIDE DEF q1
  <1>9. Ask(r, q1, "provider")
    BY DEF q, q1
  <1> QED
    BY <1>3, <1>8, <1>9, AskMove

LEMMA CoreStartTarget ==
  ASSUME CoreInv, NEW r \in Requests, StartTarget(r)
  PROVE  CoreInv'
PROOF
  <1> DEFINE q == req[r]
  <1>1. q \in RequestType /\ RouteInv(q) /\ q.pc = "target"
    BY DEF CoreInv, TypeInv, StartTarget, At
  <1>2. UNCHANGED <<tried, config, reload>> /\ tried \in [Requests -> Seq(AttemptType)]
    BY DEF StartTarget, CoreInv, TypeInv
  <1>3. CASE Ask(r, q, "provider")
    <2>1. [q EXCEPT !.attempt = @ + 0] = q
      BY <1>1 DEF RequestType
    <2>2. Ask(r, [req[r] EXCEPT !.attempt = @ + 0], "provider")
      BY <1>3, <2>1
    <2>3. 0 \in {0, 1} /\ (0 = 1 => req[r].pc = "backoff")
          /\ req[r].pc \in {"target", "backoff"}
      BY <1>1
    <2> QED
      BY <1>2, <2>2, <2>3, AskProvider, Zenon
  <1>4. CASE Set(r, Reply(q, "encodeError")) /\ UNCHANGED queueVars
    <2>1. "encodeError" \in Answers
      BY DEF Answers, Refusals
    <2>2. Reply(q, "encodeError") \in RequestType /\ RouteInv(Reply(q, "encodeError"))
          /\ Reply(q, "encodeError").pc = "unwind"
      BY <1>1, <2>1, ReplyType, LeavingRoute
    <2> QED
      BY <1>1, <1>2, <1>4, <2>2, StepMove DEF queueVars
  <1> QED
    BY <1>3, <1>4 DEF StartTarget

LEMMA CoreBackoff ==
  ASSUME CoreInv, NEW r \in Requests, BackoffOver(r) \/ BackoffCut(r)
  PROVE  CoreInv'
PROOF
  <1> DEFINE q == req[r]
  <1>1. q \in RequestType /\ RouteInv(q) /\ q.pc = "backoff"
    BY DEF CoreInv, TypeInv, BackoffOver, BackoffCut, At
  <1>2. CASE BackoffOver(r)
    BY <1>1, <1>2, AskProvider DEF BackoffOver
  <1>3. CASE BackoffCut(r)
    <2> DEFINE q2 == [q EXCEPT !.pc = "fail"]
    <2>1. q2 \in RequestType /\ q2.pc = "fail"
      BY <1>1 DEF RequestType, Places
    <2>2. RouteInv(q2)
      BY <1>1 DEF RequestType, RouteInv, StageOf, Routed, InRange
    <2>3. Set(r, q2) /\ UNCHANGED <<tried, config, reload, call>>
          /\ tried' \in [Requests -> Seq(AttemptType)]
      BY <1>3 DEF BackoffCut, queueVars, CoreInv, TypeInv
    <2> QED
      BY <1>1, <2>1, <2>2, <2>3, StepMove
  <1> QED
    BY <1>2, <1>3

(* What follows a transport error is a place of the same attempt, or the    *)
(* next target.                                                             *)
LEMMA AfterErrorRoute ==
  ASSUME NEW q \in RequestType, RouteInv(q), q.pc = "upstream", NEW timedOut \in BOOLEAN
  PROVE  /\ AfterError(q, timedOut) \in RequestType
         /\ RouteInv(AfterError(q, timedOut))
         /\ AfterError(q, timedOut).pc # "admit"
PROOF
  <1>1. q.stage = "provider"
    BY DEF RouteInv, StageOf
  <1>2. NextTarget(q) \in RequestType /\ RouteInv(NextTarget(q))
        /\ NextTarget(q).pc # "admit"
    BY <1>1, NextTargetRoute
  <1>3. CASE AfterError(q, timedOut) = [q EXCEPT !.pc = "fail"]
    BY <1>1, <1>3 DEF RequestType, Places, RouteInv, StageOf, Routed, InRange
  <1>4. CASE AfterError(q, timedOut) = NextTarget(q)
    BY <1>2, <1>4
  <1>5. CASE /\ AfterError(q, timedOut) = [q EXCEPT !.pc = "backoff"]
             /\ q.attempt < q.model.retries
    BY <1>1, <1>5 DEF RequestType, Places, RouteInv, StageOf, Routed, InRange
  <1> QED
    BY <1>3, <1>4, <1>5 DEF AfterError

LEMMA CoreUpstreamError ==
  ASSUME CoreInv, NEW r \in Requests, NEW timedOut \in BOOLEAN, UpstreamError(r, timedOut)
  PROVE  CoreInv'
PROOF
  <1> DEFINE q == req[r]
             q1 == [q EXCEPT !.lastErr = TRUE]
             q2 == AfterError(q1, timedOut)
             a == [target |-> q.target, attempt |-> q.attempt, late |-> q.late,
                   outcome |-> IF timedOut THEN "timeout" ELSE "error"]
  <1>1. q \in RequestType /\ RouteInv(q) /\ q.pc = "upstream" /\ TypeInv
    BY DEF CoreInv, TypeInv, UpstreamError, At
  <1>2. q1 \in RequestType /\ q1.pc = "upstream"
    BY <1>1 DEF RequestType
  <1>3. RouteInv(q1)
    BY <1>1 DEF RequestType, RouteInv, StageOf, Routed, InRange
  <1>4. a \in AttemptType
    BY <1>1 DEF RequestType, AttemptType, Outcomes
  <1>5. Set(r, q2) /\ tried' = [tried EXCEPT ![r] = Append(@, a)]
        /\ UNCHANGED <<config, reload, call>>
    BY DEF UpstreamError, Tried, queueVars
  <1> HIDE DEF q1, a
  <1>6. q2 \in RequestType /\ RouteInv(q2) /\ q2.pc # "admit"
    BY <1>2, <1>3, AfterErrorRoute
  <1>7. tried' \in [Requests -> Seq(AttemptType)]
    BY <1>1, <1>4, <1>5, TriedType
  <1> QED
    BY <1>1, <1>5, <1>6, <1>7, StepMove

LEMMA CoreUpstreamAnswer ==
  ASSUME CoreInv, NEW r \in Requests, NEW class \in StatusClasses, NEW sse \in BOOLEAN,
         UpstreamRetry(r, class) \/ Commit(r, class, sse)
  PROVE  CoreInv'
PROOF
  <1> DEFINE q == req[r]
             a == [target |-> q.target, attempt |-> q.attempt, late |-> q.late,
                   outcome |-> class]
  <1>1. q \in RequestType /\ RouteInv(q) /\ q.pc = "upstream" /\ TypeInv
        /\ q.stage = "provider"
    BY DEF CoreInv, TypeInv, UpstreamRetry, Commit, At, RouteInv, StageOf
  <1>2. a \in AttemptType
    BY <1>1 DEF RequestType, AttemptType, Outcomes
  <1>3. tried' = [tried EXCEPT ![r] = Append(@, a)] /\ UNCHANGED <<config, reload, call>>
    BY DEF UpstreamRetry, Commit, Tried, queueVars
  <1> HIDE DEF a
  <1>4. tried' \in [Requests -> Seq(AttemptType)]
    BY <1>1, <1>2, <1>3, TriedType
  <1>5. CASE UpstreamRetry(r, class)
    <2>1. CASE ShouldRetrySame(r, class)
      <3> DEFINE q2 == [q EXCEPT !.pc = "backoff"]
      <3>1. q2 \in RequestType /\ q2.pc = "backoff"
        BY <1>1 DEF RequestType, Places
      <3>2. RouteInv(q2)
        BY <1>1, <2>1 DEF RequestType, RouteInv, StageOf, Routed, InRange, ShouldRetrySame
      <3>3. Set(r, q2)
        BY <1>5, <2>1 DEF UpstreamRetry
      <3> QED
        BY <1>1, <1>3, <1>4, <3>1, <3>2, <3>3, StepMove
    <2>2. CASE ~ShouldRetrySame(r, class)
      <3>1. Set(r, NextTarget(q))
        BY <1>5, <2>2 DEF UpstreamRetry
      <3>2. NextTarget(q) \in RequestType /\ RouteInv(NextTarget(q))
            /\ NextTarget(q).pc # "admit"
        BY <1>1, NextTargetRoute
      <3> QED
        BY <1>1, <1>3, <1>4, <3>1, <3>2, StepMove
    <2> QED
      BY <2>1, <2>2
  <1>6. CASE Commit(r, class, sse)
    <2> DEFINE q2 == [q EXCEPT !.pc = "stream", !.answer = class, !.completed = TRUE,
                               !.sse = sse]
    <2>1. q2 \in RequestType /\ q2.pc = "stream"
      BY <1>1 DEF RequestType, Places, Answers
    <2>2. RouteInv(q2)
      BY <1>1 DEF RequestType, RouteInv, StageOf, Routed, InRange
    <2>3. Set(r, q2)
      BY <1>6 DEF Commit
    <2> QED
      BY <1>1, <1>3, <1>4, <2>1, <2>2, <2>3, StepMove
  <1> QED
    BY <1>5, <1>6

(* Steps that change where the stream stands, or how ctx does. *)
LEMMA CoreStays ==
  ASSUME CoreInv, NEW r \in Requests,
         \/ ClientStalls(r) \/ ClientResumes(r)
         \/ \E why \in ContextEnds : EndContext(r, why)
  PROVE  CoreInv'
PROOF
  <1> DEFINE q == req[r]
  <1>1. q \in RequestType /\ RouteInv(q)
    BY DEF CoreInv, TypeInv
  <1>2. UNCHANGED <<tried, config, reload, call>>
        /\ tried' \in [Requests -> Seq(AttemptType)]
    BY DEF ClientStalls, ClientResumes, EndContext, queueVars, CoreInv, TypeInv
  <1>3. CASE ClientStalls(r) \/ ClientResumes(r)
    <2>1. PICK pc \in {"stream", "stalled"} : Set(r, [q EXCEPT !.pc = pc])
      BY <1>3 DEF ClientStalls, ClientResumes
    <2> DEFINE q2 == [q EXCEPT !.pc = pc]
    <2>2. q.pc \in {"stream", "stalled"}
      BY <1>3 DEF ClientStalls, ClientResumes, At
    <2>3. q2 \in RequestType /\ q2.pc = pc
      BY <1>1 DEF RequestType, Places
    <2>4. RouteInv(q2)
      BY <1>1, <2>2 DEF RequestType, RouteInv, StageOf, Routed, InRange
    <2> QED
      BY <1>2, <2>1, <2>2, <2>3, <2>4, StepMove
  <1>4. ASSUME NEW why \in ContextEnds, EndContext(r, why)
        PROVE  CoreInv'
    <2> DEFINE q2 == [q EXCEPT !.ctx = why]
    <2>1. q2 \in RequestType /\ q2.pc = q.pc
      BY <1>1, BoundsAssumption DEF RequestType
    <2>2. RouteInv(q2)
      BY <1>1 DEF RequestType, RouteInv, StageOf, Routed, InRange
    <2>3. Set(r, q2)
      BY <1>4 DEF EndContext
    <2> QED
      BY <1>2, <2>1, <2>2, <2>3, StepMove
  <1> QED
    BY <1>3, <1>4

(* Steps of nobody in particular, and the release of a lease. *)
LEMMA CoreElsewhere ==
  ASSUME CoreInv, UNCHANGED <<req, tried, call>>,
         config' \in DOMAIN Configs, reload' \in {"none", "queue", "limits"}
  PROVE  CoreInv'
PROOF
  BY DEF CoreInv, TypeInv

LEMMA CoreInductive == CoreInv /\ [Next]_vars => CoreInv'
PROOF
  <1> SUFFICES ASSUME CoreInv, [Next]_vars PROVE CoreInv'
    OBVIOUS
  <1>1. ASSUME NEW r \in Requests, Handle(r)
        PROVE  CoreInv'
    <2>1. CASE Unwind(r)
      BY <2>1, CoreElsewhere DEF Unwind, queueVars, CoreInv, TypeInv
    <2>2. EventStream \subseteq BOOLEAN
      BY BoundsAssumption
    <2> QED
      BY <1>1, <2>1, <2>2, CoreArrive, CoreWait, CoreGranted, CoreDenied, CoreLeaves,
         CoreReadBody, CoreResolve, CorePrepare, CoreStartTarget, CoreUpstreamError,
         CoreUpstreamAnswer, CoreBackoff, CoreStays
      DEF Handle, Admission
  <1>2. CASE ReloadConfig
    <2>1. config' \in DOMAIN Configs
      BY <1>2, ConfigsAssumption DEF ReloadConfig, CoreInv, TypeInv
    <2> QED
      BY <1>2, <2>1, CoreElsewhere DEF ReloadConfig, queueVars
  <1>3. CASE ReloadQueue
    BY <1>3, CoreElsewhere DEF ReloadQueue, Queue!SetMax, CoreInv, TypeInv
  <1>4. CASE ReloadLimits
    BY <1>4, CoreElsewhere DEF ReloadLimits, queueVars, CoreInv, TypeInv
  <1>5. CASE Tick
    BY <1>5, CoreElsewhere DEF Tick, queueVars, CoreInv, TypeInv
  <1>6. CASE Rest \/ UNCHANGED vars
    BY <1>6, CoreElsewhere DEF Rest, vars, queueVars, CoreInv, TypeInv
  <1> QED
    BY <1>1, <1>2, <1>3, <1>4, <1>5, <1>6 DEF Next

LEMMA CoreInit == Init => CoreInv
PROOF
  <1> SUFFICES ASSUME Init PROVE CoreInv
    OBVIOUS
  <1>1. 1 \in DOMAIN Configs
    BY ConfigsAssumption
  <1>2. [limits |-> NoLimits, targets |-> << >>, retries |-> 0] \in ModelType
    BY NoLimitsType DEF ModelType
  <1>3. NoRequest \in RequestType
    BY <1>1, <1>2 DEF NoRequest, RequestType, Places, Stages, Answers
  <1>4. Queue!Idle \in CallType /\ CallInv(NoRequest, Queue!Idle)
    BY DEF Queue!Idle, CallType, CallInv, NoRequest
  <1>5. RouteInv(NoRequest)
    BY DEF NoRequest, RouteInv, StageOf, InRange
  <1>6. TypeInv
    BY <1>1, <1>3, <1>4 DEF Init, TypeInv
  <1> QED
    BY <1>4, <1>5, <1>6 DEF Init, CoreInv

LEMMA CoreAlways == Spec => []CoreInv
PROOF
  BY CoreInit, CoreInductive, PTL DEF Spec

-----------------------------------------------------------------------------
(* The components, used as they are meant to be. *)

(* What a request asks to be admitted through is a call of some             *)
(* configuration.                                                           *)
LEMMA ScopesAreCalls ==
  ASSUME CoreInv, NEW r \in Requests, req[r].pc = "admit"
  PROVE  Scopes(r) \in AllCalls
PROOF
  <1> DEFINE q == req[r]
             i == q.cfg
             cfg == Configs[i]
  <1>1. q \in RequestType /\ RouteInv(q) /\ i \in DOMAIN Configs /\ q.pc = "admit"
    BY DEF CoreInv, TypeInv, RequestType
  <1>2. q.client \in Clients
    BY <1>1 DEF RouteInv, StageOf
  <1>3. CASE q.stage = "ingress"
    <2>1. Scopes(r) = IngressCall(cfg, q.client)
      BY <1>3 DEF Scopes, Cfg
    <2> QED
      BY <1>1, <1>2, <2>1 DEF AllCalls
  <1>4. CASE q.stage = "model"
    <2>1. Scopes(r) = ModelCall(q.alias, q.model.limits)
      BY <1>4 DEF Scopes
    <2>2. \/ q.alias \in DOMAIN cfg.models /\ q.model = cfg.models[q.alias]
          \/ q.alias \in Aliases \ DOMAIN cfg.models /\ q.model.limits = NoLimits
      BY <1>1, <1>4 DEF RouteInv, Routed
    <2> QED
      BY <1>1, <2>1, <2>2 DEF AllCalls
  <1>5. CASE q.stage = "provider"
    <2>1. Scopes(r) = ProviderCall(cfg, q.model.targets[q.target])
      BY <1>5 DEF Scopes, Cfg, ProviderOf, Targets
    <2>2. q.model.targets[q.target] \in DOMAIN cfg.providers
      BY <1>1, <1>5 DEF RouteInv, Routed, InRange
    <2> QED
      BY <1>1, <2>1, <2>2 DEF AllCalls
  <1> QED
    BY <1>1, <1>3, <1>4, <1>5 DEF RequestType, Stages

LEMMA LimitsStep == CoreInv /\ [Next]_vars => [Limits!Next]_(Limits!vars)
PROOF
  <1> SUFFICES ASSUME CoreInv, [Next]_vars PROVE [Limits!Next]_(Limits!vars)
    OBVIOUS
  <1>1. ASSUME NEW r \in Requests, Handle(r)
        PROVE  [Limits!Next]_(Limits!vars)
    <2>1. ASSUME NEW s \in Stages, Limits!Release(<<r, s>>)
          PROVE  Limits!Next
      <3>1. <<r, s>> \in Requests \X Stages
        OBVIOUS
      <3> QED
        BY <2>1, <3>1 DEF Limits!Next
    <2>2. CASE Try(r) \/ PollAgain(r)
      <3>1. req[r].pc = "admit"
        BY <2>2 DEF Try, PollAgain, Queue!TryFirst, Queue!Poll, CoreInv, CallInv
      <3>2. Scopes(r) \in AllCalls
        BY <3>1, ScopesAreCalls
      <3>3. <<r, req[r].stage>> \in Requests \X Stages
        BY DEF CoreInv, TypeInv, RequestType
      <3>4. Limits!Admit(<<r, req[r].stage>>, Scopes(r)) \/ Limits!Refuse(Scopes(r))
        BY <2>2 DEF Try, PollAgain
      <3> QED
        BY <3>2, <3>3, <3>4 DEF Limits!Next
    <2>3. CASE \/ \E timedOut \in BOOLEAN : UpstreamError(r, timedOut)
               \/ \E class \in StatusClasses : UpstreamRetry(r, class)
      <3>1. Limits!Release(<<r, "provider">>) /\ "provider" \in Stages
        BY <2>3 DEF UpstreamError, UpstreamRetry, ReleaseProvider, Stages
      <3> QED
        BY <2>1, <3>1
    <2>4. CASE Unwind(r)
      <3>1. Limits!Release(<<r, Innermost(Held(r))>>) /\ Innermost(Held(r)) \in Stages
        BY <2>4 DEF Unwind, Innermost, Stages
      <3> QED
        BY <2>1, <3>1
    <2>5. CASE UNCHANGED limitVars
      BY <2>5 DEF limitVars, Limits!vars
    <2> QED
      BY <1>1, <2>2, <2>3, <2>4, <2>5
      DEF Handle, Admission, Arrive, EnterQueue, LeaveQueue, Granted, Denied,
          GiveUpWaiting, BadBody, ReadBody, Resolve, Prepare, StartTarget, Commit,
          BackoffOver, BackoffCut, Fail, StreamEnds, ClientStalls, ClientResumes,
          WriteFails, Finish, EndContext
  <1>2. CASE ReloadLimits \/ Tick
    BY <1>2 DEF ReloadLimits, Tick, Limits!Next
  <1>3. CASE UNCHANGED limitVars
    BY <1>3 DEF limitVars, Limits!vars
  <1> QED
    BY <1>1, <1>2, <1>3 DEF Next, ReloadConfig, ReloadQueue, Rest, vars

(***************************************************************************)
(* Whatever the requests and the reloads do, the limits only ever see      *)
(* admissions that some configuration asks for and releases of leases that *)
(* are held: the gateway implements LimitStore.                            *)
(***************************************************************************)
THEOREM GatewayUsesLimits == Spec => ImplementsLimits
PROOF
  <1>1. Init => Limits!Init
    BY DEF Init
  <1> QED
    BY <1>1, CoreAlways, LimitsStep, PTL DEF Spec, ImplementsLimits, Limits!Spec

LEMMA QueueStep == CoreInv /\ [Next]_vars => [Queue!QNext]_(Queue!qvars)
PROOF
  <1> SUFFICES ASSUME CoreInv, [Next]_vars PROVE [Queue!QNext]_(Queue!qvars)
    OBVIOUS
  <1>1. ASSUME NEW r \in Requests, Handle(r)
        PROVE  [Queue!QNext]_(Queue!qvars)
    <2>1. CASE Queue!Call(r) \/ Queue!Return(r)
      BY <2>1 DEF Queue!QNext
    <2>2. CASE Try(r) \/ PollAgain(r)
      <3>1. \E ok \in BOOLEAN : Queue!TryFirst(r, ok) \/ Queue!Poll(r, ok)
        BY <2>2 DEF Try, PollAgain
      <3> QED
        BY <3>1 DEF Queue!QNext, Queue!Wait
    <2>3. CASE EnterQueue(r) \/ LeaveQueue(r) \/ GiveUpWaiting(r)
      BY <2>3 DEF EnterQueue, LeaveQueue, GiveUpWaiting, Queue!QNext, Queue!Wait
    <2>4. CASE UNCHANGED queueVars
      BY <2>4 DEF queueVars, Queue!qvars
    <2> QED
      BY <1>1, <2>1, <2>2, <2>3, <2>4
      DEF Handle, Admission, Arrive, Ask, Granted, Denied, BadBody, ReadBody, Resolve,
          Prepare, StartTarget, UpstreamError, UpstreamRetry, Commit, BackoffOver,
          BackoffCut, Fail, StreamEnds, ClientStalls, ClientResumes, WriteFails,
          Unwind, Finish, EndContext
  <1>2. CASE ReloadQueue
    <2>1. Configs[config].queue \in {Configs[i].queue : i \in DOMAIN Configs}
      BY DEF CoreInv, TypeInv
    <2> QED
      BY <1>2, <2>1 DEF ReloadQueue, Queue!QNext
  <1>3. CASE UNCHANGED queueVars
    BY <1>3 DEF queueVars, Queue!qvars
  <1> QED
    BY <1>1, <1>2, <1>3 DEF Next, ReloadConfig, ReloadLimits, Tick, Rest, vars

(***************************************************************************)
(* ... and RequestQueue: a request is in one call of wait at a time and    *)
(* leaves every queue it entered.                                          *)
(***************************************************************************)
THEOREM GatewayUsesQueue == Spec => ImplementsQueue
PROOF
  <1>1. Init => Queue!QInit
    <2>1. 1 \in DOMAIN Configs
      BY ConfigsAssumption
    <2> QED
      BY <2>1 DEF Init, Queue!QInit
  <1> QED
    BY <1>1, CoreAlways, QueueStep, PTL DEF Spec, ImplementsQueue, Queue!QSpec

-----------------------------------------------------------------------------
(* Layer 2, proved. *)

(* What an attempt more makes of a history. *)
LEMMA Appended ==
  ASSUME NEW t \in Seq(AttemptType), NEW a \in AttemptType
  PROVE  LET t2 == Append(t, a) IN
         /\ t2 \in Seq(AttemptType) /\ t2 # << >>
         /\ Len(t) \in Nat /\ Len(t2) = Len(t) + 1
         /\ t2[Len(t2)] = a /\ \A i \in 1 .. Len(t) : t2[i] = t[i]
         /\ TriedTargets(t2) = TriedTargets(t) \cup {a.target}
PROOF
  <1> DEFINE t2 == Append(t, a)
  <1>1. /\ t2 \in Seq(AttemptType) /\ t2 # << >>
        /\ Len(t) \in Nat /\ Len(t2) = Len(t) + 1
        /\ t2[Len(t2)] = a /\ \A i \in 1 .. Len(t) : t2[i] = t[i]
    OBVIOUS
  <1>2. DOMAIN t = 1 .. Len(t) /\ DOMAIN t2 = 1 .. Len(t2)
    OBVIOUS
  <1> HIDE DEF t2
  <1>3. DOMAIN t2 = DOMAIN t \cup {Len(t2)} /\ \A i \in DOMAIN t : t2[i] = t[i]
    BY <1>1, <1>2
  <1>4. TriedTargets(t2) = TriedTargets(t) \cup {a.target}
    BY <1>1, <1>3 DEF TriedTargets
  <1> QED
    BY <1>1, <1>4 DEF t2

(* The attempt that was due is made: the policy still holds, and every      *)
(* target up to this one has been considered.                               *)
LEMMA OrderAppended ==
  ASSUME NEW q \in RequestType, NEW t \in Seq(AttemptType), NEW a \in AttemptType,
         OrderInv(q, t), Pending(q), a.target = q.target, a.attempt = q.attempt
  PROVE  LET t2 == Append(t, a) IN
         /\ t2[1].target = 1 /\ t2[1].attempt = 0
         /\ \A i \in 1 .. Len(t2) - 1 :
              Follows(t2[i], t2[i + 1].target, t2[i + 1].attempt, q.model.retries)
         /\ TriedTargets(t2) = 1 .. q.target
PROOF
  <1> DEFINE t2 == Append(t, a)
  <1>1. /\ t2 \in Seq(AttemptType) /\ t2 # << >>
        /\ Len(t) \in Nat /\ Len(t2) = Len(t) + 1
        /\ t2[Len(t2)] = a /\ \A i \in 1 .. Len(t) : t2[i] = t[i]
        /\ TriedTargets(t2) = TriedTargets(t) \cup {a.target}
    BY Appended
  <1> HIDE DEF t2
  <1>2. IsNext(t, a.target, a.attempt, q.model.retries)
        /\ TriedTargets(t) \cup {a.target} = 1 .. q.target
    BY DEF OrderInv
  <1>3. t2[1].target = 1 /\ t2[1].attempt = 0
    <2>1. CASE t = << >>
      BY <1>1, <1>2, <2>1 DEF IsNext
    <2>2. CASE t # << >>
      <3>1. 1 \in 1 .. Len(t) /\ t[1].target = 1 /\ t[1].attempt = 0
        BY <2>2 DEF OrderInv
      <3> QED
        BY <1>1, <3>1
    <2> QED
      BY <2>1, <2>2
  <1>4. ASSUME NEW i \in 1 .. Len(t2) - 1
        PROVE  Follows(t2[i], t2[i + 1].target, t2[i + 1].attempt, q.model.retries)
    <2>1. CASE i = Len(t)
      <3>1. t # << >> /\ t2[i] = t[Len(t)] /\ t2[i + 1] = a
        BY <1>1, <2>1
      <3> QED
        BY <1>2, <3>1 DEF IsNext
    <2>2. CASE i # Len(t)
      <3>1. i \in 1 .. Len(t) - 1 /\ t2[i] = t[i] /\ t2[i + 1] = t[i + 1]
        BY <1>1, <2>2
      <3> QED
        BY <3>1 DEF OrderInv
    <2> QED
      BY <2>1, <2>2
  <1> QED
    BY <1>1, <1>2, <1>3, <1>4 DEF t2

LEMMA StoryMove ==
  ASSUME CoreInv, StoryInv, NEW r \in Requests, NEW q2, NEW t2,
         Set(r, q2), tried' = [tried EXCEPT ![r] = t2], Story(q2, t2)
  PROVE  StoryInv'
PROOF
  <1> SUFFICES ASSUME NEW s \in Requests PROVE Story(req'[s], tried'[s])
    BY DEF StoryInv
  <1>1. CASE s = r
    BY <1>1 DEF CoreInv, TypeInv, Set
  <1>2. CASE s # r
    <2>1. req'[s] = req[s] /\ tried'[s] = tried[s]
      BY <1>2 DEF CoreInv, TypeInv, Set
    <2> QED
      BY <2>1 DEF StoryInv
  <1> QED
    BY <1>1, <1>2

(* ... without an attempt *)
LEMMA StoryStep ==
  ASSUME CoreInv, StoryInv, NEW r \in Requests, NEW q2,
         Set(r, q2), UNCHANGED tried, Story(q2, tried[r])
  PROVE  StoryInv'
PROOF
  <1>1. tried' = [tried EXCEPT ![r] = tried[r]]
    BY DEF CoreInv, TypeInv
  <1> QED
    BY <1>1, StoryMove

(* Before the first attempt there is little to tell. *)
LEMMA StoryBefore ==
  ASSUME NEW q \in RequestType, NEW q2 \in RequestType, Story(q, << >>),
         q.answer = "none", q2.answer = "none", q2.recorded = q.recorded,
         q2.completed = q.completed, ~Pending(q2),
         q2.pc \notin {"fail", "backoff", "stream", "stalled", "unwind", "done"}
  PROVE  Story(q2, << >>)
PROOF
  <1>1. OrderInv(q2, << >>)
    BY DEF Story, OrderInv, Pending
  <1>2. LateInv(q2, << >>)
    BY DEF LateInv, Pending
  <1>3. ReplyInv(q2)
    BY DEF Story, ReplyInv, StatusClasses
  <1>4. CauseInv(q2, << >>)
    BY DEF CauseInv, StatusClasses
  <1> QED
    BY <1>1, <1>2, <1>3, <1>4 DEF Story

(* An attempt is over; what the three ways to go on have in common. *)
LEMMA AttemptOver ==
  ASSUME NEW q \in RequestType, NEW q2 \in RequestType, NEW t \in Seq(AttemptType),
         NEW a \in AttemptType, Story(q, t), Pending(q), q.pc \in {"admit", "upstream"},
         a.target = q.target, a.attempt = q.attempt,
         q2.pc \in {"target", "backoff", "fail"}, q2.stage = "provider",
         q2.model = q.model, q2.answer = q.answer, q2.recorded = q.recorded,
         q2.completed = q.completed, a.late => q2.pc = "fail",
         LET t2 == Append(t, a) IN
         /\ Pending(q2) => /\ IsNext(t2, q2.target, q2.attempt, q2.model.retries)
                           /\ TriedTargets(t2) \cup {q2.target} = 1 .. q2.target
         /\ q2.pc = "backoff" => /\ IsNext(t2, q2.target, q2.attempt + 1, q2.model.retries)
                                 /\ TriedTargets(t2) = 1 .. q2.target
         /\ q2.pc = "fail" /\ q2.ctx = "live" => Exhausted(q2, t2)
  PROVE  Story(q2, Append(t, a))
PROOF
  <1> DEFINE t2 == Append(t, a)
  <1>1. /\ t2 # << >> /\ Len(t) \in Nat /\ Len(t2) = Len(t) + 1
        /\ t2[Len(t2)] = a /\ \A i \in 1 .. Len(t) : t2[i] = t[i]
        /\ DOMAIN t = 1 .. Len(t) /\ DOMAIN t2 = 1 .. Len(t2)
    BY Appended
  <1>2. /\ t2[1].target = 1 /\ t2[1].attempt = 0
        /\ \A i \in 1 .. Len(t2) - 1 :
             Follows(t2[i], t2[i + 1].target, t2[i + 1].attempt, q.model.retries)
    BY OrderAppended DEF Story
  <1> HIDE DEF t2
  <1>3. OrderInv(q2, t2)
    BY <1>2 DEF OrderInv, t2
  <1>4. LateInv(q2, t2)
    <2>1. \A i \in 1 .. Len(t) : ~t[i].late
      BY <1>1 DEF Story, LateInv
    <2>2. ASSUME NEW i \in DOMAIN t2, t2[i].late
          PROVE  i = Len(t2) /\ q2.pc = "fail"
      BY <1>1, <2>1, <2>2
    <2> QED
      BY <2>2 DEF LateInv
  <1>5. q.answer = "none"
    BY DEF Story, ReplyInv
  <1>6. ReplyInv(q2)
    BY <1>5 DEF Story, ReplyInv, StatusClasses
  <1>7. CauseInv(q2, t2)
    BY <1>5 DEF CauseInv, StatusClasses
  <1> QED
    BY <1>3, <1>4, <1>6, <1>7 DEF Story, t2

LEMMA NextTargetStory ==
  ASSUME NEW q \in RequestType, NEW t \in Seq(AttemptType), NEW a \in AttemptType,
         RouteInv(q), Story(q, t), q.stage = "provider", q.pc \in {"admit", "upstream"},
         a.target = q.target, a.attempt = q.attempt, ~a.late,
         ~(a.outcome \in {"error", "failing"} /\ a.attempt < q.model.retries)
  PROVE  Story(NextTarget(q), Append(t, a))
PROOF
  <1> DEFINE q2 == NextTarget(q)
             t2 == Append(t, a)
  <1>1. Pending(q)
    BY DEF Pending
  <1>2. /\ t2 # << >> /\ t2[Len(t2)] = a /\ TriedTargets(t2) = 1 .. q.target
    BY <1>1, Appended, OrderAppended DEF Story
  <1>3. q.target \in Nat /\ q.target <= Len(q.model.targets)
        /\ Len(q.model.targets) \in Nat
    BY DEF RouteInv, InRange, RequestType, ModelType
  <1>4. q2 \in RequestType /\ q2.pc \in {"target", "fail"}
    BY NextTargetRoute
  <1>5. q2.stage = "provider" /\ q2.model = q.model /\ q2.answer = q.answer
        /\ q2.recorded = q.recorded /\ q2.completed = q.completed
    BY DEF NextTarget, RequestType
  <1>6. CASE q.target < Len(q.model.targets)
    <2>1. q2.pc = "target" /\ q2.target = q.target + 1 /\ q2.attempt = 0
      BY <1>6 DEF NextTarget, RequestType
    <2> HIDE DEF q2, t2
    <2>2. IsNext(t2, q2.target, q2.attempt, q2.model.retries)
      BY <1>2, <1>5, <2>1 DEF IsNext, Follows
    <2>3. TriedTargets(t2) \cup {q2.target} = 1 .. q2.target
      BY <1>2, <1>3, <2>1
    <2> QED
      BY <1>1, <1>4, <1>5, <2>1, <2>2, <2>3, AttemptOver DEF q2, t2
  <1>7. CASE ~(q.target < Len(q.model.targets))
    <2>1. q2.pc = "fail" /\ q2.target = q.target
      BY <1>7 DEF NextTarget, RequestType
    <2> HIDE DEF q2, t2
    <2>2. Exhausted(q2, t2)
      BY <1>2, <1>3, <1>5, <1>7, <2>1 DEF Exhausted
    <2>3. ~Pending(q2)
      BY <2>1 DEF Pending
    <2> QED
      BY <1>1, <1>4, <1>5, <2>1, <2>2, <2>3, AttemptOver DEF q2, t2
  <1> QED
    BY <1>6, <1>7

LEMMA BackoffStory ==
  ASSUME NEW q \in RequestType, NEW t \in Seq(AttemptType), NEW a \in AttemptType,
         RouteInv(q), Story(q, t), q.pc = "upstream",
         a.target = q.target, a.attempt = q.attempt, ~a.late,
         a.outcome \in {"error", "failing"}, q.attempt < q.model.retries
  PROVE  Story([q EXCEPT !.pc = "backoff"], Append(t, a))
PROOF
  <1> DEFINE q2 == [q EXCEPT !.pc = "backoff"]
             t2 == Append(t, a)
  <1>1. Pending(q) /\ q.stage = "provider"
    BY DEF Pending, RouteInv, StageOf
  <1>2. /\ t2 # << >> /\ t2[Len(t2)] = a /\ TriedTargets(t2) = 1 .. q.target
    BY <1>1, Appended, OrderAppended DEF Story
  <1>3. q2 \in RequestType /\ q2.pc = "backoff" /\ q2.target = q.target
        /\ q2.attempt = q.attempt
    BY DEF RequestType, Places
  <1>4. q2.stage = "provider" /\ q2.model = q.model /\ q2.answer = q.answer
        /\ q2.recorded = q.recorded /\ q2.completed = q.completed
    BY <1>1 DEF RequestType
  <1> HIDE DEF q2, t2
  <1>5. IsNext(t2, q2.target, q2.attempt + 1, q2.model.retries)
    BY <1>2, <1>3, <1>4 DEF IsNext, Follows
  <1>6. ~Pending(q2)
    BY <1>3 DEF Pending
  <1> QED
    BY <1>1, <1>2, <1>3, <1>4, <1>5, <1>6, AttemptOver DEF q2, t2

LEMMA GiveUpStory ==
  ASSUME NEW q \in RequestType, NEW t \in Seq(AttemptType), NEW a \in AttemptType,
         RouteInv(q), Story(q, t), q.pc = "upstream", q.ctx # "live",
         a.target = q.target, a.attempt = q.attempt
  PROVE  Story([q EXCEPT !.pc = "fail"], Append(t, a))
PROOF
  <1> DEFINE q2 == [q EXCEPT !.pc = "fail"]
  <1>1. Pending(q) /\ q.stage = "provider"
    BY DEF Pending, RouteInv, StageOf
  <1>2. q2 \in RequestType /\ q2.pc = "fail" /\ q2.ctx # "live"
    BY DEF RequestType, Places
  <1>3. q2.stage = "provider" /\ q2.model = q.model /\ q2.answer = q.answer
        /\ q2.recorded = q.recorded /\ q2.completed = q.completed
    BY <1>1 DEF RequestType
  <1> HIDE DEF q2
  <1>4. ~Pending(q2)
    BY <1>2 DEF Pending
  <1> QED
    BY <1>1, <1>2, <1>3, <1>4, AttemptOver DEF q2

LEMMA StoryUpstreamError ==
  ASSUME CoreInv, StoryInv, NEW r \in Requests, NEW timedOut \in BOOLEAN,
         UpstreamError(r, timedOut)
  PROVE  StoryInv'
PROOF
  <1> DEFINE q == req[r]
             t == tried[r]
             q1 == [q EXCEPT !.lastErr = TRUE]
             a == [target |-> q.target, attempt |-> q.attempt, late |-> q.late,
                   outcome |-> IF timedOut THEN "timeout" ELSE "error"]
  <1>1. q \in RequestType /\ RouteInv(q) /\ q.pc = "upstream" /\ Story(q, t)
        /\ t \in Seq(AttemptType)
    BY DEF CoreInv, TypeInv, UpstreamError, At, StoryInv
  <1>2. q1 \in RequestType /\ q1.pc = "upstream" /\ q1.ctx = q.ctx
        /\ q1.target = q.target /\ q1.attempt = q.attempt /\ q1.model = q.model
    BY <1>1 DEF RequestType
  <1>3. RouteInv(q1) /\ q1.stage = "provider"
    BY <1>1 DEF RequestType, RouteInv, StageOf, Routed, InRange
  <1>4. Story(q1, t)
    BY <1>1 DEF RequestType, Story, OrderInv, LateInv, ReplyInv, CauseInv, Pending, Exhausted
  <1>5. a \in AttemptType /\ a.target = q.target /\ a.attempt = q.attempt
        /\ (a.outcome = IF timedOut THEN "timeout" ELSE "error")
    BY <1>1 DEF RequestType, AttemptType, Outcomes
  <1>6. q.ctx = "live" => ~a.late
    BY <1>1 DEF Story, LateInv
  <1>7. Set(r, AfterError(q1, timedOut)) /\ tried' = [tried EXCEPT ![r] = Append(t, a)]
    BY DEF UpstreamError, Tried
  <1> HIDE DEF q, t, q1, a
  <1>8. Story(AfterError(q1, timedOut), Append(t, a))
    <2>1. CASE q1.ctx # "live"
      BY <1>1, <1>2, <1>3, <1>4, <1>5, <2>1, GiveUpStory DEF AfterError
    <2>2. CASE q1.ctx = "live" /\ ~timedOut /\ q1.attempt < q1.model.retries
      BY <1>1, <1>2, <1>3, <1>4, <1>5, <1>6, <2>2, BackoffStory DEF AfterError
    <2>3. CASE q1.ctx = "live" /\ (timedOut \/ ~(q1.attempt < q1.model.retries))
      BY <1>1, <1>2, <1>3, <1>4, <1>5, <1>6, <2>3, NextTargetStory DEF AfterError
    <2> QED
      BY <2>1, <2>2, <2>3
  <1> QED
    BY <1>7, <1>8, StoryMove

LEMMA StoryUpstreamRetry ==
  ASSUME CoreInv, StoryInv, NEW r \in Requests, NEW class \in StatusClasses,
         UpstreamRetry(r, class)
  PROVE  StoryInv'
PROOF
  <1> DEFINE q == req[r]
             t == tried[r]
             a == [target |-> q.target, attempt |-> q.attempt, late |-> q.late,
                   outcome |-> class]
  <1>1. q \in RequestType /\ RouteInv(q) /\ q.pc = "upstream" /\ Story(q, t)
        /\ t \in Seq(AttemptType) /\ q.stage = "provider" /\ ~q.late
    BY DEF CoreInv, TypeInv, UpstreamRetry, At, StoryInv, RouteInv, StageOf
  <1>2. a \in AttemptType /\ a.target = q.target /\ a.attempt = q.attempt
        /\ a.outcome = class /\ ~a.late
    BY <1>1 DEF RequestType, AttemptType, Outcomes
  <1>3. tried' = [tried EXCEPT ![r] = Append(t, a)]
    BY DEF UpstreamRetry, Tried
  <1>4. CASE ShouldRetrySame(r, class)
    <2>1. class = "failing" /\ q.attempt < q.model.retries
      BY <1>4 DEF ShouldRetrySame, retryableStatus, StatusClasses
    <2>2. Set(r, [q EXCEPT !.pc = "backoff"])
      BY <1>4 DEF UpstreamRetry
    <2> HIDE DEF q, t, a
    <2> QED
      BY <1>1, <1>2, <1>3, <2>1, <2>2, BackoffStory, StoryMove
  <1>5. CASE ~ShouldRetrySame(r, class)
    <2>1. ~(class \in {"error", "failing"} /\ q.attempt < q.model.retries)
      BY <1>5 DEF ShouldRetrySame, retryableStatus, StatusClasses
    <2>2. Set(r, NextTarget(q))
      BY <1>5 DEF UpstreamRetry
    <2> HIDE DEF q, t, a
    <2> QED
      BY <1>1, <1>2, <1>3, <2>1, <2>2, NextTargetStory, StoryMove
  <1> QED
    BY <1>4, <1>5

LEMMA StoryCommit ==
  ASSUME CoreInv, StoryInv, NEW r \in Requests, NEW class \in StatusClasses,
         NEW sse \in BOOLEAN, Commit(r, class, sse)
  PROVE  StoryInv'
PROOF
  <1> DEFINE q == req[r]
             t == tried[r]
             q2 == [q EXCEPT !.pc = "stream", !.answer = class, !.completed = TRUE,
                             !.sse = sse]
             a == [target |-> q.target, attempt |-> q.attempt, late |-> q.late,
                   outcome |-> class]
             t2 == Append(t, a)
  <1>1. q \in RequestType /\ RouteInv(q) /\ q.pc = "upstream" /\ Story(q, t)
        /\ t \in Seq(AttemptType) /\ q.stage = "provider" /\ ~q.late /\ Pending(q)
    BY DEF CoreInv, TypeInv, Commit, At, StoryInv, RouteInv, StageOf, Pending
  <1>2. a \in AttemptType /\ a.target = q.target /\ a.attempt = q.attempt
        /\ a.outcome = class /\ ~a.late
    BY <1>1 DEF RequestType, AttemptType, Outcomes
  <1>3. Set(r, q2) /\ tried' = [tried EXCEPT ![r] = Append(t, a)]
    BY DEF Commit, Tried
  <1>4. ~ShouldRetrySame(r, class) /\ ~ShouldFailover(r, class)
    BY DEF Commit
  <1>5. q.target \in 1 .. Len(q.model.targets) /\ q.attempt \in 0 .. q.model.retries
        /\ Len(q.model.targets) \in Nat /\ q.model.retries \in Nat
    BY <1>1 DEF RouteInv, InRange, RequestType, ModelType
  <1>6. class # "final" => q.target = Len(q.model.targets)
    BY <1>4, <1>5 DEF ShouldFailover, retryableStatus, Targets
  <1>7. class = "failing" => q.attempt = q.model.retries
    BY <1>4, <1>5 DEF ShouldRetrySame, retryableStatus
  <1>8. q2 \in RequestType /\ q2.pc = "stream" /\ q2.stage = "provider"
        /\ q2.model = q.model /\ q2.answer = class /\ q2.completed
        /\ q2.recorded = q.recorded
    BY <1>1 DEF RequestType, Places, Answers
  <1> HIDE DEF q, q2, a, t
  <1>9. /\ t2 # << >> /\ t2[Len(t2)] = a /\ Len(t) \in Nat /\ Len(t2) = Len(t) + 1
        /\ \A i \in 1 .. Len(t) : t2[i] = t[i]
        /\ DOMAIN t = 1 .. Len(t) /\ DOMAIN t2 = 1 .. Len(t2)
    BY <1>1, <1>2, Appended
  <1>10. /\ t2[1].target = 1 /\ t2[1].attempt = 0
         /\ \A i \in 1 .. Len(t2) - 1 :
              Follows(t2[i], t2[i + 1].target, t2[i + 1].attempt, q.model.retries)
    BY <1>1, <1>2, OrderAppended DEF Story
  <1> HIDE DEF t2
  <1>11. OrderInv(q2, t2)
    BY <1>8, <1>10 DEF OrderInv, Pending
  <1>12. LateInv(q2, t2)
    <2>1. \A i \in 1 .. Len(t) : ~t[i].late
      BY <1>1, <1>9 DEF Story, LateInv
    <2>2. \A i \in DOMAIN t2 : ~t2[i].late
      BY <1>2, <1>9, <2>1
    <2> QED
      BY <1>8, <2>2 DEF LateInv
  <1>13. ReplyInv(q2)
    BY <1>1, <1>8 DEF Story, ReplyInv, StatusClasses
  <1>14. CauseInv(q2, t2)
    BY <1>2, <1>6, <1>7, <1>8, <1>9 DEF CauseInv, StatusClasses
  <1>15. Story(q2, t2)
    BY <1>11, <1>12, <1>13, <1>14 DEF Story
  <1> QED
    BY <1>3, <1>15, StoryMove DEF t2

(* A request is refused before a provider has answered. *)
LEMMA RefusalStory ==
  ASSUME NEW q \in RequestType, NEW t \in Seq(AttemptType), Story(q, t),
         NEW q2 \in RequestType, NEW a \in Refusals, q.answer = "none",
         q2.pc = "unwind", q2.answer = a,
         q2.recorded = IF Accounted(q2) THEN <<a>> ELSE << >>,
         q2.stage = q.stage, q2.model = q.model, q2.completed = q.completed
  PROVE  Story(q2, t)
PROOF
  <1>1. OrderInv(q2, t)
    BY DEF Story, OrderInv, Pending
  <1>2. LateInv(q2, t)
    BY DEF Story, LateInv
  <1>3. ReplyInv(q2)
    BY DEF Story, ReplyInv, StatusClasses, Failures, Refusals
  <1>4. CauseInv(q2, t)
    BY DEF CauseInv, StatusClasses, Refusals
  <1> QED
    BY <1>1, <1>2, <1>3, <1>4 DEF Story

LEMMA StoryRefused ==
  ASSUME CoreInv, StoryInv, NEW r \in Requests, NEW a \in Refusals \ {"busy"},
         Set(r, Reply(req[r], a)), UNCHANGED tried,
         req[r].pc \notin {"stream", "stalled", "unwind", "done"}
  PROVE  StoryInv'
PROOF
  <1> DEFINE q == req[r]
             q2 == Reply(q, a)
  <1>1. q \in RequestType /\ tried[r] \in Seq(AttemptType) /\ Story(q, tried[r])
    BY DEF CoreInv, TypeInv, StoryInv
  <1>2. q.answer = "none" /\ q.recorded = << >>
    BY <1>1 DEF Story, ReplyInv
  <1>3. a \in Answers
    BY DEF Answers
  <1>4. q2 \in RequestType /\ q2.pc = "unwind" /\ q2.answer = a
        /\ q2.recorded = q.recorded /\ SameRoute(q2, q)
    BY <1>1, <1>3, ReplyType
  <1>5. q2.completed = q.completed
    BY <1>1 DEF Reply, RequestType
  <1> HIDE DEF q2
  <1>6. ~Accounted(q2)
    BY <1>4 DEF Accounted, Refusals, StatusClasses
  <1>7. Story(q2, tried[r])
    BY <1>1, <1>2, <1>4, <1>5, <1>6, RefusalStory DEF SameRoute
  <1> QED
    BY <1>7, StoryStep DEF q2

LEMMA StoryArrive ==
  ASSUME CoreInv, StoryInv, NEW r \in Requests, NEW client \in Clients, Arrive(r, client)
  PROVE  StoryInv'
PROOF
  <1> DEFINE q == req[r]
             q2 == [[q EXCEPT !.cfg = config, !.client = client]
                      EXCEPT !.pc = "admit", !.stage = "ingress"]
  <1>1. q \in RequestType /\ RouteInv(q) /\ q.pc = "idle" /\ Story(q, tried[r])
        /\ config \in DOMAIN Configs
    BY DEF CoreInv, TypeInv, StoryInv, Arrive, At
  <1>2. tried[r] = << >> /\ q.answer = "none"
    BY <1>1 DEF Story, OrderInv, ReplyInv, RouteInv, StageOf
  <1>3. q2 \in RequestType /\ q2.pc = "admit" /\ q2.stage = "ingress"
        /\ q2.answer = q.answer /\ q2.recorded = q.recorded /\ q2.completed = q.completed
    BY <1>1 DEF RequestType, Places, Stages
  <1>4. Set(r, q2) /\ UNCHANGED tried
    BY DEF Arrive, Ask
  <1> HIDE DEF q2
  <1>5. Story(q2, tried[r])
    BY <1>1, <1>2, <1>3, StoryBefore DEF Pending
  <1> QED
    BY <1>4, <1>5, StoryStep

LEMMA StoryReadBody ==
  ASSUME CoreInv, StoryInv, NEW r \in Requests, NEW alias \in Aliases, ReadBody(r, alias)
  PROVE  StoryInv'
PROOF
  <1> DEFINE q == req[r]
             cfg == Configs[q.cfg]
  <1>1. q \in RequestType /\ RouteInv(q) /\ q.pc = "body" /\ Story(q, tried[r])
        /\ q.cfg \in DOMAIN Configs
    BY DEF CoreInv, TypeInv, StoryInv, ReadBody, At, RequestType
  <1>2. tried[r] = << >> /\ q.answer = "none" /\ UNCHANGED tried
    BY <1>1 DEF Story, OrderInv, ReplyInv, RouteInv, StageOf, ReadBody
  <1>3. CASE alias \in DOMAIN cfg.models
    <2> DEFINE q2 == [[q EXCEPT !.alias = alias, !.model = cfg.models[alias]]
                        EXCEPT !.pc = "admit", !.stage = "model"]
    <2>1. cfg.models[alias] \in ModelType
      BY <1>1, <1>3, ConfiguredModel
    <2>2. q2 \in RequestType /\ q2.pc = "admit" /\ q2.stage = "model"
          /\ q2.answer = q.answer /\ q2.recorded = q.recorded
          /\ q2.completed = q.completed
      BY <1>1, <2>1 DEF RequestType, Places, Stages
    <2>3. Set(r, q2)
      BY <1>3 DEF ReadBody, Ask, Cfg
    <2> HIDE DEF q2
    <2>4. Story(q2, tried[r])
      BY <1>1, <1>2, <2>2, StoryBefore DEF Pending
    <2> QED
      BY <1>2, <2>3, <2>4, StoryStep
  <1>4. CASE alias \notin DOMAIN cfg.models
    <2> DEFINE q2 == [q EXCEPT !.pc = "resolve", !.alias = alias]
    <2>1. q2 \in RequestType /\ q2.pc = "resolve" /\ q2.answer = q.answer
          /\ q2.recorded = q.recorded /\ q2.completed = q.completed
      BY <1>1 DEF RequestType, Places
    <2>2. Set(r, q2)
      BY <1>4 DEF ReadBody, Cfg
    <2> HIDE DEF q2
    <2>3. Story(q2, tried[r])
      BY <1>1, <1>2, <2>1, StoryBefore DEF Pending
    <2> QED
      BY <1>2, <2>2, <2>3, StoryStep
  <1> QED
    BY <1>3, <1>4

LEMMA StoryResolve ==
  ASSUME CoreInv, StoryInv, NEW r \in Requests, Resolve(r)
  PROVE  StoryInv'
PROOF
  <1> DEFINE q == req[r]
  <1>1. q \in RequestType /\ RouteInv(q) /\ q.pc = "resolve" /\ Story(q, tried[r])
        /\ q.cfg \in DOMAIN Configs
    BY DEF CoreInv, TypeInv, StoryInv, Resolve, At, RequestType
  <1>2. tried[r] = << >> /\ q.answer = "none" /\ UNCHANGED tried
    BY <1>1 DEF Story, OrderInv, ReplyInv, RouteInv, StageOf, Resolve
  <1>3. ASSUME NEW p \in Discoverable(r),
               Ask(r, [q EXCEPT !.model = DiscoveredModel(p)], "model")
        PROVE  StoryInv'
    <2> DEFINE m == DiscoveredModel(p)
               q2 == [[q EXCEPT !.model = m] EXCEPT !.pc = "admit", !.stage = "model"]
    <2>1. m \in ModelType
      BY <1>1, DiscoveredModelRoute DEF Discoverable, Cfg
    <2>2. Set(r, q2)
      BY <1>3 DEF Ask
    <2> HIDE DEF m
    <2>3. q2 \in RequestType /\ q2.pc = "admit" /\ q2.stage = "model"
          /\ q2.answer = q.answer /\ q2.recorded = q.recorded
          /\ q2.completed = q.completed
      BY <1>1, <2>1 DEF RequestType, Places, Stages
    <2> HIDE DEF q2
    <2>4. Story(q2, tried[r])
      BY <1>1, <1>2, <2>3, StoryBefore DEF Pending
    <2> QED
      BY <1>2, <2>2, <2>4, StoryStep
  <1>4. ASSUME NEW a \in {"noDiscovery", "unknownModel"}, Set(r, Reply(q, a))
        PROVE  StoryInv'
    <2>1. a \in Refusals
      BY DEF Refusals
    <2> QED
      BY <1>1, <1>2, <1>4, <2>1, StoryRefused
  <1> QED
    BY <1>3, <1>4 DEF Resolve

(* An attempt that is due stays due, or begins. *)
LEMMA StillDue ==
  ASSUME NEW q \in RequestType, NEW q2 \in RequestType, NEW t \in Seq(AttemptType),
         Story(q, t), q.pc \notin {"stream", "stalled", "unwind", "done", "fail"},
         Pending(q2), q2.stage = "provider" \/ t = << >>,
         IsNext(t, q2.target, q2.attempt, q2.model.retries),
         TriedTargets(t) \cup {q2.target} = 1 .. q2.target,
         q2.pc = "upstream" /\ q2.late => q2.ctx # "live",
         q2.model = q.model, q2.answer = q.answer, q2.recorded = q.recorded,
         q2.completed = q.completed
  PROVE  Story(q2, t)
PROOF
  <1>1. OrderInv(q2, t)
    BY DEF Story, OrderInv, Pending
  <1>2. LateInv(q2, t)
    BY DEF Story, LateInv
  <1>3. ReplyInv(q2)
    BY DEF Story, ReplyInv, StatusClasses, Pending
  <1>4. CauseInv(q2, t)
    BY DEF Story, CauseInv, ReplyInv, StatusClasses
  <1> QED
    BY <1>1, <1>2, <1>3, <1>4 DEF Story

LEMMA StoryGranted ==
  ASSUME CoreInv, StoryInv, NEW r \in Requests, Granted(r)
  PROVE  StoryInv'
PROOF
  <1> DEFINE q == req[r]
             t == tried[r]
             q2 == CASE q.stage = "ingress" -> [q EXCEPT !.pc = "body"]
                     [] q.stage = "model"   -> [q EXCEPT !.pc = "prompt"]
                     [] OTHER -> [q EXCEPT !.pc = "upstream", !.late = q.ctx # "live"]
  <1>1. q \in RequestType /\ q.pc = "admit" /\ Story(q, t) /\ t \in Seq(AttemptType)
    BY DEF CoreInv, TypeInv, CallInv, StoryInv, Granted, Queue!Return
  <1>2. Set(r, q2) /\ UNCHANGED tried
    BY DEF Granted
  <1>3. q.answer = "none"
    BY <1>1 DEF Story, ReplyInv
  <1> HIDE DEF q, t
  <1>4. CASE q.stage \in {"ingress", "model"}
    <2>1. q2 \in RequestType /\ q2.pc \in {"body", "prompt"} /\ q2.answer = q.answer
          /\ q2.recorded = q.recorded /\ q2.completed = q.completed
      BY <1>1, <1>4 DEF RequestType, Places
    <2>2. t = << >>
      BY <1>1, <1>4 DEF Story, OrderInv
    <2> HIDE DEF q2
    <2>3. Story(q2, t)
      BY <1>1, <1>3, <2>1, <2>2, StoryBefore DEF Pending
    <2> QED
      BY <1>2, <2>3, StoryStep DEF t
  <1>5. CASE q.stage = "provider"
    <2>1. q2 = [q EXCEPT !.pc = "upstream", !.late = q.ctx # "live"]
      BY <1>5
    <2> HIDE DEF q2
    <2>2. /\ q2 \in RequestType /\ q2.pc = "upstream" /\ q2.stage = "provider"
          /\ q2.ctx = q.ctx /\ (q2.late => q2.ctx # "live") /\ q2.target = q.target
          /\ q2.attempt = q.attempt /\ q2.model = q.model /\ q2.answer = q.answer
          /\ q2.recorded = q.recorded /\ q2.completed = q.completed
      BY <1>1, <1>5, <2>1 DEF RequestType, Places
    <2>3. Pending(q) /\ Pending(q2)
      BY <1>1, <1>5, <2>2 DEF Pending
    <2>4. Story(q2, t)
      BY <1>1, <2>2, <2>3, StillDue DEF Story, OrderInv
    <2> QED
      BY <1>2, <2>4, StoryStep DEF t
  <1> QED
    BY <1>1, <1>4, <1>5 DEF RequestType, Stages

LEMMA StoryDenied ==
  ASSUME CoreInv, StoryInv, NEW r \in Requests, Denied(r)
  PROVE  StoryInv'
PROOF
  <1> DEFINE q == req[r]
             t == tried[r]
  <1>1. q \in RequestType /\ RouteInv(q) /\ q.pc = "admit" /\ Story(q, t)
        /\ t \in Seq(AttemptType)
    BY DEF CoreInv, TypeInv, CallInv, StoryInv, Denied, Queue!Return
  <1>2. CASE q.stage = "provider"
    <2> DEFINE q1 == [q EXCEPT !.limited = TRUE]
               a == [target |-> q.target, attempt |-> q.attempt, late |-> FALSE,
                     outcome |-> "refused"]
    <2>1. q1 \in RequestType /\ q1.pc = "admit" /\ q1.stage = "provider"
          /\ q1.target = q.target /\ q1.attempt = q.attempt
      BY <1>1, <1>2 DEF RequestType
    <2>2. RouteInv(q1)
      BY <1>1 DEF RequestType, RouteInv, StageOf, Routed, InRange
    <2>3. Story(q1, t)
      BY <1>1
      DEF RequestType, Story, OrderInv, LateInv, ReplyInv, CauseInv, Pending, Exhausted
    <2>4. a \in AttemptType /\ a.target = q.target /\ a.attempt = q.attempt
          /\ ~a.late /\ a.outcome = "refused"
      BY <1>1 DEF RequestType, AttemptType, Outcomes
    <2>5. Set(r, NextTarget(q1)) /\ tried' = [tried EXCEPT ![r] = Append(t, a)]
      BY <1>2 DEF Denied, IngressRefused, ModelRefused, ProviderRefused
    <2> HIDE DEF q, t, q1, a
    <2>6. Story(NextTarget(q1), Append(t, a))
      BY <1>1, <2>1, <2>2, <2>3, <2>4, NextTargetStory
    <2> QED
      BY <2>5, <2>6, StoryMove
  <1>3. CASE q.stage # "provider"
    <2>1. q.answer = "none" /\ q.recorded = << >> /\ "busy" \in Answers
          /\ "busy" \in Refusals
      BY <1>1 DEF Story, ReplyInv, Answers, Refusals
    <2> DEFINE q1 == IF q.stage = "model" THEN Record(q, "busy") ELSE q
               q2 == Reply(q1, "busy")
    <2>2. /\ q1 \in RequestType /\ SameRoute(q1, q)
          /\ q1.recorded = IF q.stage = "model" THEN <<"busy">> ELSE << >>
      <3>1. Append(<< >>, "busy") = <<"busy">>
        OBVIOUS
      <3>2. Record(q, "busy").recorded = Append(q.recorded, "busy")
            /\ Record(q, "busy") \in RequestType /\ SameRoute(Record(q, "busy"), q)
        BY <1>1, <2>1, RecordType
      <3> QED
        BY <1>1, <2>1, <3>1, <3>2 DEF SameRoute
    <2>3. q1.completed = q.completed
      BY <1>1 DEF Record, RequestType
    <2>4. Set(r, q2) /\ UNCHANGED tried
      BY <1>3 DEF Denied, IngressRefused, ModelRefused, ProviderRefused
    <2> HIDE DEF q, t, q1
    <2>5. /\ q2 \in RequestType /\ q2.pc = "unwind" /\ q2.answer = "busy"
          /\ q2.recorded = q1.recorded /\ SameRoute(q2, q1)
      BY <2>1, <2>2, ReplyType
    <2>6. q2.completed = q1.completed
      BY <2>2 DEF Reply, RequestType
    <2> HIDE DEF q2
    <2>7. q2.recorded = IF Accounted(q2) THEN <<"busy">> ELSE << >>
      BY <2>2, <2>5 DEF SameRoute, Accounted, StatusClasses
    <2>8. Story(q2, t)
      BY <1>1, <2>1, <2>2, <2>3, <2>5, <2>6, <2>7, RefusalStory DEF SameRoute
    <2> QED
      BY <2>4, <2>8, StoryStep DEF t
  <1> QED
    BY <1>2, <1>3

LEMMA StoryPrepare ==
  ASSUME CoreInv, StoryInv, NEW r \in Requests, Prepare(r)
  PROVE  StoryInv'
PROOF
  <1> DEFINE q == req[r]
             t == tried[r]
             q2 == [q EXCEPT !.pc = "target", !.target = 1]
  <1>1. q \in RequestType /\ RouteInv(q) /\ q.pc = "prompt" /\ Story(q, t)
        /\ t \in Seq(AttemptType) /\ UNCHANGED tried
    BY DEF CoreInv, TypeInv, StoryInv, Prepare, At
  <1>2. CASE Set(r, Reply(q, "badRequest"))
    BY <1>1, <1>2, StoryRefused DEF Refusals
  <1>3. CASE Set(r, q2)
    <2>1. t = << >> /\ q.attempt = 0
      BY <1>1 DEF RouteInv, StageOf, InRange, Story, OrderInv
    <2>2. /\ q2 \in RequestType /\ q2.pc = "target" /\ q2.target = 1
          /\ q2.attempt = q.attempt /\ q2.model = q.model /\ q2.answer = q.answer
          /\ q2.recorded = q.recorded /\ q2.completed = q.completed
      BY <1>1 DEF RequestType, Places
    <2> HIDE DEF q, q2, t
    <2>3. Pending(q2) /\ IsNext(t, q2.target, q2.attempt, q2.model.retries)
      BY <2>1, <2>2 DEF Pending, IsNext
    <2>4. TriedTargets(t) = {}
      BY <2>1 DEF TriedTargets
    <2>5. TriedTargets(t) \cup {q2.target} = 1 .. q2.target
      BY <2>2, <2>4
    <2>6. Story(q2, t)
      BY <1>1, <2>1, <2>2, <2>3, <2>5, StillDue
    <2> QED
      BY <1>1, <1>3, <2>6, StoryStep DEF t
  <1> QED
    BY <1>2, <1>3 DEF Prepare

LEMMA StoryStartTarget ==
  ASSUME CoreInv, StoryInv, NEW r \in Requests, StartTarget(r)
  PROVE  StoryInv'
PROOF
  <1> DEFINE q == req[r]
             t == tried[r]
             q2 == [q EXCEPT !.pc = "admit", !.stage = "provider"]
  <1>1. q \in RequestType /\ RouteInv(q) /\ q.pc = "target" /\ Story(q, t)
        /\ t \in Seq(AttemptType) /\ UNCHANGED tried
    BY DEF CoreInv, TypeInv, StoryInv, StartTarget, At
  <1>2. CASE Set(r, Reply(q, "encodeError"))
    BY <1>1, <1>2, StoryRefused DEF Refusals
  <1>3. CASE Set(r, q2)
    <2>1. /\ q2 \in RequestType /\ q2.pc = "admit" /\ q2.stage = "provider"
          /\ q2.target = q.target /\ q2.attempt = q.attempt /\ q2.model = q.model
          /\ q2.answer = q.answer /\ q2.recorded = q.recorded
          /\ q2.completed = q.completed
      BY <1>1 DEF RequestType, Places, Stages
    <2> HIDE DEF q, q2, t
    <2>2. Pending(q) /\ Pending(q2)
      BY <1>1, <2>1 DEF Pending
    <2>3. Story(q2, t)
      BY <1>1, <2>1, <2>2, StillDue DEF Story, OrderInv
    <2> QED
      BY <1>1, <1>3, <2>3, StoryStep DEF t
  <1> QED
    BY <1>2, <1>3 DEF StartTarget, Ask

LEMMA StoryBackoff ==
  ASSUME CoreInv, StoryInv, NEW r \in Requests, BackoffOver(r) \/ BackoffCut(r)
  PROVE  StoryInv'
PROOF
  <1> DEFINE q == req[r]
             t == tried[r]
  <1>1. q \in RequestType /\ RouteInv(q) /\ q.pc = "backoff" /\ q.stage = "provider"
        /\ Story(q, t) /\ t \in Seq(AttemptType) /\ UNCHANGED tried
    BY DEF CoreInv, TypeInv, StoryInv, BackoffOver, BackoffCut, At, RouteInv, StageOf
  <1>2. CASE BackoffOver(r)
    <2> DEFINE q2 == [[q EXCEPT !.attempt = @ + 1]
                        EXCEPT !.pc = "admit", !.stage = "provider"]
    <2>1. q.attempt + 1 \in Nat
      BY <1>1 DEF RequestType
    <2>2. /\ q2 \in RequestType /\ q2.pc = "admit" /\ q2.stage = "provider"
          /\ q2.target = q.target /\ q2.attempt = q.attempt + 1 /\ q2.model = q.model
          /\ q2.answer = q.answer /\ q2.recorded = q.recorded
          /\ q2.completed = q.completed
      BY <1>1, <2>1 DEF RequestType, Places, Stages
    <2>3. Set(r, q2)
      BY <1>2 DEF BackoffOver, Ask
    <2> HIDE DEF q, q2, t
    <2>4. Pending(q2) /\ IsNext(t, q2.target, q2.attempt, q2.model.retries)
          /\ TriedTargets(t) = 1 .. q2.target
      BY <1>1, <2>2 DEF Pending, Story, OrderInv
    <2>5. q2.target \in 1 .. q2.target
      BY <1>1, <2>2 DEF RouteInv, InRange, RequestType
    <2>6. TriedTargets(t) \cup {q2.target} = 1 .. q2.target
      BY <2>4, <2>5
    <2>7. Story(q2, t)
      BY <1>1, <2>2, <2>4, <2>6, StillDue
    <2> QED
      BY <1>1, <2>3, <2>7, StoryStep DEF t
  <1>3. CASE BackoffCut(r)
    <2> DEFINE q2 == [q EXCEPT !.pc = "fail"]
    <2>1. q2 \in RequestType /\ q2.pc = "fail" /\ q2.ctx # "live" /\ q2.stage = q.stage
          /\ q2.model = q.model /\ q2.answer = q.answer /\ q2.recorded = q.recorded
          /\ q2.completed = q.completed
      BY <1>1, <1>3 DEF RequestType, Places, BackoffCut
    <2>2. Set(r, q2)
      BY <1>3 DEF BackoffCut
    <2> HIDE DEF q, q2, t
    <2>3. OrderInv(q2, t)
      BY <1>1, <2>1 DEF Story, OrderInv, Pending
    <2>4. LateInv(q2, t) /\ ReplyInv(q2) /\ CauseInv(q2, t)
      BY <1>1, <2>1 DEF Story, LateInv, ReplyInv, CauseInv, StatusClasses
    <2>5. Story(q2, t)
      BY <2>3, <2>4 DEF Story
    <2> QED
      BY <1>1, <2>2, <2>5, StoryStep DEF t
  <1> QED
    BY <1>2, <1>3

(* A request leaves with its answer recorded. *)
LEMMA LeavingStory ==
  ASSUME NEW q \in RequestType, NEW q2 \in RequestType, NEW t \in Seq(AttemptType),
         Story(q, t), CauseInv(q2, t), q2.pc \in {"unwind", "done"},
         q2.answer \in StatusClasses \cup Failures, q2.recorded = <<q2.answer>>,
         q2.completed <=> q2.answer \in StatusClasses,
         q2.stage = q.stage, q2.model = q.model
  PROVE  Story(q2, t)
PROOF
  <1>1. OrderInv(q2, t)
    BY DEF Story, OrderInv, Pending
  <1>2. LateInv(q2, t)
    BY DEF Story, LateInv
  <1>3. ReplyInv(q2)
    BY DEF ReplyInv, StatusClasses, Failures, Accounted
  <1> QED
    BY <1>1, <1>2, <1>3 DEF Story

LEMMA StoryFail ==
  ASSUME CoreInv, StoryInv, NEW r \in Requests, Fail(r)
  PROVE  StoryInv'
PROOF
  <1> DEFINE q == req[r]
             t == tried[r]
             s == FailureStatus(q)
             q1 == Record(q, s)
             q2 == Reply(q1, s)
  <1>1. q \in RequestType /\ RouteInv(q) /\ q.pc = "fail" /\ q.stage = "provider"
        /\ Story(q, t) /\ t \in Seq(AttemptType) /\ UNCHANGED tried
    BY DEF CoreInv, TypeInv, StoryInv, Fail, At, RouteInv, StageOf
  <1>2. s \in Failures /\ s \in Answers /\ (s = "timedOut" => q.ctx = "deadline")
    BY <1>1 DEF FailureStatus, RequestType, Failures, Answers
  <1>3. Set(r, q2)
    BY DEF Fail
  <1>4. q.recorded = << >> /\ q.answer = "none"
    BY <1>1 DEF Story, ReplyInv
  <1> HIDE DEF q, t, s
  <1>5. q1 \in RequestType /\ q1.recorded = <<s>> /\ SameRoute(q1, q)
    BY <1>1, <1>2, <1>4, RecordType
  <1>6. q1.completed = q.completed /\ q1.ctx = q.ctx
    BY <1>1 DEF Record, RequestType
  <1> HIDE DEF q1
  <1>7. q2 \in RequestType /\ q2.pc = "unwind" /\ q2.answer = s
        /\ q2.recorded = <<s>> /\ SameRoute(q2, q1)
    BY <1>2, <1>5, ReplyType
  <1>8. q2.completed = q.completed /\ q2.ctx = q.ctx
    BY <1>5, <1>6 DEF Reply, RequestType
  <1> HIDE DEF q2
  <1>9. q2.stage = "provider" /\ q2.model = q.model /\ ~q2.completed
    BY <1>1, <1>4, <1>5, <1>7, <1>8 DEF SameRoute, Story, ReplyInv, StatusClasses
  <1>10. CauseInv(q2, t)
    BY <1>1, <1>2, <1>7, <1>8, <1>9
    DEF CauseInv, Story, OrderInv, Exhausted, StatusClasses, Failures
  <1>11. s \notin StatusClasses
    BY <1>2 DEF Failures, StatusClasses
  <1>12. Story(q2, t)
    BY <1>1, <1>2, <1>7, <1>9, <1>10, <1>11, LeavingStory
  <1> QED
    BY <1>1, <1>3, <1>12, StoryStep DEF t

LEMMA StoryStreamEnds ==
  ASSUME CoreInv, StoryInv, NEW r \in Requests, StreamEnds(r) \/ WriteFails(r)
  PROVE  StoryInv'
PROOF
  <1> DEFINE q == req[r]
             t == tried[r]
             q1 == Record(q, q.answer)
             q2 == [q1 EXCEPT !.pc = "unwind"]
  <1>1. q \in RequestType /\ q.pc \in {"stream", "stalled"} /\ Story(q, t)
        /\ t \in Seq(AttemptType) /\ UNCHANGED tried /\ Set(r, q2)
    BY DEF CoreInv, TypeInv, StoryInv, StreamEnds, WriteFails, At
  <1>2. q.answer \in Answers /\ q.answer \in StatusClasses /\ q.recorded = << >>
        /\ q.completed
    BY <1>1 DEF Story, ReplyInv, Answers
  <1> HIDE DEF q, t
  <1>3. q1 \in RequestType /\ q1.recorded = <<q.answer>> /\ SameRoute(q1, q)
    BY <1>1, <1>2, RecordType
  <1>4. q1.answer = q.answer /\ q1.completed = q.completed /\ q1.ctx = q.ctx
    BY <1>1 DEF Record, RequestType
  <1> HIDE DEF q1
  <1>5. /\ q2 \in RequestType /\ q2.pc = "unwind" /\ q2.recorded = q1.recorded
        /\ q2.answer = q1.answer /\ q2.completed = q1.completed /\ q2.ctx = q1.ctx
        /\ q2.stage = q1.stage /\ q2.model = q1.model
    BY <1>3 DEF RequestType, Places
  <1> HIDE DEF q2
  <1>6. q2.stage = q.stage /\ q2.model = q.model
    BY <1>3, <1>5 DEF SameRoute
  <1>7. CauseInv(q2, t)
    BY <1>1, <1>2, <1>4, <1>5, <1>6 DEF Story, CauseInv, Exhausted
  <1>8. Story(q2, t)
    BY <1>1, <1>2, <1>3, <1>4, <1>5, <1>6, <1>7, LeavingStory
  <1> QED
    BY <1>1, <1>8, StoryStep DEF t

(* Steps that add nothing to the story. *)
LEMMA StoryStays ==
  ASSUME CoreInv, StoryInv, NEW r \in Requests,
         \/ ClientStalls(r) \/ ClientResumes(r) \/ Finish(r)
         \/ \E why \in ContextEnds : EndContext(r, why)
  PROVE  StoryInv'
PROOF
  <1> DEFINE q == req[r]
             t == tried[r]
  <1>1. q \in RequestType /\ Story(q, t) /\ UNCHANGED tried
    BY DEF CoreInv, TypeInv, StoryInv, ClientStalls, ClientResumes, Finish, EndContext
  <1>2. ASSUME NEW pc \in Places, Set(r, [q EXCEPT !.pc = pc]),
               \/ q.pc \in {"stream", "stalled"} /\ pc \in {"stream", "stalled"}
               \/ q.pc = "unwind" /\ pc = "done"
        PROVE  StoryInv'
    <2> DEFINE q2 == [q EXCEPT !.pc = pc]
    <2>1. /\ q2.pc = pc /\ q2.stage = q.stage /\ q2.model = q.model /\ q2.ctx = q.ctx
          /\ q2.answer = q.answer /\ q2.recorded = q.recorded
          /\ q2.completed = q.completed
      BY <1>1 DEF RequestType
    <2>2. Set(r, q2)
      BY <1>2
    <2> HIDE DEF q, q2, t
    <2>3. Story(q2, t)
      BY <1>1, <1>2, <2>1
      DEF Story, OrderInv, LateInv, ReplyInv, CauseInv, Pending, Exhausted, Accounted
    <2> QED
      BY <1>1, <2>2, <2>3, StoryStep DEF t
  <1>3. CASE ClientStalls(r) \/ ClientResumes(r) \/ Finish(r)
    BY <1>2, <1>3 DEF ClientStalls, ClientResumes, Finish, At, Places
  <1>4. ASSUME NEW why \in ContextEnds, EndContext(r, why)
        PROVE  StoryInv'
    <2> DEFINE q2 == [q EXCEPT !.ctx = why]
    <2>1. /\ q2.ctx = why /\ why # "live" /\ q.ctx = "live"
          /\ q2.pc = q.pc /\ q2.stage = q.stage /\ q2.model = q.model
          /\ q2.target = q.target /\ q2.attempt = q.attempt
          /\ q2.answer = q.answer /\ q2.recorded = q.recorded
          /\ q2.completed = q.completed
      BY <1>1, <1>4, BoundsAssumption DEF RequestType, EndContext
    <2>2. Set(r, q2)
      BY <1>4 DEF EndContext
    <2> HIDE DEF q, q2, t
    <2>3. Story(q2, t)
      BY <1>1, <2>1
      DEF Story, OrderInv, LateInv, ReplyInv, CauseInv, Pending, Exhausted, Accounted
    <2> QED
      BY <1>1, <2>2, <2>3, StoryStep DEF t
  <1> QED
    BY <1>3, <1>4

LEMMA StoryElsewhere ==
  ASSUME StoryInv, UNCHANGED <<req, tried>>
  PROVE  StoryInv'
PROOF
  BY DEF StoryInv

LEMMA StoryInductive == CoreInv /\ StoryInv /\ [Next]_vars => StoryInv'
PROOF
  <1> SUFFICES ASSUME CoreInv, StoryInv, [Next]_vars PROVE StoryInv'
    OBVIOUS
  <1>1. ASSUME NEW r \in Requests, Handle(r)
        PROVE  StoryInv'
    <2>1. CASE \/ Try(r) \/ PollAgain(r) \/ EnterQueue(r) \/ LeaveQueue(r)
               \/ GiveUpWaiting(r) \/ Unwind(r)
      BY <2>1, StoryElsewhere
      DEF Try, PollAgain, EnterQueue, LeaveQueue, GiveUpWaiting, Unwind
    <2>2. CASE BadBody(r)
      BY <2>2, StoryRefused DEF BadBody, At, Refusals
    <2>3. EventStream \subseteq BOOLEAN
      BY BoundsAssumption
    <2> QED
      BY <1>1, <2>1, <2>2, <2>3, StoryArrive, StoryGranted, StoryDenied, StoryReadBody,
         StoryResolve, StoryPrepare, StoryStartTarget, StoryUpstreamError,
         StoryUpstreamRetry, StoryCommit, StoryBackoff, StoryFail, StoryStreamEnds,
         StoryStays
      DEF Handle, Admission
  <1>2. CASE UNCHANGED <<req, tried>>
    BY <1>2, StoryElsewhere
  <1> QED
    BY <1>1, <1>2 DEF Next, ReloadConfig, ReloadQueue, ReloadLimits, Tick, Rest, vars

LEMMA StoryInit == Init => StoryInv
PROOF
  <1>1. Story(NoRequest, << >>)
    BY DEF Story, OrderInv, LateInv, ReplyInv, CauseInv, Pending, NoRequest, StatusClasses,
           Failures
  <1> QED
    BY <1>1 DEF Init, StoryInv

LEMMA StoryAlways == Spec => [](CoreInv /\ StoryInv)
PROOF
  BY CoreInit, CoreInductive, StoryInit, StoryInductive, PTL DEF Spec

-----------------------------------------------------------------------------
(* The flags, beside the story. *)

(* What an attempt more makes of the two questions about a history. *)
LEMMA FlagsAppended ==
  ASSUME NEW t \in Seq(AttemptType), NEW a \in AttemptType
  PROVE  /\ Refused(Append(t, a)) <=> Refused(t) \/ a.outcome = "refused"
         /\ Broken(Append(t, a)) <=> Broken(t) \/ a.outcome \in {"error", "timeout"}
PROOF
  <1> DEFINE t2 == Append(t, a)
  <1>1. /\ DOMAIN t2 = DOMAIN t \cup {Len(t) + 1} /\ t2[Len(t) + 1] = a
        /\ \A i \in DOMAIN t : t2[i] = t[i]
    OBVIOUS
  <1> HIDE DEF t2
  <1>2. (Refused(t2) <=> Refused(t) \/ a.outcome = "refused")
    BY <1>1 DEF Refused
  <1>3. Broken(t2) <=> Broken(t) \/ a.outcome \in {"error", "timeout"}
    BY <1>1 DEF Broken
  <1> QED
    BY <1>2, <1>3 DEF t2

(* One request moves on. *)
LEMMA FlagsMove ==
  ASSUME CoreInv, FlagsInv, NEW r \in Requests, NEW q2, Set(r, q2),
         NEW t2, tried' = [tried EXCEPT ![r] = t2], FlagsOK(q2, t2)
  PROVE  FlagsInv'
PROOF
  <1>1. req'[r] = q2 /\ tried'[r] = t2
    BY DEF CoreInv, TypeInv, Set
  <1>2. \A s \in Requests : s # r => req'[s] = req[s] /\ tried'[s] = tried[s]
    BY DEF CoreInv, TypeInv, Set
  <1> QED
    BY <1>1, <1>2 DEF FlagsInv

(* A step that makes no attempt, tests no flag and reports no failure. *)
Flagless(q2, q) ==
  /\ q2.limited = q.limited /\ q2.lastErr = q.lastErr
  /\ q2.answer # q.answer => q2.answer \notin {"allLimited", "badGateway"}

LEMMA FlagsKept ==
  ASSUME CoreInv, FlagsInv, NEW r \in Requests, NEW q2, Set(r, q2), UNCHANGED tried,
         Flagless(q2, req[r])
  PROVE  FlagsInv'
PROOF
  <1>1. FlagsOK(q2, tried[r])
    BY DEF FlagsInv, FlagsOK, Flagless
  <1>2. tried' = [tried EXCEPT ![r] = tried[r]]
    BY DEF CoreInv, TypeInv
  <1> QED
    BY <1>1, <1>2, FlagsMove

LEMMA FlagsAsk ==
  ASSUME CoreInv, FlagsInv, NEW r \in Requests, NEW q1 \in RequestType, NEW stage,
         Ask(r, q1, stage), UNCHANGED tried, Flagless(q1, req[r])
  PROVE  FlagsInv'
PROOF
  <1> DEFINE q2 == [q1 EXCEPT !.pc = "admit", !.stage = stage]
  <1>1. Set(r, q2)
    BY DEF Ask
  <1>2. q2.limited = q1.limited /\ q2.lastErr = q1.lastErr /\ q2.answer = q1.answer
    BY DEF RequestType
  <1> HIDE DEF q2
  <1>3. Flagless(q2, req[r])
    BY <1>2 DEF Flagless
  <1> QED
    BY <1>1, <1>3, FlagsKept

LEMMA FlagsOnward ==
  ASSUME CoreInv, FlagsInv, NEW r \in Requests,
         \/ \E c \in Clients : Arrive(r, c)
         \/ Granted(r)
         \/ \E a \in Aliases : ReadBody(r, a)
         \/ Resolve(r) \/ Prepare(r) \/ StartTarget(r)
         \/ BackoffOver(r) \/ BackoffCut(r)
  PROVE  FlagsInv'
PROOF
  <1> DEFINE q == req[r]
  <1>1. q \in RequestType
    BY DEF CoreInv, TypeInv
  <1>2. ASSUME NEW pc, Set(r, [q EXCEPT !.pc = pc]), UNCHANGED tried
        PROVE  FlagsInv'
    <2>1. Flagless([q EXCEPT !.pc = pc], q)
      BY <1>1 DEF Flagless, RequestType
    <2> QED
      BY <1>2, <2>1, FlagsKept
  <1>3. ASSUME NEW a \in Refusals, Set(r, Reply(q, a)), UNCHANGED tried
        PROVE  FlagsInv'
    <2>1. Flagless(Reply(q, a), q)
      BY <1>1, <1>3 DEF Flagless, Reply, RequestType, Refusals
    <2> QED
      BY <1>3, <2>1, FlagsKept
  <1>4. ASSUME NEW c \in Clients, Arrive(r, c)
        PROVE  FlagsInv'
    <2> DEFINE q1 == [q EXCEPT !.cfg = config, !.client = c]
    <2>1. q1 \in RequestType /\ Flagless(q1, q)
      BY <1>1 DEF CoreInv, TypeInv, RequestType, Flagless
    <2>2. Ask(r, q1, "ingress") /\ UNCHANGED tried
      BY <1>4, Zenon DEF Arrive
    <2> QED
      BY <2>1, <2>2, FlagsAsk
  <1>5. CASE Granted(r)
    <2> DEFINE q2 == [q EXCEPT !.pc = "upstream", !.late = q.ctx # "live"]
    <2>1. Flagless(q2, q)
      BY <1>1 DEF Flagless, RequestType
    <2>2. UNCHANGED tried
          /\ (Set(r, q2) \/ \E pc \in Places : Set(r, [q EXCEPT !.pc = pc]))
      BY <1>1, <1>5 DEF Granted, Places, RequestType, Stages
    <2> QED
      BY <1>2, <2>1, <2>2, FlagsKept
  <1>6. ASSUME NEW a \in Aliases, ReadBody(r, a)
        PROVE  FlagsInv'
    <2>1. CASE a \in DOMAIN Cfg(r).models
      <3> DEFINE q1 == [q EXCEPT !.alias = a, !.model = Cfg(r).models[a]]
      <3>1. q1 \in RequestType
        BY <1>1, <2>1, ConfiguredModel DEF RequestType, Cfg
      <3>2. Flagless(q1, q)
        BY <1>1 DEF RequestType, Flagless
      <3>3. Ask(r, q1, "model") /\ UNCHANGED tried
        BY <1>6, <2>1, Zenon DEF ReadBody
      <3> QED
        BY <3>1, <3>2, <3>3, FlagsAsk
    <2>2. CASE a \notin DOMAIN Cfg(r).models
      <3> DEFINE q2 == [q EXCEPT !.pc = "resolve", !.alias = a]
      <3>1. Flagless(q2, q)
        BY <1>1 DEF RequestType, Flagless
      <3>2. Set(r, q2) /\ UNCHANGED tried
        BY <1>6, <2>2, Zenon DEF ReadBody
      <3> QED
        BY <3>1, <3>2, FlagsKept
    <2> QED
      BY <2>1, <2>2
  <1>7. CASE Resolve(r)
    <2>1. UNCHANGED tried
      BY <1>7 DEF Resolve
    <2>2. ASSUME NEW p \in Discoverable(r),
                 Ask(r, [q EXCEPT !.model = DiscoveredModel(p)], "model")
          PROVE  FlagsInv'
      <3> DEFINE q1 == [q EXCEPT !.model = DiscoveredModel(p)]
      <3>1. DiscoveredModel(p) \in ModelType
        <4>1. q.cfg \in DOMAIN Configs /\ p \in DOMAIN Configs[q.cfg].providers
          BY <1>1, <2>2 DEF Discoverable, Cfg, RequestType
        <4> QED
          BY <4>1, DiscoveredModelRoute
      <3>2. q1 \in RequestType /\ Flagless(q1, q)
        BY <1>1, <3>1 DEF RequestType, Flagless
      <3> QED
        BY <2>1, <2>2, <3>2, FlagsAsk
    <2> QED
      BY <1>3, <1>7, <2>1, <2>2 DEF Resolve, Refusals
  <1>8. CASE Prepare(r)
    <2> DEFINE q2 == [q EXCEPT !.pc = "target", !.target = 1]
    <2>1. Flagless(q2, q)
      BY <1>1 DEF RequestType, Flagless
    <2>2. CASE Set(r, q2)
      BY <1>8, <2>1, <2>2, FlagsKept DEF Prepare
    <2> QED
      BY <1>3, <1>8, <2>2 DEF Prepare, Refusals
  <1>9. CASE StartTarget(r)
    <2>1. Flagless(q, q)
      BY DEF Flagless
    <2>2. CASE Ask(r, q, "provider")
      BY <1>1, <1>9, <2>1, <2>2, FlagsAsk DEF StartTarget
    <2> QED
      BY <1>3, <1>9, <2>2 DEF StartTarget, Refusals
  <1>10. CASE BackoffOver(r)
    <2> DEFINE q1 == [q EXCEPT !.attempt = @ + 1]
    <2>1. q1 \in RequestType /\ Flagless(q1, q)
      BY <1>1 DEF RequestType, Flagless
    <2>2. Ask(r, q1, "provider") /\ UNCHANGED tried
      BY <1>10 DEF BackoffOver
    <2> QED
      BY <2>1, <2>2, FlagsAsk
  <1>11. CASE BackoffCut(r)
    BY <1>2, <1>11 DEF BackoffCut
  <1> QED
    BY <1>4, <1>5, <1>6, <1>7, <1>8, <1>9, <1>10, <1>11

(* An attempt is over, and the request not yet reported as failed. *)
LEMMA FlagsAttempt ==
  ASSUME CoreInv, FlagsInv, NEW r \in Requests, NEW q2, NEW a \in AttemptType, Set(r, q2),
         tried' = [tried EXCEPT ![r] = Append(tried[r], a)],
         q2.limited <=> req[r].limited \/ a.outcome = "refused",
         q2.lastErr <=> req[r].lastErr \/ a.outcome \in {"error", "timeout"},
         q2.answer \notin {"allLimited", "badGateway"}
  PROVE  FlagsInv'
PROOF
  <1>1. tried[r] \in Seq(AttemptType) /\ FlagsOK(req[r], tried[r])
    BY DEF CoreInv, TypeInv, FlagsInv
  <1>2. FlagsOK(q2, Append(tried[r], a))
    BY <1>1, FlagsAppended DEF FlagsOK
  <1> QED
    BY <1>2, FlagsMove

LEMMA NextTargetFlags ==
  ASSUME NEW q \in RequestType
  PROVE  /\ NextTarget(q).limited = q.limited /\ NextTarget(q).lastErr = q.lastErr
         /\ NextTarget(q).answer = q.answer
PROOF
  BY DEF NextTarget, RequestType

LEMMA FlagsDenied ==
  ASSUME CoreInv, StoryInv, FlagsInv, NEW r \in Requests, Denied(r)
  PROVE  FlagsInv'
PROOF
  <1> DEFINE q == req[r]
  <1>1. q \in RequestType /\ q.pc = "admit" /\ q.answer = "none"
    BY DEF CoreInv, TypeInv, CallInv, StoryInv, Story, ReplyInv, Denied, Queue!Return
  <1>2. ASSUME NEW q1 \in {q, Record(q, "busy")}, Set(r, Reply(q1, "busy")), UNCHANGED tried
        PROVE  FlagsInv'
    <2>1. Flagless(Reply(q1, "busy"), q)
      BY <1>1, <1>2 DEF RequestType, Reply, Record, Flagless
    <2> QED
      BY <1>2, <2>1, FlagsKept
  <1>3. CASE ProviderRefused(r)
    <2> DEFINE q1 == [q EXCEPT !.limited = TRUE]
               a == [target |-> q.target, attempt |-> q.attempt, late |-> FALSE,
                     outcome |-> "refused"]
    <2>1. q1 \in RequestType /\ q1.limited /\ q1.lastErr = q.lastErr /\ q1.answer = q.answer
      BY <1>1 DEF RequestType
    <2>2. a \in AttemptType /\ a.outcome = "refused"
      BY <1>1 DEF RequestType, AttemptType, Outcomes
    <2>3. Set(r, NextTarget(q1)) /\ tried' = [tried EXCEPT ![r] = Append(tried[r], a)]
      BY <1>3 DEF ProviderRefused
    <2> HIDE DEF q1, a
    <2>4. /\ NextTarget(q1).limited /\ NextTarget(q1).lastErr = q.lastErr
          /\ NextTarget(q1).answer = "none"
      BY <1>1, <2>1, NextTargetFlags
    <2>5. q.lastErr \in BOOLEAN
      BY <1>1 DEF RequestType
    <2> QED
      BY <2>2, <2>3, <2>4, <2>5, FlagsAttempt
  <1> QED
    BY <1>2, <1>3 DEF Denied, IngressRefused, ModelRefused

LEMMA FlagsUpstreamError ==
  ASSUME CoreInv, StoryInv, FlagsInv, NEW r \in Requests, NEW timedOut \in BOOLEAN,
         UpstreamError(r, timedOut)
  PROVE  FlagsInv'
PROOF
  <1> DEFINE q == req[r]
             q1 == [q EXCEPT !.lastErr = TRUE]
             q2 == AfterError(q1, timedOut)
             a == [target |-> q.target, attempt |-> q.attempt, late |-> q.late,
                   outcome |-> IF timedOut THEN "timeout" ELSE "error"]
  <1>1. q \in RequestType /\ q.answer = "none"
    BY DEF CoreInv, TypeInv, StoryInv, Story, ReplyInv, UpstreamError, At
  <1>2. q1 \in RequestType /\ q1.lastErr /\ q1.limited = q.limited /\ q1.answer = "none"
    BY <1>1 DEF RequestType
  <1>3. a \in AttemptType /\ a.outcome \in {"error", "timeout"}
    BY <1>1 DEF RequestType, AttemptType, Outcomes
  <1>4. Set(r, q2) /\ tried' = [tried EXCEPT ![r] = Append(tried[r], a)]
    BY DEF UpstreamError, Tried
  <1> HIDE DEF q1, a
  <1>5. q2.limited = q1.limited /\ q2.lastErr = q1.lastErr /\ q2.answer = q1.answer
    <2>1. q2 \in {NextTarget(q1), [q1 EXCEPT !.pc = "fail"], [q1 EXCEPT !.pc = "backoff"]}
      BY <1>2 DEF AfterError, RequestType
    <2> HIDE DEF q2
    <2>2. CASE q2 = NextTarget(q1)
      BY <1>2, <2>2, NextTargetFlags
    <2>3. ASSUME NEW pc, q2 = [q1 EXCEPT !.pc = pc]
          PROVE  q2.limited = q1.limited /\ q2.lastErr = q1.lastErr /\ q2.answer = q1.answer
      BY <1>2, <2>3 DEF RequestType
    <2> QED
      BY <2>1, <2>2, <2>3
  <1> HIDE DEF q2
  <1>6. q.limited \in BOOLEAN
    BY <1>1 DEF RequestType
  <1> QED
    BY <1>2, <1>3, <1>4, <1>5, <1>6, FlagsAttempt

(* A provider has answered. *)
LEMMA FlagsUpstreamAnswer ==
  ASSUME CoreInv, StoryInv, FlagsInv, NEW r \in Requests, NEW class \in StatusClasses,
         UpstreamRetry(r, class) \/ \E sse \in BOOLEAN : Commit(r, class, sse)
  PROVE  FlagsInv'
PROOF
  <1> DEFINE q == req[r]
             a == [target |-> q.target, attempt |-> q.attempt, late |-> q.late,
                   outcome |-> class]
  <1>0. At(r, "upstream") /\ Tried(r, class)
    BY Zenon DEF UpstreamRetry, Commit
  <1>1. q \in RequestType /\ q.answer = "none"
    BY <1>0 DEF CoreInv, TypeInv, StoryInv, Story, ReplyInv, At
  <1>2. a \in AttemptType /\ a.outcome \notin {"refused", "error", "timeout"}
    BY <1>1 DEF RequestType, AttemptType, Outcomes, StatusClasses
  <1>3. tried' = [tried EXCEPT ![r] = Append(tried[r], a)]
    BY <1>0 DEF Tried
  <1>4. PICK q2 : /\ Set(r, q2) /\ q2.limited = q.limited /\ q2.lastErr = q.lastErr
                  /\ q2.answer \in {"none", class}
    <2>1. CASE UpstreamRetry(r, class)
      <3>1. Set(r, [q EXCEPT !.pc = "backoff"]) \/ Set(r, NextTarget(q))
        BY <2>1 DEF UpstreamRetry
      <3>2. CASE Set(r, [q EXCEPT !.pc = "backoff"])
        <4> DEFINE x == [q EXCEPT !.pc = "backoff"]
        <4>1. x.limited = q.limited /\ x.lastErr = q.lastErr /\ x.answer = q.answer
          BY <1>1 DEF RequestType
        <4> HIDE DEF x
        <4> QED
          BY <1>1, <3>2, <4>1 DEF x
      <3>3. CASE Set(r, NextTarget(q))
        BY <1>1, <3>3, NextTargetFlags
      <3> QED
        BY <3>1, <3>2, <3>3
    <2>2. ASSUME NEW sse \in BOOLEAN, Commit(r, class, sse)
          PROVE  \E q2 : /\ Set(r, q2) /\ q2.limited = q.limited /\ q2.lastErr = q.lastErr
                         /\ q2.answer \in {"none", class}
      <3> DEFINE q2 == [q EXCEPT !.pc = "stream", !.answer = class, !.completed = TRUE,
                                 !.sse = sse]
      <3>1. Set(r, q2)
        BY <2>2, Zenon DEF Commit
      <3>2. q2.limited = q.limited /\ q2.lastErr = q.lastErr /\ q2.answer = class
        BY <1>1 DEF RequestType
      <3> HIDE DEF q2
      <3> QED
        BY <3>1, <3>2
    <2> QED
      BY <2>1, <2>2
  <1>5. q.limited \in BOOLEAN /\ q.lastErr \in BOOLEAN
    BY <1>1 DEF RequestType
  <1>6. q2.answer \notin {"allLimited", "badGateway"}
    BY <1>4 DEF StatusClasses
  <1> HIDE DEF a
  <1> QED
    BY <1>2, <1>3, <1>4, <1>5, <1>6, FlagsAttempt

(* Answers and endings. *)
LEMMA FlagsLeave ==
  ASSUME CoreInv, StoryInv, FlagsInv, NEW r \in Requests,
         \/ BadBody(r) \/ Fail(r) \/ StreamEnds(r) \/ WriteFails(r)
         \/ ClientStalls(r) \/ ClientResumes(r) \/ Finish(r)
         \/ \E why \in ContextEnds : EndContext(r, why)
  PROVE  FlagsInv'
PROOF
  <1> DEFINE q == req[r]
  <1>1. q \in RequestType
    BY DEF CoreInv, TypeInv
  <1>2. CASE BadBody(r)
    <2>1. PICK a \in {"tooLarge", "badRequest"} : Set(r, Reply(q, a))
      BY <1>2 DEF BadBody
    <2>2. Flagless(Reply(q, a), q)
      BY <1>1 DEF RequestType, Reply, Flagless
    <2> QED
      BY <1>2, <2>1, <2>2, FlagsKept DEF BadBody
  <1>3. CASE Fail(r)
    <2> DEFINE s == FailureStatus(q)
               q2 == Reply(Record(q, s), s)
               t == tried[r]
    <2>1. q2.limited = q.limited /\ q2.lastErr = q.lastErr /\ q2.answer = s
      BY <1>1 DEF RequestType, Reply, Record
    <2>2. /\ s = "allLimited" => q.limited /\ ~q.lastErr
          /\ s = "badGateway" => ~q.limited \/ q.lastErr
      BY <1>1 DEF FailureStatus, RequestType
    <2>3. Set(r, q2) /\ tried' = [tried EXCEPT ![r] = t]
      BY <1>3 DEF Fail, CoreInv, TypeInv
    <2> HIDE DEF q2, s
    <2>4. FlagsOK(q2, t)
      BY <2>1, <2>2 DEF FlagsInv, FlagsOK
    <2> QED
      BY <2>3, <2>4, FlagsMove
  <1>4. CASE StreamEnds(r) \/ WriteFails(r)
    <2> DEFINE q2 == [Record(q, q.answer) EXCEPT !.pc = "unwind"]
    <2>1. Flagless(q2, q)
      BY <1>1 DEF RequestType, Record, Flagless
    <2>2. Set(r, q2) /\ UNCHANGED tried
      BY <1>4 DEF StreamEnds, WriteFails
    <2> QED
      BY <2>1, <2>2, FlagsKept
  <1>5. CASE ClientStalls(r) \/ ClientResumes(r) \/ Finish(r)
    <2>1. PICK pc : Set(r, [q EXCEPT !.pc = pc])
      BY <1>5 DEF ClientStalls, ClientResumes, Finish
    <2>2. Flagless([q EXCEPT !.pc = pc], q)
      BY <1>1 DEF RequestType, Flagless
    <2> QED
      BY <1>5, <2>1, <2>2, FlagsKept DEF ClientStalls, ClientResumes, Finish
  <1>6. ASSUME NEW why \in ContextEnds, EndContext(r, why)
        PROVE  FlagsInv'
    <2>1. Flagless([q EXCEPT !.ctx = why], q)
      BY <1>1 DEF RequestType, Flagless
    <2> QED
      BY <1>6, <2>1, FlagsKept DEF EndContext
  <1> QED
    BY <1>2, <1>3, <1>4, <1>5, <1>6

LEMMA FlagsInductive == CoreInv /\ StoryInv /\ FlagsInv /\ [Next]_vars => FlagsInv'
PROOF
  <1> SUFFICES ASSUME CoreInv, StoryInv, FlagsInv, [Next]_vars PROVE FlagsInv'
    OBVIOUS
  <1>1. ASSUME NEW r \in Requests, Handle(r)
        PROVE  FlagsInv'
    <2>1. CASE \/ Try(r) \/ PollAgain(r) \/ EnterQueue(r) \/ LeaveQueue(r)
               \/ GiveUpWaiting(r) \/ Unwind(r)
      BY <2>1
      DEF Try, PollAgain, EnterQueue, LeaveQueue, GiveUpWaiting, Unwind, FlagsInv
    <2>2. EventStream \subseteq BOOLEAN
      BY BoundsAssumption
    <2> QED
      BY <1>1, <2>1, <2>2, FlagsOnward, FlagsDenied, FlagsUpstreamError,
         FlagsUpstreamAnswer, FlagsLeave
      DEF Handle, Admission
  <1>2. CASE UNCHANGED <<req, tried>>
    BY <1>2 DEF FlagsInv
  <1> QED
    BY <1>1, <1>2 DEF Next, ReloadConfig, ReloadQueue, ReloadLimits, Tick, Rest, vars

LEMMA FlagsInit == Init => FlagsInv
PROOF
  <1>1. FlagsOK(NoRequest, << >>)
    BY DEF FlagsOK, Refused, Broken, NoRequest
  <1> QED
    BY <1>1 DEF Init, FlagsInv

LEMMA FlagsAlways == Spec => [](CoreInv /\ StoryInv /\ FlagsInv)
PROOF
  BY StoryAlways, FlagsInit, FlagsInductive, PTL DEF Spec

(***************************************************************************)
(* The failover policy holds for every request, however long the list of   *)
(* targets and however many retries a model is given.                      *)
(***************************************************************************)
THEOREM FailoverIsInOrder == Spec => []FailoverOrder
PROOF
  <1>1. CoreInv /\ StoryInv => FailoverOrder
    BY DEF StoryInv, Story, OrderInv, Follows, FailoverOrder
  <1> QED
    BY <1>1, StoryAlways, PTL

(***************************************************************************)
(* Every answer is justified by the attempts before it: no retryable       *)
(* answer is passed on while a retry or a target is left, no failure is    *)
(* reported with a target untried while the request was alive, and the 429 *)
(* for limits and the 502 are told apart by refusals and transport errors. *)
(***************************************************************************)
THEOREM AnswersAreJustified == Spec => []AnswerJustified
PROOF
  <1>1. ASSUME CoreInv, StoryInv, FlagsInv PROVE AnswerJustified
    <2> SUFFICES ASSUME NEW r \in Requests
        PROVE  LET q == req[r]
                   t == tried[r]
                   last == t[Len(t)]
               IN  /\ q.answer \in StatusClasses =>
                        /\ last.outcome = q.answer
                        /\ q.answer # "final" => last.target = Len(Targets(r))
                        /\ q.answer = "failing" => last.attempt = q.model.retries
                   /\ q.answer \in {"allLimited", "badGateway"} /\ q.ctx = "live" =>
                        /\ {t[i].target : i \in DOMAIN t} = DOMAIN Targets(r)
                        /\ last.target = Len(Targets(r))
                   /\ q.answer = "allLimited" => Refused(t) /\ ~Broken(t)
                   /\ q.answer = "badGateway" => ~Refused(t) \/ Broken(t)
                   /\ q.answer = "timedOut" => q.ctx = "deadline"
      BY DEF AnswerJustified
    <2>1. CauseInv(req[r], tried[r])
      BY <1>1 DEF StoryInv, Story
    <2>2. Targets(r) = req[r].model.targets
          /\ DOMAIN Targets(r) = 1 .. Len(req[r].model.targets)
      BY <1>1 DEF CoreInv, TypeInv, RequestType, ModelType, Targets
    <2>3. /\ req[r].answer = "allLimited" => Refused(tried[r]) /\ ~Broken(tried[r])
          /\ req[r].answer = "badGateway" => ~Refused(tried[r]) \/ Broken(tried[r])
      BY <1>1 DEF FlagsInv, FlagsOK
    <2> QED
      BY <2>1, <2>2, <2>3 DEF CauseInv, Exhausted, TriedTargets
  <1> QED
    BY <1>1, FlagsAlways, PTL

(***************************************************************************)
(* A request that is over starts at most one more attempt: whatever race   *)
(* the end of its context loses, it loses once.                            *)
(***************************************************************************)
THEOREM OneLateAttempt == Spec => []AtMostOneLateAttempt
PROOF
  <1>1. ASSUME CoreInv, StoryInv PROVE AtMostOneLateAttempt
    <2> SUFFICES ASSUME NEW r \in Requests
        PROVE  Cardinality({i \in DOMAIN tried[r] : tried[r][i].late})
                 + (IF At(r, "upstream") /\ req[r].late THEN 1 ELSE 0) <= 1
      BY DEF AtMostOneLateAttempt
    <2> DEFINE L == {i \in DOMAIN tried[r] : tried[r][i].late}
               n == Len(tried[r])
    <2>1. L \subseteq {n} /\ (req[r].pc = "upstream" => L = {})
      BY <1>1 DEF StoryInv, Story, LateInv
    <2>2. L = {} \/ L = {n}
      BY <2>1
    <2>3. Cardinality({}) = 0 /\ Cardinality({n}) = 1
      BY FS_EmptySet, FS_Singleton
    <2> HIDE DEF L, n
    <2>4. Cardinality(L) \in {0, 1} /\ (req[r].pc = "upstream" => Cardinality(L) = 0)
      BY <2>1, <2>2, <2>3
    <2> QED
      BY <2>4 DEF L, At
  <1> QED
    BY <1>1, StoryAlways, PTL

(***************************************************************************)
(* The account of a request agrees with what its client saw: told at most  *)
(* once, and for a finished request exactly when a provider's answer, the  *)
(* failure of all targets or the model's 429 ended it.                     *)
(***************************************************************************)
THEOREM AccountsAgree == Spec => []UsageAgrees
PROOF
  <1>1. ASSUME StoryInv, NEW r \in Requests
        PROVE  /\ req[r].recorded \in {<< >>, <<req[r].answer>>}
               /\ At(r, "done") => (req[r].recorded # << >> <=> Accounted(req[r]))
    <2>1. ReplyInv(req[r])
      BY <1>1 DEF StoryInv, Story
    <2>2. <<req[r].answer>> # << >>
      OBVIOUS
    <2> QED
      BY <2>1, <2>2 DEF ReplyInv, At
  <1>2. CoreInv /\ StoryInv => UsageAgrees
    BY <1>1 DEF UsageAgrees
  <1> QED
    BY <1>2, StoryAlways, PTL

(* A step of one request is not a step of another. *)
LEMMA OwnStep ==
  ASSUME CoreInv, NEW s \in Requests, Handle(s), NEW r \in Requests, r # s
  PROVE  req'[r] = req[r] /\ tried'[r] = tried[r]
PROOF
  <1>1. UNCHANGED req \/ \E q2 : Set(s, q2)
    BY Zenon
    DEF Handle, Admission, Arrive, Ask, Try, PollAgain, EnterQueue, LeaveQueue,
        GiveUpWaiting, Granted, Denied, IngressRefused, ModelRefused,
        ProviderRefused, BadBody, ReadBody, Resolve, Prepare, StartTarget,
        UpstreamError, UpstreamRetry, Commit, BackoffOver, BackoffCut, Fail, StreamEnds,
        ClientStalls, ClientResumes, WriteFails, Unwind, Finish, EndContext
  <1>2. UNCHANGED tried \/ \E t2 : tried' = [tried EXCEPT ![s] = t2]
    BY Zenon
    DEF Handle, Admission, Arrive, Try, PollAgain, EnterQueue, LeaveQueue,
        GiveUpWaiting, Granted, Denied, IngressRefused, ModelRefused,
        ProviderRefused, BadBody, ReadBody, Resolve, Prepare, StartTarget,
        UpstreamError, UpstreamRetry, Commit, BackoffOver, BackoffCut, Fail, StreamEnds,
        ClientStalls, ClientResumes, WriteFails, Unwind, Finish, EndContext, Tried
  <1>3. req'[r] = req[r]
    BY <1>1 DEF Set, CoreInv, TypeInv
  <1>4. tried'[r] = tried[r]
    BY <1>2 DEF CoreInv, TypeInv
  <1> QED
    BY <1>3, <1>4

(* What an answered request may still do. *)
LEMMA AnsweredStep ==
  ASSUME CoreInv, StoryInv, NEW r \in Requests, Handle(r), req[r].answer # "none"
  PROVE  req'[r].answer = req[r].answer /\ tried'[r] = tried[r]
PROOF
  <1> DEFINE q == req[r]
  <1>1. q \in RequestType /\ q.pc \in {"stream", "stalled", "unwind", "done"}
        /\ req \in [Requests -> RequestType]
    BY DEF CoreInv, TypeInv, StoryInv, Story, ReplyInv
  <1>2. call[r].at = "idle"
    BY <1>1 DEF CoreInv, TypeInv, CallInv, CallType
  <1>3. ~Admission(r) /\ ~GiveUpWaiting(r)
    BY <1>2
    DEF Admission, Try, PollAgain, EnterQueue, LeaveQueue, GiveUpWaiting, Granted, Denied,
        Queue!TryFirst, Queue!Poll, Queue!Enter, Queue!Leave, Queue!Expire, Queue!Return
  <1>4. \/ StreamEnds(r) \/ WriteFails(r) \/ ClientStalls(r) \/ ClientResumes(r)
        \/ Finish(r) \/ Unwind(r) \/ \E why \in ContextEnds : EndContext(r, why)
    BY <1>1, <1>3, Zenon
    DEF Handle, At, Arrive, BadBody, ReadBody, Resolve, Prepare, StartTarget,
        UpstreamError, UpstreamRetry, Commit, BackoffOver, BackoffCut, Fail
  <1>5. tried' = tried
    BY <1>4
    DEF StreamEnds, WriteFails, ClientStalls, ClientResumes, Finish, Unwind, EndContext
  <1>6. CASE StreamEnds(r) \/ WriteFails(r)
    <2> DEFINE q1 == Record(q, q.answer)
    <2>1. q1 \in RequestType /\ q1.answer = q.answer
      <3>1. Append(q.recorded, q.answer) \in Seq(Answers)
        BY <1>1 DEF RequestType
      <3> QED
        BY <1>1, <3>1 DEF RequestType, Record
    <2>2. req' = [req EXCEPT ![r] = [q1 EXCEPT !.pc = "unwind"]]
      BY <1>6 DEF StreamEnds, WriteFails, Set
    <2> HIDE DEF q1
    <2>3. [q1 EXCEPT !.pc = "unwind"].answer = q1.answer
      BY <2>1 DEF RequestType
    <2> QED
      BY <1>1, <1>5, <2>1, <2>2, <2>3
  <1>7. CASE ClientStalls(r) \/ ClientResumes(r) \/ Finish(r)
    <2>1. PICK pc : req' = [req EXCEPT ![r] = [q EXCEPT !.pc = pc]]
      BY <1>7 DEF ClientStalls, ClientResumes, Finish, Set
    <2>2. [q EXCEPT !.pc = pc].answer = q.answer
      BY <1>1 DEF RequestType
    <2> QED
      BY <1>1, <1>5, <2>1, <2>2
  <1>8. ASSUME NEW why \in ContextEnds, EndContext(r, why)
        PROVE  req'[r].answer = q.answer /\ tried'[r] = tried[r]
    <2>1. req' = [req EXCEPT ![r] = [q EXCEPT !.ctx = why]]
      BY <1>8 DEF EndContext, Set
    <2>2. [q EXCEPT !.ctx = why].answer = q.answer
      BY <1>1 DEF RequestType
    <2> QED
      BY <1>1, <1>5, <2>1, <2>2
  <1>9. CASE Unwind(r)
    BY <1>5, <1>9 DEF Unwind
  <1> QED
    BY <1>4, <1>6, <1>7, <1>8, <1>9

(***************************************************************************)
(* Once a request has its answer, no step of anyone changes the answer or  *)
(* makes another attempt for it.                                           *)
(***************************************************************************)
THEOREM AnswersStand == Spec => AnswerStands
PROOF
  <1>1. ASSUME CoreInv, StoryInv, [Next]_vars, NEW r \in Requests,
               req[r].answer # "none"
        PROVE  req'[r].answer = req[r].answer /\ tried'[r] = tried[r]
    <2>1. ASSUME NEW s \in Requests, Handle(s)
          PROVE  req'[r].answer = req[r].answer /\ tried'[r] = tried[r]
      <3>1. CASE s = r
        BY <1>1, <2>1, <3>1, AnsweredStep
      <3>2. CASE s # r
        BY <1>1, <2>1, <3>2, OwnStep
      <3> QED
        BY <3>1, <3>2
    <2>2. CASE UNCHANGED <<req, tried>>
      BY <2>2
    <2> QED
      BY <1>1, <2>1, <2>2
      DEF Next, ReloadConfig, ReloadQueue, ReloadLimits, Tick, Rest, vars
  <1>2. CoreInv /\ StoryInv /\ [Next]_vars =>
          [\A r \in Requests :
             req[r].answer # "none" =>
               req'[r].answer = req[r].answer /\ tried'[r] = tried[r]]_vars
    BY <1>1
  <1> QED
    BY <1>2, StoryAlways, PTL DEF Spec, AnswerStands

-----------------------------------------------------------------------------
(* Layer 3, proved. *)

LEMMA ScopesOfRequest ==
  ASSUME NEW r \in Requests
  PROVE  Scopes(r) = ScopesOf(req[r])
PROOF
  BY DEF Scopes, ScopesOf, Cfg, ProviderOf, Targets

LEMMA LeaseType ==
  ASSUME CoreInv, LeaseInv, [Next]_vars
  PROVE  leases' \in [Requests \X Stages -> AllCalls \cup {Limits!NoLease}]
PROOF
  <1>1. [Limits!Next]_(Limits!vars)
    BY LimitsStep
  <1>2. leases \in [Requests \X Stages -> AllCalls \cup {Limits!NoLease}]
    BY DEF LeaseInv
  <1>3. ASSUME NEW h \in Requests \X Stages, NEW c \in AllCalls \cup {Limits!NoLease},
               leases' = [leases EXCEPT ![h] = c]
        PROVE  leases' \in [Requests \X Stages -> AllCalls \cup {Limits!NoLease}]
    BY <1>2, <1>3
  <1>4. CASE \E h \in Requests \X Stages, c \in AllCalls : Limits!Admit(h, c)
    BY <1>3, <1>4 DEF Limits!Admit
  <1>5. CASE \E h \in Requests \X Stages : Limits!Release(h)
    BY <1>3, <1>5 DEF Limits!Release
  <1>6. CASE UNCHANGED leases
    BY <1>2, <1>6
  <1> QED
    BY <1>1, <1>4, <1>5, <1>6
    DEF Limits!Next, Limits!Refuse, Limits!Clear, Limits!Tick, Limits!vars

(* A lease is changed by its own request only. *)
LEMMA OwnLease ==
  ASSUME CoreInv, LeaseInv, NEW s \in Requests, Handle(s), NEW r \in Requests, r # s
  PROVE  call'[r] = call[r] /\ LeasesOf(r)' = LeasesOf(r)
PROOF
  <1>1. UNCHANGED call \/ \E c2 : call' = [call EXCEPT ![s] = c2]
    BY Zenon
    DEF Handle, Admission, Arrive, Ask, Try, PollAgain, EnterQueue, LeaveQueue,
        GiveUpWaiting, Granted, Denied, IngressRefused, ModelRefused,
        ProviderRefused, BadBody, ReadBody, Resolve, Prepare, StartTarget,
        UpstreamError, UpstreamRetry, Commit, BackoffOver, BackoffCut, Fail, StreamEnds,
        ClientStalls, ClientResumes, WriteFails, Unwind, Finish, EndContext,
        Queue!Call, Queue!TryFirst, Queue!Poll, Queue!Enter, Queue!Expire, Queue!Leave,
        Queue!Return, queueVars
  <1>2. UNCHANGED leases \/ \E x, c : leases' = [leases EXCEPT ![<<s, x>>] = c]
    BY Zenon
    DEF Handle, Admission, Arrive, Ask, Try, PollAgain, EnterQueue, LeaveQueue,
        GiveUpWaiting, Granted, Denied, IngressRefused, ModelRefused,
        ProviderRefused, BadBody, ReadBody, Resolve, Prepare, StartTarget,
        UpstreamError, UpstreamRetry, Commit, BackoffOver, BackoffCut, Fail, StreamEnds,
        ClientStalls, ClientResumes, WriteFails, Unwind, Finish, EndContext,
        ReleaseProvider, Limits!Admit, Limits!Refuse, Limits!Release, limitVars
  <1>3. call'[r] = call[r]
    BY <1>1 DEF CoreInv, TypeInv
  <1>4. \A x \in Stages : leases'[<<r, x>>] = leases[<<r, x>>]
    BY <1>2 DEF LeaseInv
  <1> QED
    BY <1>3, <1>4 DEF LeasesOf

(* No provider lease, and no use for one. *)
LEMMA NoProviderLease ==
  ASSUME NEW q \in RequestType, NEW c \in CallType, NEW l, CallInv(q, c),
         l["provider"] = Limits!NoLease,
         q.pc \in {"body", "resolve", "prompt", "target", "backoff", "fail", "unwind"}
           \/ (q.pc = "admit" /\ c.at = "try")
  PROVE  LeaseOK(q, c, l)
PROOF
  BY DEF LeaseOK, CallInv

LEMMA NextTargetPc ==
  ASSUME NEW q \in RequestType
  PROVE  NextTarget(q).pc \in {"target", "fail"}
PROOF
  BY DEF NextTarget, RequestType

LEMMA AskPc ==
  ASSUME CoreInv, NEW r \in Requests, NEW q \in RequestType, NEW s, Ask(r, q, s)
  PROVE  req'[r].pc = "admit" /\ call'[r].at = "try"
PROOF
  <1> DEFINE q2 == [q EXCEPT !.pc = "admit", !.stage = s]
             c2 == [call[r] EXCEPT !.at = "try"]
  <1>1. q2.pc = "admit"
    BY DEF RequestType
  <1>2. c2.at = "try"
    BY DEF CoreInv, TypeInv, CallType
  <1>3. req' = [req EXCEPT ![r] = q2] /\ call' = [call EXCEPT ![r] = c2]
    BY DEF Ask, Set, Queue!Call
  <1> HIDE DEF q2, c2
  <1> QED
    BY <1>1, <1>2, <1>3 DEF CoreInv, TypeInv

(* Steps of a request that is not with a provider, before and after. *)
LEMMA LeaseApart ==
  ASSUME CoreInv, CoreInv', LeaseInv, NEW r \in Requests, UNCHANGED leases,
         \/ req[r].pc \in {"idle", "body", "resolve", "prompt", "target", "backoff", "fail"}
         \/ req[r].pc = "admit" /\ ~(req[r].stage = "provider" /\ call[r].ok),
         \/ req'[r].pc \in {"body", "resolve", "prompt", "target", "backoff", "fail",
                            "unwind"}
         \/ req'[r].pc = "admit" /\ call'[r].at = "try"
  PROVE  LeaseOK(req'[r], call'[r], LeasesOf(r)')
PROOF
  <1>1. LeasesOf(r)' = LeasesOf(r)
    BY DEF LeasesOf
  <1>2. LeaseOK(req[r], call[r], LeasesOf(r)) /\ CallInv(req[r], call[r])
    BY DEF LeaseInv, CoreInv
  <1>3. LeasesOf(r)["provider"] = Limits!NoLease
    BY <1>2 DEF LeaseOK, Stages
  <1>4. req'[r] \in RequestType /\ call'[r] \in CallType /\ CallInv(req'[r], call'[r])
    BY DEF CoreInv, TypeInv
  <1> QED
    BY <1>1, <1>3, <1>4, NoProviderLease

LEMMA LeaseAsks ==
  ASSUME CoreInv, CoreInv', LeaseInv, NEW r \in Requests,
         \/ \E c \in Clients : Arrive(r, c)
         \/ \E a \in Aliases : ReadBody(r, a)
         \/ Resolve(r) \/ Prepare(r) \/ StartTarget(r)
         \/ BackoffOver(r) \/ BackoffCut(r) \/ BadBody(r) \/ Fail(r)
  PROVE  LeaseOK(req'[r], call'[r], LeasesOf(r)')
PROOF
  <1> DEFINE q == req[r]
  <1>1. q \in RequestType /\ req \in [Requests -> RequestType] /\ q.cfg \in DOMAIN Configs
        /\ config \in DOMAIN Configs
    BY DEF CoreInv, TypeInv, RequestType
  <1>2. UNCHANGED leases
        /\ q.pc \in {"idle", "body", "resolve", "prompt", "target", "backoff", "fail"}
    BY DEF Arrive, ReadBody, Resolve, Prepare, StartTarget, BackoffOver, BackoffCut,
           BadBody, Fail, limitVars, At
  <1>3. ASSUME NEW q1 \in RequestType, NEW s, Ask(r, q1, s)
        PROVE  LeaseOK(req'[r], call'[r], LeasesOf(r)')
    BY <1>2, <1>3, AskPc, LeaseApart
  <1>4. ASSUME NEW q2 \in RequestType, Set(r, q2),
               q2.pc \in {"resolve", "target", "fail", "unwind"}
        PROVE  LeaseOK(req'[r], call'[r], LeasesOf(r)')
    <2>1. req'[r] = q2
      BY <1>1, <1>4 DEF Set
    <2> QED
      BY <1>2, <1>4, <2>1, LeaseApart
  <1>5. ASSUME NEW q1 \in RequestType, NEW a \in Answers, Set(r, Reply(q1, a))
        PROVE  LeaseOK(req'[r], call'[r], LeasesOf(r)')
    BY <1>4, <1>5, ReplyType
  <1>6. ASSUME NEW client \in Clients, Arrive(r, client)
        PROVE  LeaseOK(req'[r], call'[r], LeasesOf(r)')
    <2>1. [q EXCEPT !.cfg = config, !.client = client] \in RequestType
      BY <1>1 DEF RequestType
    <2> QED
      BY <1>3, <1>6, <2>1 DEF Arrive
  <1>7. ASSUME NEW alias \in Aliases, ReadBody(r, alias)
        PROVE  LeaseOK(req'[r], call'[r], LeasesOf(r)')
    <2>1. CASE alias \in DOMAIN Configs[q.cfg].models
      <3> DEFINE m == Configs[q.cfg].models[alias]
      <3>1. m \in ModelType
        BY <1>1, <2>1, ConfiguredModel
      <3>2. Ask(r, [q EXCEPT !.alias = alias, !.model = m], "model")
        BY <1>7, <2>1 DEF ReadBody, Cfg
      <3> HIDE DEF m
      <3>3. [q EXCEPT !.alias = alias, !.model = m] \in RequestType
        BY <1>1, <3>1 DEF RequestType
      <3> QED
        BY <1>3, <3>2, <3>3
    <2>2. CASE alias \notin DOMAIN Configs[q.cfg].models
      <3> DEFINE q2 == [q EXCEPT !.pc = "resolve", !.alias = alias]
      <3>1. q2 \in RequestType /\ q2.pc = "resolve"
        BY <1>1 DEF RequestType, Places
      <3>2. Set(r, q2)
        BY <1>7, <2>2 DEF ReadBody, Cfg
      <3> QED
        BY <1>4, <3>1, <3>2
    <2> QED
      BY <2>1, <2>2
  <1>8. CASE Resolve(r)
    <2>1. ASSUME NEW p \in Discoverable(r),
                 Ask(r, [q EXCEPT !.model = DiscoveredModel(p)], "model")
          PROVE  LeaseOK(req'[r], call'[r], LeasesOf(r)')
      <3>1. DiscoveredModel(p) \in ModelType
        BY <1>1, DiscoveredModelRoute DEF Discoverable, Cfg
      <3>2. [q EXCEPT !.model = DiscoveredModel(p)] \in RequestType
        BY <1>1, <3>1 DEF RequestType
      <3> QED
        BY <1>3, <2>1, <3>2
    <2>2. "noDiscovery" \in Answers /\ "unknownModel" \in Answers
      BY DEF Answers, Refusals
    <2> QED
      BY <1>1, <1>5, <1>8, <2>1, <2>2 DEF Resolve
  <1>9. CASE Prepare(r)
    <2> DEFINE q2 == [q EXCEPT !.pc = "target", !.target = 1]
    <2>1. q2 \in RequestType /\ q2.pc = "target" /\ "badRequest" \in Answers
      BY <1>1 DEF RequestType, Places, Answers, Refusals
    <2> QED
      BY <1>1, <1>4, <1>5, <1>9, <2>1 DEF Prepare
  <1>10. CASE StartTarget(r)
    <2>1. "encodeError" \in Answers
      BY DEF Answers, Refusals
    <2> QED
      BY <1>1, <1>3, <1>5, <1>10, <2>1 DEF StartTarget
  <1>11. CASE BackoffOver(r)
    <2>1. q.attempt + 1 \in Nat
      BY <1>1 DEF RequestType
    <2>2. [q EXCEPT !.attempt = @ + 1] \in RequestType
      BY <1>1, <2>1 DEF RequestType
    <2> QED
      BY <1>3, <1>11, <2>2 DEF BackoffOver
  <1>12. CASE BackoffCut(r)
    <2> DEFINE q2 == [q EXCEPT !.pc = "fail"]
    <2>1. q2 \in RequestType /\ q2.pc = "fail"
      BY <1>1 DEF RequestType, Places
    <2> QED
      BY <1>4, <1>12, <2>1 DEF BackoffCut
  <1>13. CASE BadBody(r)
    <2>1. {"tooLarge", "badRequest"} \subseteq Answers
      BY DEF Answers, Refusals
    <2> QED
      BY <1>1, <1>5, <1>13, <2>1 DEF BadBody
  <1>14. CASE Fail(r)
    <2> DEFINE s == FailureStatus(q)
    <2>1. s \in Answers
      BY <1>1 DEF FailureStatus, RequestType, Failures, Answers
    <2>2. Set(r, Reply(Record(q, s), s))
      BY <1>14 DEF Fail
    <2> HIDE DEF s
    <2> QED
      BY <1>1, <1>5, <2>1, <2>2, RecordType
  <1> QED
    BY <1>6, <1>7, <1>8, <1>9, <1>10, <1>11, <1>12, <1>13, <1>14

LEMMA LeaseReturns ==
  ASSUME CoreInv, CoreInv', LeaseInv, NEW r \in Requests, Granted(r) \/ Denied(r)
  PROVE  LeaseOK(req'[r], call'[r], LeasesOf(r)')
PROOF
  <1> DEFINE q == req[r]
  <1>1. q \in RequestType /\ req \in [Requests -> RequestType] /\ q.pc = "admit"
    BY DEF CoreInv, TypeInv, CallInv, Granted, Denied, Queue!Return
  <1>2. UNCHANGED leases
    BY DEF Granted, Denied, limitVars
  <1>3. ASSUME NEW q2 \in RequestType, Set(r, q2),
               q2.pc \in {"body", "prompt", "target", "fail", "unwind"},
               ~(q.stage = "provider" /\ call[r].ok)
        PROVE  LeaseOK(req'[r], call'[r], LeasesOf(r)')
    <2>1. req'[r] = q2
      BY <1>1, <1>3 DEF Set
    <2> QED
      BY <1>1, <1>2, <1>3, <2>1, LeaseApart
  <1>4. CASE Granted(r)
    <2>1. CASE q.stage \in {"ingress", "model"}
      <3> DEFINE q2 == [q EXCEPT !.pc = IF q.stage = "ingress" THEN "body" ELSE "prompt"]
      <3>1. q2 \in RequestType /\ q2.pc \in {"body", "prompt"}
        BY <1>1 DEF RequestType, Places
      <3>2. Set(r, q2)
        BY <1>4, <2>1 DEF Granted
      <3> QED
        BY <1>3, <2>1, <3>1, <3>2
    <2>2. CASE q.stage = "provider"
      <3> DEFINE q2 == [q EXCEPT !.pc = "upstream", !.late = q.ctx # "live"]
      <3>1. Set(r, q2)
        BY <1>4, <2>2 DEF Granted
      <3>2. q2.pc = "upstream" /\ q2.stage = q.stage /\ q2.cfg = q.cfg
            /\ q2.model = q.model /\ q2.target = q.target
        BY <1>1 DEF RequestType
      <3>3. req'[r] = q2
        BY <1>1, <3>1 DEF Set
      <3>4. LeasesOf(r)' = LeasesOf(r) /\ call[r].ok
            /\ LeaseOK(q, call[r], LeasesOf(r))
        BY <1>2, <1>4 DEF LeasesOf, Granted, LeaseInv
      <3> HIDE DEF q, q2
      <3>5. ScopesOf(q2) = ScopesOf(q)
        BY <2>2, <3>2 DEF ScopesOf
      <3> QED
        BY <1>1, <2>2, <3>2, <3>3, <3>4, <3>5 DEF LeaseOK
    <2> QED
      BY <1>1, <2>1, <2>2 DEF RequestType, Stages
  <1>5. CASE Denied(r)
    <2>1. ~call[r].ok
      BY <1>5 DEF Denied, IngressRefused, ModelRefused, ProviderRefused
    <2>2. CASE q.stage = "provider"
      <3> DEFINE q1 == [q EXCEPT !.limited = TRUE]
      <3>1. q1 \in RequestType
        BY <1>1 DEF RequestType
      <3>2. Set(r, NextTarget(q1))
        BY <1>5, <2>2 DEF Denied, IngressRefused, ModelRefused, ProviderRefused
      <3> HIDE DEF q1
      <3>3. NextTarget(q1).pc \in {"target", "fail"}
        BY <3>1, NextTargetPc
      <3>4. req'[r] = NextTarget(q1)
        BY <1>1, <3>2 DEF Set
      <3> QED
        BY <1>1, <1>2, <2>1, <3>3, <3>4, LeaseApart
    <2>3. CASE q.stage # "provider"
      <3> DEFINE q1 == IF q.stage = "model" THEN Record(q, "busy") ELSE q
      <3>1. "busy" \in Answers
        BY DEF Answers, Refusals
      <3>2. q1 \in RequestType
        BY <1>1, <3>1, RecordType
      <3>3. Set(r, Reply(q1, "busy"))
        BY <1>5, <2>3 DEF Denied, IngressRefused, ModelRefused, ProviderRefused
      <3> HIDE DEF q1
      <3> QED
        BY <1>3, <2>1, <3>1, <3>2, <3>3, ReplyType
    <2> QED
      BY <2>2, <2>3
  <1> QED
    BY <1>4, <1>5

(* The lease of an attempt is given back before the next is considered. *)
LEMMA LeaseAttemptOver ==
  ASSUME CoreInv, CoreInv', LeaseInv, NEW r \in Requests,
         \/ \E timedOut \in BOOLEAN : UpstreamError(r, timedOut)
         \/ \E class \in StatusClasses : UpstreamRetry(r, class)
  PROVE  LeaseOK(req'[r], call'[r], LeasesOf(r)')
PROOF
  <1> DEFINE q == req[r]
  <1>1. q \in RequestType /\ req \in [Requests -> RequestType]
    BY DEF CoreInv, TypeInv
  <1>2. leases' = [leases EXCEPT ![<<r, "provider">>] = Limits!NoLease]
    BY DEF UpstreamError, UpstreamRetry, ReleaseProvider, Limits!Release
  <1>3. LeasesOf(r)'["provider"] = Limits!NoLease
    BY <1>2 DEF LeasesOf, LeaseInv, Stages
  <1>4. req'[r].pc \in {"fail", "target", "backoff"}
    <2>1. ASSUME NEW q1 \in RequestType, NEW q2,
                 \/ q2 = [q1 EXCEPT !.pc = "fail"] \/ q2 = [q1 EXCEPT !.pc = "backoff"]
                 \/ q2 = NextTarget(q1),
                 Set(r, q2)
          PROVE  req'[r].pc \in {"fail", "target", "backoff"}
      <3>1. req'[r] = q2
        BY <1>1, <2>1 DEF Set
      <3>2. q2.pc \in {"fail", "target", "backoff"}
        <4>1. CASE q2 = NextTarget(q1)
          BY <4>1, NextTargetPc
        <4>2. CASE q2 = [q1 EXCEPT !.pc = "fail"] \/ q2 = [q1 EXCEPT !.pc = "backoff"]
          BY <4>2 DEF RequestType
        <4> QED
          BY <2>1, <4>1, <4>2
      <3> QED
        BY <3>1, <3>2
    <2>2. ASSUME NEW timedOut \in BOOLEAN, UpstreamError(r, timedOut)
          PROVE  req'[r].pc \in {"fail", "target", "backoff"}
      <3> DEFINE q1 == [q EXCEPT !.lastErr = TRUE]
                 q2 == AfterError(q1, timedOut)
      <3>1. q1 \in RequestType
        BY <1>1 DEF RequestType
      <3>2. Set(r, q2)
        BY <2>2 DEF UpstreamError
      <3> HIDE DEF q1
      <3>3. \/ q2 = [q1 EXCEPT !.pc = "fail"] \/ q2 = [q1 EXCEPT !.pc = "backoff"]
            \/ q2 = NextTarget(q1)
        BY DEF AfterError
      <3> QED
        BY <2>1, <3>1, <3>2, <3>3
    <2>3. ASSUME NEW class \in StatusClasses, UpstreamRetry(r, class)
          PROVE  req'[r].pc \in {"fail", "target", "backoff"}
      BY <1>1, <2>1, <2>3 DEF UpstreamRetry
    <2> QED
      BY <2>2, <2>3
  <1>5. req'[r] \in RequestType /\ call'[r] \in CallType /\ CallInv(req'[r], call'[r])
    BY DEF CoreInv, TypeInv
  <1> QED
    BY <1>3, <1>4, <1>5, NoProviderLease

(* ... and kept while the answer is streamed, stalled or not. *)
LEMMA LeaseStreams ==
  ASSUME CoreInv, StoryInv, LeaseInv, NEW r \in Requests,
         \/ \E class \in StatusClasses, sse \in EventStream : Commit(r, class, sse)
         \/ ClientStalls(r) \/ ClientResumes(r) \/ StreamEnds(r) \/ WriteFails(r)
  PROVE  LeaseOK(req'[r], call'[r], LeasesOf(r)')
PROOF
  <1> DEFINE q == req[r]
             l == LeasesOf(r)
  <1>1. q \in RequestType /\ req \in [Requests -> RequestType]
        /\ q.pc \in {"upstream", "stream", "stalled"} /\ q.stage = "provider"
        /\ LeaseOK(q, call[r], l)
    BY DEF CoreInv, TypeInv, LeaseInv, Commit, ClientStalls, ClientResumes, StreamEnds,
           WriteFails, At, RouteInv, StageOf
  <1>2. l' = l
    BY DEF LeasesOf, Commit, ClientStalls, ClientResumes, StreamEnds, WriteFails, limitVars
  <1> HIDE DEF l
  <1>3. ASSUME NEW q2, Set(r, q2), q2.pc \in {"stream", "stalled"}, q2.stage = q.stage,
               q2.cfg = q.cfg, q2.model = q.model, q2.target = q.target
        PROVE  LeaseOK(req'[r], call'[r], l')
    <2>1. req'[r] = q2
      BY <1>1, <1>3 DEF Set
    <2> HIDE DEF q
    <2>2. ScopesOf(q2) = ScopesOf(q)
      BY <1>1, <1>3 DEF ScopesOf
    <2> QED
      BY <1>1, <1>2, <1>3, <2>1, <2>2 DEF LeaseOK
  <1>4. ASSUME NEW class \in StatusClasses, NEW sse \in EventStream, Commit(r, class, sse)
        PROVE  LeaseOK(req'[r], call'[r], l')
    <2> DEFINE q2 == [q EXCEPT !.pc = "stream", !.answer = class, !.completed = TRUE,
                               !.sse = sse]
    <2>1. q2.pc = "stream" /\ q2.stage = q.stage /\ q2.cfg = q.cfg
          /\ q2.model = q.model /\ q2.target = q.target
      BY <1>1 DEF RequestType
    <2>2. Set(r, q2)
      BY <1>4 DEF Commit
    <2> QED
      BY <1>3, <2>1, <2>2
  <1>5. CASE ClientStalls(r) \/ ClientResumes(r)
    <2>1. PICK pc \in {"stream", "stalled"} : Set(r, [q EXCEPT !.pc = pc])
      BY <1>5 DEF ClientStalls, ClientResumes
    <2> DEFINE q2 == [q EXCEPT !.pc = pc]
    <2>2. q2.pc = pc /\ q2.stage = q.stage /\ q2.cfg = q.cfg
          /\ q2.model = q.model /\ q2.target = q.target
      BY <1>1 DEF RequestType
    <2>3. Set(r, q2)
      BY <2>1
    <2> HIDE DEF q2
    <2> QED
      BY <1>3, <2>2, <2>3 DEF l
  <1>6. CASE StreamEnds(r) \/ WriteFails(r)
    <2> DEFINE q1 == Record(q, q.answer)
               q2 == [q1 EXCEPT !.pc = "unwind"]
    <2>1. q.completed
      BY <1>6 DEF StoryInv, Story, ReplyInv, StreamEnds, WriteFails, At
    <2>2. q1 \in RequestType
      BY <1>1, RecordType DEF RequestType
    <2>3. q1.completed = q.completed
      BY <1>1 DEF Record, RequestType
    <2>4. Set(r, q2)
      BY <1>6 DEF StreamEnds, WriteFails
    <2> HIDE DEF q1
    <2>5. q2.pc = "unwind" /\ q2.completed
      BY <2>1, <2>2, <2>3 DEF RequestType
    <2>6. req'[r] = q2
      BY <1>1, <2>4 DEF Set
    <2> QED
      BY <2>5, <2>6 DEF LeaseOK
  <1> QED
    BY <1>4, <1>5, <1>6 DEF l

LEMMA LeaseContext ==
  ASSUME CoreInv, LeaseInv, NEW r \in Requests, NEW why \in ContextEnds, EndContext(r, why)
  PROVE  LeaseOK(req'[r], call'[r], LeasesOf(r)')
PROOF
  <1> DEFINE q == req[r]
             q2 == [q EXCEPT !.ctx = why]
  <1>1. q \in RequestType /\ req \in [Requests -> RequestType]
        /\ LeaseOK(q, call[r], LeasesOf(r))
    BY DEF CoreInv, TypeInv, LeaseInv
  <1>2. /\ q2.pc = q.pc /\ q2.stage = q.stage /\ q2.cfg = q.cfg /\ q2.client = q.client
        /\ q2.alias = q.alias /\ q2.model = q.model /\ q2.target = q.target
        /\ q2.completed = q.completed
    BY <1>1 DEF RequestType
  <1>3. req' = [req EXCEPT ![r] = q2] /\ call'[r] = call[r]
        /\ LeasesOf(r)' = LeasesOf(r)
    BY DEF EndContext, Set, queueVars, limitVars, LeasesOf
  <1> HIDE DEF q, q2
  <1>4. req'[r] = q2
    BY <1>1, <1>3
  <1>5. ScopesOf(q2) = ScopesOf(q)
    BY <1>2 DEF ScopesOf
  <1> QED
    BY <1>1, <1>2, <1>3, <1>4, <1>5 DEF LeaseOK

(* Inside wait: a lease is taken exactly when the call is granted. *)
LEMMA LeaseWaits ==
  ASSUME CoreInv, LeaseInv, NEW r \in Requests,
         Try(r) \/ PollAgain(r) \/ EnterQueue(r) \/ LeaveQueue(r) \/ GiveUpWaiting(r)
  PROVE  LeaseOK(req'[r], call'[r], LeasesOf(r)')
PROOF
  <1> DEFINE q == req[r]
             c == call[r]
             l == LeasesOf(r)
  <1>1. q \in RequestType /\ q.pc = "admit" /\ LeaseOK(q, c, l) /\ c \in CallType
        /\ CallInv(q, c) /\ call \in [Requests -> CallType]
    BY DEF CoreInv, TypeInv, LeaseInv, CallInv, Try, PollAgain, EnterQueue, LeaveQueue,
           GiveUpWaiting, Queue!TryFirst, Queue!Poll, Queue!Enter, Queue!Leave,
           Queue!Expire
  <1>2. req'[r] = q
    BY DEF Try, PollAgain, EnterQueue, LeaveQueue, GiveUpWaiting
  <1>3. ASSUME UNCHANGED leases, call'[r].ok <=> c.ok
        PROVE  LeaseOK(req'[r], call'[r], l')
    <2>1. l' = l
      BY <1>3 DEF LeasesOf
    <2> QED
      BY <1>1, <1>2, <1>3, <2>1 DEF LeaseOK
  <1>4. ASSUME Limits!Admit(<<r, q.stage>>, Scopes(r)), call'[r].ok, ~c.ok
        PROVE  LeaseOK(req'[r], call'[r], l')
    <2>1. leases' = [leases EXCEPT ![<<r, q.stage>>] = Scopes(r)] /\ q.stage \in Stages
      BY <1>1, <1>4 DEF Limits!Admit, RequestType
    <2>2. l'[q.stage] = ScopesOf(q) /\ \A s \in Stages \ {q.stage} : l'[s] = l[s]
      BY <2>1, ScopesOfRequest DEF LeasesOf, LeaseInv
    <2>3. "provider" \in Stages
      BY DEF Stages
    <2>4. q.stage # "provider" => l'["provider"] = l["provider"]
      BY <2>2, <2>3
    <2> HIDE DEF q, c, l
    <2> QED
      BY <1>1, <1>2, <1>4, <2>2, <2>4 DEF LeaseOK
  <1>5. CASE Try(r)
    <2>1. c.at = "try" /\ ~c.ok
      BY <1>1, <1>5 DEF Try, Queue!TryFirst, CallInv
    <2>2. CASE Queue!TryFirst(r, TRUE) /\ Limits!Admit(<<r, q.stage>>, Scopes(r))
      <3>1. call'[r].ok
        BY <1>1, <2>2 DEF Queue!TryFirst
      <3> QED
        BY <1>4, <2>1, <2>2, <3>1
    <2>3. CASE Queue!TryFirst(r, FALSE) /\ Limits!Refuse(Scopes(r))
      <3>1. call'[r].ok <=> c.ok
        BY <1>1, <2>3 DEF Queue!TryFirst, CallType
      <3> QED
        BY <1>3, <2>3, <3>1 DEF Limits!Refuse
    <2> QED
      BY <1>5, <2>2, <2>3 DEF Try
  <1>6. CASE PollAgain(r)
    <2>1. c.at = "poll" /\ ~c.ok
      BY <1>1, <1>6 DEF PollAgain, Queue!Poll, CallInv
    <2>2. CASE Queue!Poll(r, TRUE) /\ Limits!Admit(<<r, q.stage>>, Scopes(r))
      <3>1. call'[r].ok
        BY <1>1, <2>2 DEF Queue!Poll, CallType
      <3> QED
        BY <1>4, <2>1, <2>2, <3>1
    <2>3. CASE Queue!Poll(r, FALSE) /\ Limits!Refuse(Scopes(r))
      <3>1. call'[r].ok <=> c.ok
        BY <1>1, <2>3 DEF Queue!Poll, CallType
      <3> QED
        BY <1>3, <2>3, <3>1 DEF Limits!Refuse
    <2> QED
      BY <1>6, <2>2, <2>3 DEF PollAgain
  <1>7. CASE EnterQueue(r)
    <2>1. UNCHANGED leases /\ Queue!Enter(r)
      BY <1>7 DEF EnterQueue, limitVars
    <2>2. ~c.ok
      BY <1>1, <2>1 DEF Queue!Enter, CallInv
    <2>3. call'[r].ok <=> c.ok
      <3>1. CASE Queue!Room
        BY <1>1, <2>1, <2>2, <3>1 DEF Queue!Enter
      <3>2. CASE ~Queue!Room
        BY <1>1, <2>1, <3>2 DEF Queue!Enter, CallType
      <3> QED
        BY <3>1, <3>2
    <2> QED
      BY <1>3, <2>1, <2>3
  <1>8. CASE LeaveQueue(r) \/ GiveUpWaiting(r)
    <2>1. UNCHANGED leases /\ (call'[r].ok <=> c.ok)
      BY <1>1, <1>8 DEF LeaveQueue, GiveUpWaiting, limitVars, Queue!Leave, Queue!Expire,
                        CallType
    <2> QED
      BY <1>3, <2>1
  <1> QED
    BY <1>5, <1>6, <1>7, <1>8

(* The deferred releases, and the end. *)
LEMMA LeaseUnwinds ==
  ASSUME CoreInv, LeaseInv, NEW r \in Requests, Unwind(r) \/ Finish(r)
  PROVE  LeaseOK(req'[r], call'[r], LeasesOf(r)')
PROOF
  <1> DEFINE q == req[r]
             l == LeasesOf(r)
  <1>1. q \in RequestType /\ req \in [Requests -> RequestType] /\ q.pc = "unwind"
        /\ LeaseOK(q, call[r], l)
    BY DEF CoreInv, TypeInv, LeaseInv, Unwind, Finish, At
  <1>2. CASE Unwind(r)
    <2>1. req'[r] = q /\ leases' = [leases EXCEPT ![<<r, Innermost(Held(r))>>] = Limits!NoLease]
      BY <1>2 DEF Unwind, Limits!Release
    <2>2. l'["provider"] # Limits!NoLease => l["provider"] # Limits!NoLease
      BY <2>1 DEF LeasesOf, LeaseInv, Stages
    <2> HIDE DEF q, l
    <2> QED
      BY <1>1, <2>1, <2>2 DEF LeaseOK, l
  <1>3. CASE Finish(r)
    <2> DEFINE q2 == [q EXCEPT !.pc = "done"]
    <2>1. req' = [req EXCEPT ![r] = q2] /\ l' = l /\ Held(r) = {}
      BY <1>3 DEF Finish, Set, limitVars, LeasesOf
    <2>2. req'[r] = q2 /\ q2.pc = "done"
      BY <1>1, <2>1 DEF RequestType
    <2>3. \A s \in Stages : l[s] = Limits!NoLease
      BY <2>1 DEF Held, LeasesOf
    <2> HIDE DEF q, l, q2
    <2>4. "provider" \in Stages
      BY DEF Stages
    <2> QED
      BY <2>1, <2>2, <2>3, <2>4 DEF LeaseOK, l
  <1> QED
    BY <1>2, <1>3

LEMMA LeaseInductive == CoreInv /\ StoryInv /\ LeaseInv /\ [Next]_vars => LeaseInv'
PROOF
  <1> SUFFICES ASSUME CoreInv, StoryInv, LeaseInv, [Next]_vars PROVE LeaseInv'
    OBVIOUS
  <1>1. CoreInv' /\ leases' \in [Requests \X Stages -> AllCalls \cup {Limits!NoLease}]
    BY CoreInductive, LeaseType
  <1> SUFFICES ASSUME NEW r \in Requests
               PROVE  LeaseOK(req'[r], call'[r], LeasesOf(r)')
    BY <1>1 DEF LeaseInv
  <1>2. ASSUME NEW s \in Requests, Handle(s)
        PROVE  LeaseOK(req'[r], call'[r], LeasesOf(r)')
    <2>1. CASE s # r
      <3>1. req'[r] = req[r] /\ call'[r] = call[r] /\ LeasesOf(r)' = LeasesOf(r)
        BY <1>2, <2>1, OwnStep, OwnLease
      <3> QED
        BY <3>1 DEF LeaseInv
    <2>2. CASE s = r
      BY <1>1, <1>2, <2>2, LeaseAsks, LeaseReturns, LeaseAttemptOver, LeaseStreams,
         LeaseContext, LeaseWaits, LeaseUnwinds
      DEF Handle, Admission
    <2> QED
      BY <2>1, <2>2
  <1>3. CASE UNCHANGED <<req, call, leases>>
    BY <1>3 DEF LeaseInv, LeasesOf
  <1> QED
    BY <1>2, <1>3
    DEF Next, ReloadConfig, ReloadQueue, ReloadLimits, Tick, Rest, vars, limitVars,
        queueVars, Queue!SetMax, Limits!Clear, Limits!Tick

LEMMA LeaseInit == Init => LeaseInv
PROOF
  <1> SUFFICES ASSUME Init PROVE LeaseInv
    OBVIOUS
  <1>1. leases = [h \in Requests \X Stages |-> Limits!NoLease]
    BY DEF Init, Limits!Init
  <1>2. ASSUME NEW r \in Requests
        PROVE  LeaseOK(req[r], call[r], LeasesOf(r))
    <2>1. \A s \in Stages : LeasesOf(r)[s] = Limits!NoLease
      BY <1>1 DEF LeasesOf
    <2>2. req[r].pc = "idle" /\ "provider" \in Stages
      BY DEF Init, NoRequest, Stages
    <2> QED
      BY <2>1, <2>2 DEF LeaseOK
  <1> QED
    BY <1>1, <1>2 DEF LeaseInv

LEMMA LeaseAlways == Spec => [](CoreInv /\ StoryInv /\ LeaseInv)
PROOF
  BY StoryAlways, LeaseInit, LeaseInductive, PTL DEF Spec

(***************************************************************************)
(* A provider's capacity is taken only for the attempt it was granted to,  *)
(* or for the answer that attempt won: none is held during a backoff or    *)
(* while another target is considered.                                     *)
(***************************************************************************)
THEOREM LeaseOnlyInAttempt == Spec => []ProviderLeaseOnlyInAttempt
PROOF
  <1>1. CoreInv /\ StoryInv /\ LeaseInv => ProviderLeaseOnlyInAttempt
    BY DEF LeaseInv, LeaseOK, LeasesOf, ProviderLeaseOnlyInAttempt, Held, Stages, At
  <1> QED
    BY <1>1, LeaseAlways, PTL

-----------------------------------------------------------------------------
(* The limits of all configurations: finitely many, so each has a largest. *)

LEMMA LeastNumber ==
  ASSUME NEW T, T \subseteq Nat, T # {}
  PROVE  \E x \in T : \A y \in T : x <= y
PROOF
  <1> DEFINE R == OpToRel(<, Nat)
  <1>1. PICK x \in T : \A y \in T : ~(<<y, x>> \in R)
    <2>1. IsWellFoundedOn(R, Nat)
      BY NatLessThanWellFounded
    <2> HIDE DEF R
    <2> QED
      BY <2>1, WFMin
  <1>2. \A a, b \in Nat : a < b => <<a, b>> \in R
    BY DEF OpToRel
  <1> HIDE DEF R
  <1>3. \A y \in T : ~(y < x)
    BY <1>1, <1>2
  <1> QED
    BY <1>3

LEMMA ImageFinite ==
  ASSUME NEW S, IsFiniteSet(S), NEW f, DOMAIN f = S, f = [x \in S |-> f[x]]
  PROVE  IsFiniteSet({f[x] : x \in S})
PROOF
  <1> DEFINE T == {f[x] : x \in S}
  <1>1. f \in [S -> T] /\ \A t \in T : \E x \in S : f[x] = t
    BY Zenon
  <1>2. f \in Surjection(S, T)
    BY <1>1 DEF Surjection
  <1> QED
    BY <1>2, FS_Surjection

(* A finite set of numbers has a largest one. *)
LEMMA LargestNumber ==
  ASSUME NEW S, S \subseteq Nat, S # {}, IsFiniteSet(S)
  PROVE  Max(S) \in S /\ \A y \in S : y <= Max(S)
PROOF
  <1> DEFINE n == Cardinality(S)
  <1>0. n \in Nat /\ ExistsBijection(1 .. n, S)
    BY FS_CardinalityType
  <1>1. PICK Q \in [1 .. n -> S] : \A s \in S : \E i \in 1 .. n : Q[i] = s
    BY <1>0 DEF ExistsBijection, Bijection, Surjection
  <1> HIDE DEF n
  <1> DEFINE Has(i) == \E x \in S : \A j \in 1 .. i : Q[j] <= x
             Hasnt == {i \in 0 .. n : ~Has(i)}
  <1>2. n \in Nat /\ \A i \in 1 .. n : Q[i] \in S /\ Q[i] \in Nat
    BY <1>0
  <1>3. PICK e : e \in S
    OBVIOUS
  <1> HIDE DEF Has, Hasnt
  <1>4. Hasnt = {}
    <2> SUFFICES ASSUME Hasnt # {} PROVE FALSE
      OBVIOUS
    <2>1. Hasnt \subseteq Nat /\ Hasnt \subseteq 0 .. n
      BY <1>2 DEF Hasnt
    <2>2. PICK m \in Hasnt : \A i \in Hasnt : m <= i
      BY <2>1, LeastNumber
    <2>3. m \in 0 .. n /\ ~Has(m)
      BY <2>2 DEF Hasnt
    <2>4. m # 0
      <3>1. Has(0)
        BY <1>3 DEF Has
      <3> QED
        BY <2>3, <3>1
    <2>5. m \in 1 .. n /\ m - 1 \in 0 .. n
      BY <1>2, <2>3, <2>4
    <2>6. m - 1 \notin Hasnt
      BY <1>2, <2>2, <2>5
    <2>7. Has(m - 1)
      BY <2>5, <2>6 DEF Hasnt
    <2>8. PICK x \in S : \A j \in 1 .. m - 1 : Q[j] <= x
      BY <2>7 DEF Has
    <2>9. x \in Nat /\ Q[m] \in S /\ Q[m] \in Nat /\ m \in Nat
      BY <1>2, <2>5, <2>8
    <2>10. ASSUME NEW y \in S, x <= y, Q[m] <= y
           PROVE  FALSE
      <3>1. y \in Nat
        OBVIOUS
      <3>2. ASSUME NEW j \in 1 .. m
            PROVE  Q[j] <= y
        <4>1. CASE j = m
          BY <2>10, <4>1
        <4>2. CASE j # m
          <5>1. j \in 1 .. m - 1 /\ j \in 1 .. n
            BY <1>2, <2>5, <2>9, <4>2
          <5>2. Q[j] <= x /\ Q[j] \in Nat
            BY <1>2, <2>8, <5>1
          <5> QED
            BY <2>9, <2>10, <3>1, <5>2
        <4> QED
          BY <4>1, <4>2
      <3> QED
        BY <2>3, <3>2 DEF Has
    <2>11. CASE Q[m] <= x
      BY <2>9, <2>10, <2>11
    <2>12. CASE ~(Q[m] <= x)
      BY <2>9, <2>10, <2>12
    <2> QED
      BY <2>11, <2>12
  <1>5. Has(n)
    BY <1>2, <1>4 DEF Hasnt
  <1>6. PICK x \in S : \A j \in 1 .. n : Q[j] <= x
    BY <1>5 DEF Has
  <1>7. \A y \in S : x >= y
    BY <1>1, <1>2, <1>6
  <1>8. Max(S) \in S /\ \A y \in S : Max(S) >= y
    BY <1>7, Zenon DEF Max
  <1> QED
    BY <1>8

CallsOf(i) ==
  LET cfg == Configs[i] IN
  {IngressCall(cfg, c) : c \in Clients}
  \cup {ModelCall(a, cfg.models[a].limits) : a \in DOMAIN cfg.models}
  \cup {ModelCall(a, NoLimits) : a \in Aliases \ DOMAIN cfg.models}
  \cup {ProviderCall(cfg, p) : p \in DOMAIN cfg.providers}

(* What LimitStore asks of a call, but for the ceiling. *)
WellFormed(c) ==
  /\ c.order \in Seq(DOMAIN c.limits)
  /\ c.order # << >>
  /\ DOMAIN c.limits = {c.order[i] : i \in DOMAIN c.order}
  /\ \A i, j \in DOMAIN c.order : c.order[i] = c.order[j] => i = j
  /\ \A k \in DOMAIN c.limits : c.limits[k] \in Limits!Limits /\ k = <<k[1], k[2]>>

LEMMA OneScope ==
  ASSUME NEW a, NEW b, NEW l \in Limits!Limits
  PROVE  WellFormed([order |-> <<<<a, b>>>>, limits |-> [x \in {<<a, b>>} |-> l]])
PROOF
  <1> DEFINE k == <<a, b>>
             c == [order |-> <<k>>, limits |-> [x \in {k} |-> l]]
  <1>1. c.order = <<k>> /\ c.limits = [x \in {k} |-> l] /\ k = <<k[1], k[2]>>
    OBVIOUS
  <1> HIDE DEF k, c
  <1>2. DOMAIN c.limits = {k} /\ c.limits[k] = l /\ DOMAIN c.order = {1}
        /\ c.order[1] = k /\ c.order # << >>
    BY <1>1
  <1>3. c.order \in Seq(DOMAIN c.limits)
    BY <1>1, <1>2, Singleton
  <1>4. WellFormed(c)
    BY <1>1, <1>2, <1>3 DEF WellFormed
  <1> QED
    BY <1>4 DEF c, k

LEMMA CallWellFormed ==
  ASSUME NEW i \in DOMAIN Configs, NEW c \in CallsOf(i)
  PROVE  WellFormed(c)
PROOF
  <1> DEFINE cfg == Configs[i]
  <1>1. ValidConfig(cfg)
    BY ConfigIsValid
  <1>2. ASSUME NEW client \in Clients, c = IngressCall(cfg, client)
        PROVE  WellFormed(c)
    <2> DEFINE k1 == <<"ingress", "">>
               k2 == <<"client", client>>
               l1 == [NoLimits EXCEPT !.max = cfg.ingress]
    <2>1. cfg.ingress \in Nat /\ cfg.client \in Limits!Limits
      BY <1>1 DEF ValidConfig
    <2>2. l1 \in Limits!Limits
      BY <2>1 DEF Limits!Limits, NoLimits
    <2>3. k1 # k2 /\ k1 = <<k1[1], k1[2]>> /\ k2 = <<k2[1], k2[2]>>
      OBVIOUS
    <2>4. c.order = <<k1, k2>>
          /\ c.limits = [k \in {k1, k2} |-> IF k = k1 THEN l1 ELSE cfg.client]
      BY <1>2 DEF IngressCall
    <2> HIDE DEF k1, k2, l1
    <2>5. /\ DOMAIN c.limits = {k1, k2} /\ c.limits[k1] = l1 /\ c.limits[k2] = cfg.client
          /\ DOMAIN c.order = {1, 2} /\ c.order[1] = k1 /\ c.order[2] = k2
          /\ c.order # << >>
      BY <2>3, <2>4
    <2>6. c.order \in Seq(DOMAIN c.limits)
      BY <2>4, <2>5
    <2> QED
      BY <2>1, <2>2, <2>3, <2>5, <2>6 DEF WellFormed
  <1>3. ASSUME NEW a, NEW l \in Limits!Limits, c = ModelCall(a, l)
        PROVE  WellFormed(c)
    BY <1>3, OneScope DEF ModelCall
  <1>4. ASSUME NEW a \in DOMAIN cfg.models
        PROVE  cfg.models[a].limits \in Limits!Limits
    BY ConfiguredModel DEF ModelType
  <1>5. ASSUME NEW p \in DOMAIN cfg.providers, c = ProviderCall(cfg, p)
        PROVE  WellFormed(c)
    <2>1. cfg.providers[p].limits \in Limits!Limits
      BY <1>1 DEF ValidConfig
    <2> QED
      BY <1>5, <2>1, OneScope DEF ProviderCall
  <1> QED
    BY <1>2, <1>3, <1>4, <1>5, NoLimitsType DEF CallsOf

LEMMA AllCallsOf == AllCalls = UNION {CallsOf(i) : i \in DOMAIN Configs}
PROOF
  BY DEF AllCalls, CallsOf

LEMMA CallsFinite == IsFiniteSet(AllCalls)
PROOF
  <1>1. ASSUME NEW i \in DOMAIN Configs
        PROVE  IsFiniteSet(CallsOf(i))
    <2> DEFINE cfg == Configs[i]
               f1 == [c \in Clients |-> IngressCall(cfg, c)]
               f2 == [a \in DOMAIN cfg.models |-> ModelCall(a, cfg.models[a].limits)]
               f3 == [a \in Aliases \ DOMAIN cfg.models |-> ModelCall(a, NoLimits)]
               f4 == [p \in DOMAIN cfg.providers |-> ProviderCall(cfg, p)]
    <2>1. IsFiniteSet(Clients) /\ IsFiniteSet(DOMAIN cfg.models)
          /\ IsFiniteSet(DOMAIN cfg.providers) /\ IsFiniteSet(Aliases)
      BY BoundsAssumption, ConfigIsValid DEF ValidConfig
    <2>2. IsFiniteSet(Aliases \ DOMAIN cfg.models)
      BY <2>1, FS_Subset
    <2>3. IsFiniteSet({f1[c] : c \in Clients})
      BY <2>1, ImageFinite
    <2>4. IsFiniteSet({f2[a] : a \in DOMAIN cfg.models})
      BY <2>1, ImageFinite
    <2>5. IsFiniteSet({f3[a] : a \in Aliases \ DOMAIN cfg.models})
      BY <2>2, ImageFinite
    <2>6. IsFiniteSet({f4[p] : p \in DOMAIN cfg.providers})
      BY <2>1, ImageFinite
    <2>7. CallsOf(i) = {f1[c] : c \in Clients} \cup {f2[a] : a \in DOMAIN cfg.models}
                       \cup {f3[a] : a \in Aliases \ DOMAIN cfg.models}
                       \cup {f4[p] : p \in DOMAIN cfg.providers}
      BY Zenon DEF CallsOf
    <2>8. ASSUME NEW S1, NEW S2, NEW S3, NEW S4, IsFiniteSet(S1), IsFiniteSet(S2),
                 IsFiniteSet(S3), IsFiniteSet(S4)
          PROVE  IsFiniteSet(S1 \cup S2 \cup S3 \cup S4)
      <3>1. IsFiniteSet(S1 \cup S2)
        BY <2>8, FS_Union
      <3>2. IsFiniteSet((S1 \cup S2) \cup S3)
        BY <2>8, <3>1, FS_Union
      <3> QED
        BY <2>8, <3>2, FS_Union
    <2> DEFINE T1 == {f1[c] : c \in Clients}
               T2 == {f2[a] : a \in DOMAIN cfg.models}
               T3 == {f3[a] : a \in Aliases \ DOMAIN cfg.models}
               T4 == {f4[p] : p \in DOMAIN cfg.providers}
    <2>9. IsFiniteSet(T1) /\ IsFiniteSet(T2) /\ IsFiniteSet(T3) /\ IsFiniteSet(T4)
      BY <2>3, <2>4, <2>5, <2>6
    <2>10. CallsOf(i) = T1 \cup T2 \cup T3 \cup T4
      BY <2>7
    <2> HIDE DEF T1, T2, T3, T4
    <2> QED
      BY <2>8, <2>9, <2>10
  <1> DEFINE f == [i \in DOMAIN Configs |-> CallsOf(i)]
             All == {f[i] : i \in DOMAIN Configs}
  <1>2. IsFiniteSet(DOMAIN Configs)
    BY ConfigsAssumption, FS_Interval
  <1>3. IsFiniteSet(All)
    BY <1>2, ImageFinite
  <1>4. \A S \in All : IsFiniteSet(S)
    BY <1>1
  <1>5. IsFiniteSet(UNION All)
    BY <1>3, <1>4, FS_UNION
  <1>6. UNION All = AllCalls
    BY AllCallsOf
  <1> QED
    BY <1>5, <1>6

(* The ceiling is above every limit that some configuration sets. *)
LEMMA CeilingIsLargest ==
  ASSUME NEW k \in ScopeKeys
  PROVE  /\ ScopeCeiling[k] \in Limits!Limits
         /\ \A c \in AllCalls : k \in DOMAIN c.limits =>
              /\ c.limits[k].rpm <= ScopeCeiling[k].rpm
              /\ c.limits[k].burst <= ScopeCeiling[k].burst
              /\ c.limits[k].max <= ScopeCeiling[k].max
PROOF
  <1> DEFINE D == {d \in AllCalls : k \in DOMAIN d.limits}
             f == [c \in D |-> c.limits[k]]
             given == {c.limits[k] : c \in D}
  <1>1. IsFiniteSet(D)
    BY CallsFinite, FS_Subset
  <1>2. IsFiniteSet(given)
    <2>1. given = {f[c] : c \in D}
      OBVIOUS
    <2> HIDE DEF D, given
    <2>2. IsFiniteSet({f[c] : c \in D})
      BY <1>1, ImageFinite
    <2> QED
      BY <2>1, <2>2
  <1>3. D # {}
    BY DEF ScopeKeys
  <1>4. given \subseteq Limits!Limits /\ given # {}
    <2>1. \A c \in AllCalls : WellFormed(c)
      BY CallWellFormed, AllCallsOf
    <2>2. \A c \in D : c.limits[k] \in Limits!Limits
      BY <2>1 DEF WellFormed
    <2> HIDE DEF D
    <2> QED
      BY <1>3, <2>2
  <1>5. ScopeCeiling[k] = [rpm |-> Max({l.rpm : l \in given}),
                           burst |-> Max({l.burst : l \in given}),
                           max |-> Max({l.max : l \in given})]
    BY DEF ScopeCeiling, LargestLimits
  <1>6. \A c \in AllCalls : k \in DOMAIN c.limits => c.limits[k] \in given
    OBVIOUS
  <1> HIDE DEF given, D, f
  <1> DEFINE rpms == {l.rpm : l \in given}
             bursts == {l.burst : l \in given}
             maxs == {l.max : l \in given}
             g == [l \in given |-> l.rpm]
             h == [l \in given |-> l.burst]
             m == [l \in given |-> l.max]
  <1>7. rpms \subseteq Nat /\ bursts \subseteq Nat /\ maxs \subseteq Nat
    BY <1>4 DEF Limits!Limits
  <1>8. rpms # {} /\ bursts # {} /\ maxs # {}
    BY <1>4
  <1>9. rpms = {g[l] : l \in given} /\ bursts = {h[l] : l \in given}
        /\ maxs = {m[l] : l \in given}
    OBVIOUS
  <1>10. IsFiniteSet(rpms)
    <2>1. IsFiniteSet({g[l] : l \in given})
      BY <1>2, ImageFinite
    <2> QED
      BY <1>9, <2>1
  <1>11. IsFiniteSet(bursts)
    <2>1. IsFiniteSet({h[l] : l \in given})
      BY <1>2, ImageFinite
    <2> QED
      BY <1>9, <2>1
  <1>12. IsFiniteSet(maxs)
    <2>1. IsFiniteSet({m[l] : l \in given})
      BY <1>2, ImageFinite
    <2> QED
      BY <1>9, <2>1
  <1>13. ASSUME NEW l \in given
         PROVE  l.rpm \in rpms /\ l.burst \in bursts /\ l.max \in maxs
    OBVIOUS
  <1>14. ScopeCeiling[k] = [rpm |-> Max(rpms), burst |-> Max(bursts), max |-> Max(maxs)]
    BY <1>5
  <1> HIDE DEF rpms, bursts, maxs, g, h, m
  <1>15. Max(rpms) \in Nat /\ \A y \in rpms : y <= Max(rpms)
    BY <1>7, <1>8, <1>10, LargestNumber
  <1>16. Max(bursts) \in Nat /\ \A y \in bursts : y <= Max(bursts)
    BY <1>7, <1>8, <1>11, LargestNumber
  <1>17. Max(maxs) \in Nat /\ \A y \in maxs : y <= Max(maxs)
    BY <1>7, <1>8, <1>12, LargestNumber
  <1> QED
    BY <1>6, <1>13, <1>14, <1>15, <1>16, <1>17 DEF Limits!Limits

-----------------------------------------------------------------------------
(***************************************************************************)
(* The theorems about the components, inside the gateway.  An instance of  *)
(* a module names the library's operators anew; they are the same ones.    *)
(***************************************************************************)
Store == INSTANCE LimitStoreProofs
  WITH Keys <- ScopeKeys, Holders <- Requests \X Stages, Calls <- AllCalls,
       Ceiling <- ScopeCeiling,
       Watched <- {}, window <- << >>   \* the observer of RateWindow is not used

QueueSizes == {Configs[i].queue : i \in DOMAIN Configs}

Room == INSTANCE RequestQueueProofs WITH Callers <- Requests, Sizes <- QueueSizes

LEMMA StoreFinite ==
  ASSUME NEW S
  PROVE  /\ Store!IsFiniteSet(S) = IsFiniteSet(S)
         /\ Store!Cardinality(S) = Cardinality(S)
PROOF
  <1>1. \A T : Store!IsFiniteSet(T) = IsFiniteSet(T)
    BY Zenon DEF Store!IsFiniteSet, IsFiniteSet
  <1> QED
    BY <1>1, Zenon DEF Store!Cardinality, Cardinality

LEMMA RoomFinite ==
  ASSUME NEW S
  PROVE  /\ Room!IsFiniteSet(S) = IsFiniteSet(S)
         /\ Room!Cardinality(S) = Cardinality(S)
PROOF
  <1>1. \A T : Room!IsFiniteSet(T) = IsFiniteSet(T)
    BY Zenon DEF Room!IsFiniteSet, IsFiniteSet
  <1> QED
    BY <1>1, Zenon DEF Room!Cardinality, Cardinality

LEMMA HoldersFinite == IsFiniteSet(Requests \X Stages)
PROOF
  <1>1. IsFiniteSet(Stages)
    <2>1. Stages = {"ingress"} \cup {"model"} \cup {"provider"}
      BY DEF Stages
    <2>2. IsFiniteSet({"ingress"}) /\ IsFiniteSet({"model"}) /\ IsFiniteSet({"provider"})
      BY FS_Singleton
    <2>3. IsFiniteSet({"ingress"} \cup {"model"})
      BY <2>2, FS_Union
    <2> QED
      BY <2>1, <2>2, <2>3, FS_Union
  <1> QED
    BY <1>1, BoundsAssumption, FS_Product

(* The gateway keeps what LimitStore assumes of its parameters ... *)
LEMMA StoreParameters ==
  /\ Store!IsFiniteSet(Requests \X Stages)
  /\ Unit \in Nat \ {0}
  /\ MaxClock \in Nat
  /\ ScopeCeiling \in [ScopeKeys -> Store!Limits]
PROOF
  <1>1. ScopeCeiling \in [ScopeKeys -> Limits!Limits]
    <2>1. \A k \in ScopeKeys : ScopeCeiling[k] \in Limits!Limits
      BY CeilingIsLargest
    <2>2. ScopeCeiling = [k \in ScopeKeys |-> ScopeCeiling[k]]
      BY DEF ScopeCeiling
    <2> QED
      BY <2>1, <2>2
  <1>2. Store!Limits = Limits!Limits
    BY DEF Store!Limits, Limits!Limits
  <1>3. Store!IsFiniteSet(Requests \X Stages)
    BY HoldersFinite, StoreFinite
  <1> QED
    BY <1>1, <1>2, <1>3, BoundsAssumption

LEMMA StoreCalls ==
  \A c \in AllCalls :
    /\ c.order \in Seq(ScopeKeys)
    /\ c.order # << >>
    /\ DOMAIN c.limits = {c.order[i] : i \in DOMAIN c.order}
    /\ \A i, j \in DOMAIN c.order : c.order[i] = c.order[j] => i = j
    /\ \A k \in DOMAIN c.limits :
         /\ c.limits[k] \in Store!Limits
         /\ c.limits[k].rpm <= ScopeCeiling[k].rpm
         /\ c.limits[k].burst <= ScopeCeiling[k].burst
         /\ c.limits[k].max <= ScopeCeiling[k].max
PROOF
  <1> TAKE c \in AllCalls
  <1>1. WellFormed(c)
    BY CallWellFormed, AllCallsOf
  <1>2. DOMAIN c.limits \subseteq ScopeKeys
    BY DEF ScopeKeys
  <1>3. c.order \in Seq(ScopeKeys)
    BY <1>1, <1>2 DEF WellFormed
  <1>4. ASSUME NEW k \in DOMAIN c.limits
        PROVE  /\ c.limits[k] \in Store!Limits
               /\ c.limits[k].rpm <= ScopeCeiling[k].rpm
               /\ c.limits[k].burst <= ScopeCeiling[k].burst
               /\ c.limits[k].max <= ScopeCeiling[k].max
    <2>1. c.limits[k] \in Limits!Limits
      BY <1>1 DEF WellFormed
    <2>2. Store!Limits = Limits!Limits
      BY DEF Store!Limits, Limits!Limits
    <2> QED
      BY <1>2, <2>1, <2>2, CeilingIsLargest
  <1> QED
    BY <1>1, <1>3, <1>4 DEF WellFormed

(* ... and what RequestQueue does. *)
LEMMA QueueParameters ==
  Room!IsFiniteSet(Requests) /\ QueueSizes \subseteq Nat /\ QueueSizes # {}
PROOF
  <1>1. Room!IsFiniteSet(Requests)
    BY BoundsAssumption, RoomFinite
  <1>2. QueueSizes \subseteq Nat
    BY ConfigsAssumption DEF ValidConfig, QueueSizes
  <1>3. Configs[1].queue \in QueueSizes
    BY ConfigsAssumption DEF QueueSizes
  <1> QED
    BY <1>1, <1>2, <1>3

LEMMA SameStore == Limits!Spec => Store!Spec
PROOF
  <1>1. Limits!Init => Store!Init
    BY DEF Limits!Init, Store!Init, Limits!NoLease, Store!NoLease
  <1>2. Limits!vars = Store!vars
    BY DEF Limits!vars, Store!vars
  <1>3. Limits!Next => Store!Next
    BY Zenon DEF Limits!Next, Store!Next, Limits!Admit, Store!Admit, Limits!Refuse, Store!Refuse,
           Limits!Release, Store!Release, Limits!Clear, Store!Clear, Limits!Tick,
           Store!Tick, Limits!NoLease, Store!NoLease, Limits!Admissible,
           Store!Admissible, Limits!Refuses, Store!Refuses, Limits!AtCapacity,
           Store!AtCapacity, Limits!OutOfTokens, Store!OutOfTokens, Limits!Rated,
           Store!Rated, Limits!Counted, Store!Counted, Limits!Refill, Store!Refill,
           Limits!Smaller, Store!Smaller
  <1>4. [Limits!Next]_(Limits!vars) => [Store!Next]_(Store!vars)
    BY <1>3 DEF Limits!vars, Store!vars
  <1> QED
    BY <1>1, <1>4, PTL DEF Limits!Spec, Store!Spec

LEMMA SameQueue == Queue!QSpec => Room!QSpec
PROOF
  <1>1. Queue!QInit => Room!QInit
    BY DEF Queue!QInit, Room!QInit, Queue!Idle, Room!Idle, QueueSizes
  <1>2. Queue!QNext => Room!QNext
    BY Zenon DEF Queue!QNext, Room!QNext, Queue!Call, Room!Call, Queue!Wait, Room!Wait,
           Queue!TryFirst, Room!TryFirst, Queue!Enter, Room!Enter, Queue!Poll,
           Room!Poll, Queue!Expire, Room!Expire, Queue!Leave, Room!Leave,
           Queue!Return, Room!Return, Queue!SetMax, Room!SetMax, Queue!Idle,
           Room!Idle, Queue!Room, Room!Room, QueueSizes
  <1>3. [Queue!QNext]_(Queue!qvars) => [Room!QNext]_(Room!qvars)
    BY <1>2 DEF Queue!qvars, Room!qvars
  <1> QED
    BY <1>1, <1>3, PTL DEF Queue!QSpec, Room!QSpec

LEMMA StoreHolds == Spec => [](Store!CapacityRespected /\ Store!ConcurrentCountsLeases)
PROOF
  <1>1. Store!Spec => []Store!CapacityRespected
    BY Store!CapacityHolds, StoreParameters, StoreCalls
  <1>2. Store!Spec => []Store!ConcurrentCountsLeases
    BY Store!CountersBalance, StoreParameters, StoreCalls
  <1> QED
    BY <1>1, <1>2, SameStore, GatewayUsesLimits, PTL DEF ImplementsLimits

LEMMA RoomHolds == Spec => []Room!WaitingCountsWaiters
PROOF
  <1>1. Room!QSpec => []Room!WaitingCountsWaiters
    BY Room!QueueBalances, QueueParameters
  <1> QED
    BY <1>1, SameQueue, GatewayUsesQueue, PTL DEF ImplementsQueue

-----------------------------------------------------------------------------
(* A request that talks to a provider holds a lease on it. *)
LEMMA AttemptIsLeased ==
  ASSUME CoreInv, LeaseInv, NEW r \in Requests, NEW p, AtProvider(r, p)
  PROVE  <<"provider", p>> \in DOMAIN leases[<<r, "provider">>].limits
PROOF
  <1> DEFINE q == req[r]
  <1>1. q.pc \in {"upstream", "stream", "stalled"} /\ q.model.targets[q.target] = p
    BY DEF AtProvider, ProviderOf, Targets
  <1>2. q \in RequestType /\ q.stage = "provider"
    BY <1>1 DEF CoreInv, TypeInv, RouteInv, StageOf
  <1>3. LeasesOf(r)["provider"] = ScopesOf(q)
    BY <1>1 DEF LeaseInv, LeaseOK
  <1>4. LeasesOf(r)["provider"] = leases[<<r, "provider">>]
    BY DEF LeasesOf, Stages
  <1>5. ScopesOf(q) = ProviderCall(Configs[q.cfg], p)
    BY <1>1, <1>2 DEF ScopesOf
  <1>6. <<"provider", p>> \in DOMAIN ProviderCall(Configs[q.cfg], p).limits
    BY DEF ProviderCall
  <1> QED
    BY <1>3, <1>4, <1>5, <1>6

LEMMA ProviderBound ==
  ASSUME CoreInv, LeaseInv, Store!CapacityRespected
  PROVE  ProviderCapacity
PROOF
  <1> SUFFICES ASSUME NEW k \in ScopeKeys, k[1] = "provider", Limited(k)
               PROVE  Cardinality({r \in Requests : AtProvider(r, k[2])})
                        <= ScopeCeiling[k].max
    BY DEF ProviderCapacity
  <1> DEFINE R == {r \in Requests : AtProvider(r, k[2])}
             H == Store!InUse(k)
             f == [r \in R |-> <<r, "provider">>]
  <1>1. Store!AlwaysCounted(k)
    BY DEF Limited, Store!AlwaysCounted, Store!Counted
  <1>2. Store!Cardinality(H) <= ScopeCeiling[k].max
    BY <1>1 DEF Store!CapacityRespected
  <1>3. Cardinality(H) <= ScopeCeiling[k].max
    BY <1>2, StoreFinite
  <1>4. k = <<"provider", k[2]>>
    <2>1. PICK c \in AllCalls : k \in DOMAIN c.limits
      BY DEF ScopeKeys
    <2>2. WellFormed(c)
      BY CallWellFormed, AllCallsOf
    <2> QED
      BY <2>1, <2>2 DEF WellFormed
  <1>5. \A r \in R : <<r, "provider">> \in H
    BY <1>4, AttemptIsLeased DEF Store!InUse, Stages
  <1>6. f \in Injection(R, H)
    <2>1. f \in [R -> H]
      BY <1>5
    <2>2. \A r, s \in R : f[r] = f[s] => r = s
      OBVIOUS
    <2> HIDE DEF f, R, H
    <2> QED
      BY <2>1, <2>2 DEF Injection, IsInjective
  <1>7. IsFiniteSet(H) /\ H \in SUBSET (Requests \X Stages)
    <2>1. H \in SUBSET (Requests \X Stages)
      BY DEF Store!InUse
    <2> QED
      BY <2>1, HoldersFinite, FS_Subset
  <1> HIDE DEF f, H
  <1>8. IsFiniteSet(R) /\ Cardinality(R) <= Cardinality(H)
    BY <1>6, <1>7, FS_Injection
  <1>9. Cardinality(R) \in Nat /\ Cardinality(H) \in Nat
    BY <1>7, <1>8, FS_CardinalityType
  <1>10. ScopeCeiling[k].max \in Nat
    BY CeilingIsLargest DEF Limits!Limits
  <1> HIDE DEF R
  <1>11. Cardinality(R) <= ScopeCeiling[k].max
    BY <1>3, <1>8, <1>9, <1>10
  <1> QED
    BY <1>11 DEF R

(***************************************************************************)
(* However many requests there are, and however they retry, fail over,     *)
(* stream and are overtaken by reloads, no more of them talk to a provider *)
(* at a time than the largest max_concurrent a configuration gave it.  The *)
(* counter of LimitStore bounds the leases (CapacityHolds), and an attempt *)
(* has a lease of its own.                                                 *)
(***************************************************************************)
THEOREM ProviderCapacityHolds == Spec => []ProviderCapacity
PROOF
  BY LeaseAlways, StoreHolds, ProviderBound, PTL

-----------------------------------------------------------------------------
(* Layer 4, proved. *)

(* Nothing that the four counters count happens. *)
SameCounts ==
  /\ metrics' \in MetricsType
  /\ metrics'.requests = metrics.requests
  /\ metrics'.active = metrics.active
  /\ metrics'.completed = metrics.completed
  /\ metrics'.failed = metrics.failed

(* A request goes on, q being its state before and q2 after. *)
GoesOn(q, q2) ==
  /\ q.pc \notin {"idle", "done"} /\ q2.pc \notin {"idle", "done"}
  /\ q2.completed <=> q.completed

Onward(r) == GoesOn(req[r], req'[r])

LEMMA SetOnward ==
  ASSUME CoreInv, NEW r \in Requests, NEW q2, Set(r, q2), GoesOn(req[r], q2)
  PROVE  Onward(r)
PROOF
  BY DEF CoreInv, TypeInv, Set, Onward

LEMMA AskOnward ==
  ASSUME CoreInv, NEW r \in Requests, NEW q, NEW s, Ask(r, q, s),
         DOMAIN q = DOMAIN req[r], req[r].pc \notin {"idle", "done"},
         q.completed <=> req[r].completed
  PROVE  Onward(r)
PROOF
  <1> DEFINE q2 == [q EXCEPT !.pc = "admit", !.stage = s]
  <1>1. req[r] \in RequestType
    BY DEF CoreInv, TypeInv
  <1>2. "pc" \in DOMAIN q /\ "completed" \in DOMAIN q
    BY <1>1 DEF RequestType
  <1>3. q2.pc = "admit" /\ (q2.completed <=> q.completed)
    BY <1>2
  <1>4. Set(r, q2)
    BY DEF Ask
  <1> HIDE DEF q2
  <1> QED
    BY <1>3, <1>4, SetOnward DEF GoesOn

(* The pc of a request that asks for admission, or that has got it. *)
LEMMA CallerPc ==
  ASSUME CoreInv, NEW r \in Requests, call[r].at # "idle"
  PROVE  req[r].pc = "admit"
PROOF
  BY DEF CoreInv, CallInv

LEMMA OnwardAsks ==
  ASSUME CoreInv, NEW r \in Requests,
         (\E a \in Aliases : ReadBody(r, a)) \/ Resolve(r) \/ StartTarget(r) \/ BackoffOver(r)
  PROVE  Onward(r)
PROOF
  <1> DEFINE q == req[r]
  <1>1. q \in RequestType
    BY DEF CoreInv, TypeInv
  <1>2. ASSUME NEW a \in Aliases, ReadBody(r, a) PROVE Onward(r)
    <2>1. q.pc = "body"
      BY <1>2 DEF ReadBody, At
    <2>2. CASE a \in DOMAIN Cfg(r).models
      <3> DEFINE q1 == [q EXCEPT !.alias = a, !.model = Cfg(r).models[a]]
      <3>1. Ask(r, q1, "model")
        BY <1>2, <2>2 DEF ReadBody
      <3>2. DOMAIN q1 = DOMAIN q /\ (q1.completed <=> q.completed)
        BY <1>1 DEF RequestType
      <3> HIDE DEF q1
      <3> QED
        BY <2>1, <3>1, <3>2, AskOnward
    <2>3. CASE a \notin DOMAIN Cfg(r).models
      <3> DEFINE q2 == [q EXCEPT !.pc = "resolve", !.alias = a]
      <3>1. Set(r, q2)
        BY <1>2, <2>3 DEF ReadBody
      <3>2. GoesOn(q, q2)
        BY <1>1, <2>1 DEF RequestType, GoesOn
      <3> HIDE DEF q2
      <3> QED
        BY <3>1, <3>2, SetOnward
    <2> QED
      BY <2>2, <2>3
  <1>3. CASE Resolve(r)
    <2>1. q.pc = "resolve"
      BY <1>3 DEF Resolve, At
    <2>2. ASSUME NEW p, Ask(r, [q EXCEPT !.model = DiscoveredModel(p)], "model")
          PROVE  Onward(r)
      <3> DEFINE q1 == [q EXCEPT !.model = DiscoveredModel(p)]
      <3>1. DOMAIN q1 = DOMAIN q /\ (q1.completed <=> q.completed)
        BY <1>1 DEF RequestType
      <3>2. Ask(r, q1, "model")
        BY <2>2
      <3> HIDE DEF q1
      <3> QED
        BY <2>1, <3>1, <3>2, AskOnward
    <2>3. ASSUME NEW a, Set(r, Reply(q, a)) PROVE Onward(r)
      <3>1. GoesOn(q, Reply(q, a))
        BY <1>1, <2>1 DEF RequestType, GoesOn, Reply
      <3> QED
        BY <2>3, <3>1, SetOnward
    <2> QED
      BY <1>3, <2>2, <2>3 DEF Resolve
  <1>4. CASE StartTarget(r)
    <2>1. q.pc = "target"
      BY <1>4 DEF StartTarget, At
    <2>2. CASE Ask(r, q, "provider")
      BY <2>1, <2>2, AskOnward
    <2>3. CASE Set(r, Reply(q, "encodeError"))
      <3>1. GoesOn(q, Reply(q, "encodeError"))
        BY <1>1, <2>1 DEF RequestType, GoesOn, Reply
      <3> QED
        BY <2>3, <3>1, SetOnward
    <2> QED
      BY <1>4, <2>2, <2>3 DEF StartTarget
  <1>5. CASE BackoffOver(r)
    <2> DEFINE q1 == [q EXCEPT !.attempt = @ + 1]
    <2>1. q.pc = "backoff" /\ Ask(r, q1, "provider")
      BY <1>5 DEF BackoffOver, At
    <2>2. DOMAIN q1 = DOMAIN q /\ (q1.completed <=> q.completed)
      BY <1>1 DEF RequestType
    <2> HIDE DEF q1
    <2> QED
      BY <2>1, <2>2, AskOnward
  <1> QED
    BY <1>2, <1>3, <1>4, <1>5

LEMMA NextTargetOnward ==
  ASSUME NEW q \in RequestType
  PROVE  NextTarget(q).pc \in {"target", "fail"} /\ (NextTarget(q).completed <=> q.completed)
PROOF
  BY DEF NextTarget, RequestType

LEMMA OnwardReturns ==
  ASSUME CoreInv, NEW r \in Requests, Granted(r) \/ Denied(r)
  PROVE  Onward(r)
PROOF
  <1> DEFINE q == req[r]
  <1>1. q \in RequestType
    BY DEF CoreInv, TypeInv
  <1>2. q.pc = "admit"
    BY CallerPc DEF Granted, Denied, Queue!Return
  <1>3. CASE Granted(r)
    <2>1. PICK pc \in {"body", "prompt"} :
            \/ Set(r, [q EXCEPT !.pc = pc])
            \/ Set(r, [q EXCEPT !.pc = "upstream", !.late = q.ctx # "live"])
      BY <1>1, <1>3, Zenon DEF Granted
    <2>2. GoesOn(q, [q EXCEPT !.pc = pc])
          /\ GoesOn(q, [q EXCEPT !.pc = "upstream", !.late = q.ctx # "live"])
      BY <1>1, <1>2 DEF RequestType, GoesOn
    <2> QED
      BY <2>1, <2>2, SetOnward
  <1>4. CASE Denied(r) /\ q.stage = "provider"
    <2> DEFINE q1 == [q EXCEPT !.limited = TRUE]
    <2>1. q1 \in RequestType /\ (q1.completed <=> q.completed)
      BY <1>1 DEF RequestType
    <2>2. Set(r, NextTarget(q1))
      BY <1>4 DEF Denied, IngressRefused, ModelRefused, ProviderRefused
    <2> HIDE DEF q1
    <2>3. GoesOn(q, NextTarget(q1))
      BY <1>2, <2>1, NextTargetOnward DEF GoesOn
    <2> QED
      BY <2>2, <2>3, SetOnward
  <1>5. CASE Denied(r) /\ q.stage # "provider"
    <2>1. Set(r, Reply(Record(q, "busy"), "busy")) \/ Set(r, Reply(q, "busy"))
      BY <1>5, Zenon DEF Denied, IngressRefused, ModelRefused, ProviderRefused
    <2>2. GoesOn(q, Reply(Record(q, "busy"), "busy")) /\ GoesOn(q, Reply(q, "busy"))
      BY <1>1, <1>2 DEF RequestType, GoesOn, Reply, Record
    <2> QED
      BY <2>1, <2>2, SetOnward
  <1> QED
    BY <1>3, <1>4, <1>5

LEMMA OnwardAttemptOver ==
  ASSUME CoreInv, NEW r \in Requests,
         \/ \E timedOut \in BOOLEAN : UpstreamError(r, timedOut)
         \/ \E class \in StatusClasses : UpstreamRetry(r, class)
  PROVE  Onward(r)
PROOF
  <1> DEFINE q == req[r]
             q1 == [q EXCEPT !.lastErr = TRUE]
             Ways(x) == {NextTarget(x), [x EXCEPT !.pc = "backoff"], [x EXCEPT !.pc = "fail"]}
  <1>1. q \in RequestType
    BY DEF CoreInv, TypeInv
  <1>2. q.pc = "upstream"
    BY DEF UpstreamError, UpstreamRetry, At
  <1>3. q1 \in RequestType /\ (q1.completed <=> q.completed)
    BY <1>1 DEF RequestType
  <1>4. \E q2 \in Ways(q) \cup Ways(q1) : Set(r, q2)
    <2>1. ASSUME NEW timedOut \in BOOLEAN, UpstreamError(r, timedOut)
          PROVE  \E q2 \in Ways(q1) : Set(r, q2)
      <3>1. Set(r, AfterError(q1, timedOut))
        BY <2>1 DEF UpstreamError
      <3>2. AfterError(q1, timedOut) \in Ways(q1)
        <4> HIDE DEF q1
        <4> QED
          BY <2>1 DEF AfterError
      <3> QED
        BY <3>1, <3>2
    <2>2. ASSUME NEW class \in StatusClasses, UpstreamRetry(r, class)
          PROVE  \E q2 \in Ways(q) : Set(r, q2)
      BY <2>2, Zenon DEF UpstreamRetry
    <2> QED
      BY <2>1, <2>2
  <1>5. ASSUME NEW x \in RequestType, x.completed <=> q.completed, NEW q2 \in Ways(x)
        PROVE  GoesOn(q, q2)
    <2>1. CASE q2 = NextTarget(x)
      BY <1>2, <1>5, <2>1, NextTargetOnward DEF GoesOn
    <2>2. CASE q2 # NextTarget(x)
      BY <1>2, <1>5, <2>2 DEF GoesOn, RequestType
    <2> QED
      BY <2>1, <2>2
  <1> HIDE DEF q1, Ways
  <1> QED
    BY <1>1, <1>3, <1>4, <1>5, SetOnward

LEMMA OnwardElsewhere ==
  ASSUME CoreInv, NEW r \in Requests,
         \/ BadBody(r) \/ Prepare(r) \/ BackoffCut(r) \/ Fail(r)
         \/ StreamEnds(r) \/ WriteFails(r) \/ ClientStalls(r) \/ ClientResumes(r)
         \/ \E why \in ContextEnds : EndContext(r, why)
  PROVE  Onward(r)
PROOF
  <1> DEFINE q == req[r]
  <1>1. q \in RequestType
    BY DEF CoreInv, TypeInv
  <1>2. CASE BadBody(r) \/ Prepare(r)
    <2>1. q.pc \in {"body", "prompt"}
      BY <1>2 DEF BadBody, Prepare, At
    <2>2. \/ \E a \in {"tooLarge", "badRequest"} : Set(r, Reply(q, a))
          \/ Set(r, [q EXCEPT !.pc = "target", !.target = 1])
      BY <1>2 DEF BadBody, Prepare
    <2>3. \A a : GoesOn(q, Reply(q, a))
      BY <1>1, <2>1 DEF RequestType, GoesOn, Reply
    <2>4. GoesOn(q, [q EXCEPT !.pc = "target", !.target = 1])
      BY <1>1, <2>1 DEF RequestType, GoesOn
    <2> QED
      BY <2>2, <2>3, <2>4, SetOnward
  <1>3. CASE BackoffCut(r) \/ ClientStalls(r) \/ ClientResumes(r)
    <2>1. q.pc \in {"backoff", "stream", "stalled"}
      BY <1>3 DEF BackoffCut, ClientStalls, ClientResumes, At
    <2>2. \E pc \in {"fail", "stream", "stalled"} : Set(r, [q EXCEPT !.pc = pc])
      BY <1>3 DEF BackoffCut, ClientStalls, ClientResumes
    <2>3. \A pc \in {"fail", "stream", "stalled"} : GoesOn(q, [q EXCEPT !.pc = pc])
      BY <1>1, <2>1 DEF RequestType, GoesOn
    <2> QED
      BY <2>2, <2>3, SetOnward
  <1>4. CASE Fail(r) \/ StreamEnds(r) \/ WriteFails(r)
    <2>1. q.pc \in {"fail", "stream", "stalled"}
      BY <1>4 DEF Fail, StreamEnds, WriteFails, At
    <2>2. \E s : \/ Set(r, Reply(Record(q, s), s))
                 \/ Set(r, [Record(q, s) EXCEPT !.pc = "unwind"])
      BY <1>4, Zenon DEF Fail, StreamEnds, WriteFails
    <2>3. \A s : GoesOn(q, Reply(Record(q, s), s))
      BY <1>1, <2>1 DEF RequestType, GoesOn, Reply, Record
    <2>4. \A s : GoesOn(q, [Record(q, s) EXCEPT !.pc = "unwind"])
      BY <1>1, <2>1 DEF RequestType, GoesOn, Record
    <2> QED
      BY <2>2, <2>3, <2>4, SetOnward
  <1>5. ASSUME NEW why \in ContextEnds, EndContext(r, why) PROVE Onward(r)
    <2>1. q.pc \notin {"idle", "done"} /\ Set(r, [q EXCEPT !.ctx = why])
      BY <1>5 DEF EndContext
    <2>2. GoesOn(q, [q EXCEPT !.ctx = why])
      BY <1>1, <2>1 DEF RequestType, GoesOn
    <2> QED
      BY <2>1, <2>2, SetOnward
  <1> QED
    BY <1>2, <1>3, <1>4, <1>5

(* The steps that none of the four counters count. *)
Uncounted(r) ==
  \/ Admission(r) \/ GiveUpWaiting(r) \/ BadBody(r)
  \/ \E a \in Aliases : ReadBody(r, a)
  \/ Resolve(r) \/ Prepare(r) \/ StartTarget(r)
  \/ \E timedOut \in BOOLEAN : UpstreamError(r, timedOut)
  \/ \E class \in StatusClasses : UpstreamRetry(r, class)
  \/ BackoffOver(r) \/ BackoffCut(r) \/ Fail(r)
  \/ StreamEnds(r) \/ ClientStalls(r) \/ ClientResumes(r) \/ WriteFails(r)
  \/ Unwind(r)
  \/ \E why \in ContextEnds : EndContext(r, why)

LEMMA UncountedStep ==
  ASSUME CoreInv, MetricsInv, NEW r \in Requests, Uncounted(r)
  PROVE  SameCounts /\ (req' = req \/ Onward(r))
PROOF
  <1>1. req' = req \/ Onward(r)
    BY OnwardAsks, OnwardReturns, OnwardAttemptOver, OnwardElsewhere, Zenon
    DEF Uncounted, Admission, Try, PollAgain, EnterQueue, LeaveQueue, GiveUpWaiting, Unwind
  <1>2. metrics \in MetricsType
    BY DEF MetricsInv
  <1>3. \/ metrics' = metrics
        \/ metrics' = [metrics EXCEPT !.queueWaits = QueueWaits(r)]
        \/ metrics' = [metrics EXCEPT !.queueWaits = QueueWaits(r), !.queueRejected = @ + 1]
        \/ metrics' = [metrics EXCEPT !.upstreamRequests = @ + 1, !.upstreamErrors = @ + 1]
        \/ metrics' = [metrics EXCEPT !.upstreamRequests = @ + 1]
    BY Zenon
    DEF Uncounted, Admission, Try, PollAgain, EnterQueue, LeaveQueue, GiveUpWaiting,
        Granted, Denied, IngressRefused, ModelRefused,
        ProviderRefused, BadBody, ReadBody, Resolve, Prepare, StartTarget, UpstreamError,
        UpstreamRetry, BackoffOver, BackoffCut, Fail, StreamEnds, ClientStalls,
        ClientResumes, WriteFails, Unwind, EndContext
  <1>4. QueueWaits(r) \in Int
    BY <1>2 DEF QueueWaits, MetricsType
  <1>5. SameCounts
    <2> DEFINE a == metrics.upstreamRequests + 1
               b == metrics.upstreamErrors + 1
               c == metrics.queueRejected + 1
               w == QueueWaits(r)
    <2>1. a \in Int /\ b \in Int /\ c \in Int /\ w \in Int
      BY <1>2, <1>4 DEF MetricsType
    <2>2. \/ metrics' = metrics
          \/ metrics' = [metrics EXCEPT !.queueWaits = w]
          \/ metrics' = [metrics EXCEPT !.queueWaits = w, !.queueRejected = c]
          \/ metrics' = [metrics EXCEPT !.upstreamRequests = a, !.upstreamErrors = b]
          \/ metrics' = [metrics EXCEPT !.upstreamRequests = a]
      BY <1>3
    <2> HIDE DEF a, b, c, w
    <2>3. CASE metrics' = metrics
      BY <1>2, <2>3 DEF SameCounts
    <2>4. CASE metrics' = [metrics EXCEPT !.queueWaits = w]
      BY <1>2, <2>1, <2>4 DEF SameCounts, MetricsType
    <2>5. CASE metrics' = [metrics EXCEPT !.queueWaits = w, !.queueRejected = c]
      BY <1>2, <2>1, <2>5 DEF SameCounts, MetricsType
    <2>6. CASE metrics' = [metrics EXCEPT !.upstreamRequests = a, !.upstreamErrors = b]
      BY <1>2, <2>1, <2>6 DEF SameCounts, MetricsType
    <2>7. CASE metrics' = [metrics EXCEPT !.upstreamRequests = a]
      BY <1>2, <2>1, <2>7 DEF SameCounts, MetricsType
    <2> QED
      BY <2>2, <2>3, <2>4, <2>5, <2>6, <2>7
  <1> QED
    BY <1>1, <1>5

LEMMA CountedSetsFinite ==
  /\ IsFiniteSet(Arrived) /\ IsFiniteSet(Underway)
  /\ IsFiniteSet(Served) /\ IsFiniteSet(Unserved)
PROOF
  <1>1. Arrived \in SUBSET Requests /\ Underway \in SUBSET Requests
        /\ Served \in SUBSET Requests /\ Unserved \in SUBSET Requests
    BY DEF Arrived, Underway, Served, Unserved
  <1> QED
    BY <1>1, BoundsAssumption, FS_Subset

LEMMA MetricsUncounted ==
  ASSUME CoreInv, MetricsInv, NEW r \in Requests, Uncounted(r)
  PROVE  MetricsInv'
PROOF
  <1>1. SameCounts /\ (req' = req \/ Onward(r))
    BY UncountedStep
  <1>2. \A s \in Requests : s # r => req'[s] = req[s]
    BY OwnStep, Zenon DEF Handle, Uncounted
  <1>3. Arrived' = Arrived /\ Underway' = Underway /\ Served' = Served
        /\ Unserved' = Unserved
    BY <1>1, <1>2 DEF Onward, GoesOn, Arrived, Underway, Served, Unserved, At
  <1> QED
    BY <1>1, <1>3 DEF MetricsInv, SameCounts

LEMMA MetricsArrive ==
  ASSUME CoreInv, StoryInv, MetricsInv, NEW r \in Requests, NEW c \in Clients,
         Arrive(r, c)
  PROVE  MetricsInv'
PROOF
  <1> DEFINE q == req[r]
             q1 == [q EXCEPT !.cfg = config, !.client = c]
             q2 == [q1 EXCEPT !.pc = "admit", !.stage = "ingress"]
  <1>1. q \in RequestType /\ q.pc = "idle" /\ req \in [Requests -> RequestType]
    BY DEF CoreInv, TypeInv, Arrive, At
  <1>2. req' = [req EXCEPT ![r] = q2]
    BY DEF Arrive, Ask, Set
  <1>3. q2.pc = "admit" /\ (q2.completed <=> q.completed)
    BY <1>1 DEF RequestType
  <1>4. ~q.completed
    BY <1>1 DEF StoryInv, Story, ReplyInv, StatusClasses
  <1> HIDE DEF q2
  <1>5. Arrived' = Arrived \cup {r} /\ Underway' = Underway \cup {r}
        /\ Served' = Served /\ Unserved' = Unserved
    BY <1>1, <1>2, <1>3, <1>4 DEF Arrived, Underway, Served, Unserved, At
  <1>6. r \notin Arrived /\ r \notin Underway
    BY <1>1 DEF Arrived, Underway, At
  <1>7. Cardinality(Arrived') = Cardinality(Arrived) + 1
    BY <1>5, <1>6, CountedSetsFinite, FS_AddElement
  <1>8. Cardinality(Underway') = Cardinality(Underway) + 1
    BY <1>5, <1>6, CountedSetsFinite, FS_AddElement
  <1>9. metrics' = [metrics EXCEPT !.requests = @ + 1, !.active = @ + 1]
        /\ metrics \in MetricsType
    BY DEF Arrive, MetricsInv
  <1>10. metrics' \in MetricsType /\ metrics'.requests = metrics.requests + 1
         /\ metrics'.active = metrics.active + 1
         /\ metrics'.completed = metrics.completed /\ metrics'.failed = metrics.failed
    <2> DEFINE a == metrics.requests + 1
               b == metrics.active + 1
    <2>1. a \in Int /\ b \in Int
      BY <1>9 DEF MetricsType
    <2>2. metrics' = [metrics EXCEPT !.requests = a, !.active = b]
      BY <1>9
    <2> HIDE DEF a, b
    <2>3. metrics' \in MetricsType /\ metrics'.requests = a /\ metrics'.active = b
          /\ metrics'.completed = metrics.completed /\ metrics'.failed = metrics.failed
      BY <1>9, <2>1, <2>2 DEF MetricsType
    <2> QED
      BY <2>3 DEF a, b
  <1> QED
    BY <1>5, <1>7, <1>8, <1>10 DEF MetricsInv

LEMMA MetricsCommit ==
  ASSUME CoreInv, StoryInv, MetricsInv, NEW r \in Requests,
         NEW class \in StatusClasses, NEW sse \in EventStream, Commit(r, class, sse)
  PROVE  MetricsInv'
PROOF
  <1> DEFINE q == req[r]
             q2 == [q EXCEPT !.pc = "stream", !.answer = class, !.completed = TRUE,
                             !.sse = sse]
  <1>1. q \in RequestType /\ q.pc = "upstream" /\ req \in [Requests -> RequestType]
    BY DEF CoreInv, TypeInv, Commit, At
  <1>2. req' = [req EXCEPT ![r] = q2]
    BY DEF Commit, Set
  <1>3. q2.pc = "stream" /\ q2.completed
    BY <1>1 DEF RequestType
  <1>4. ~q.completed
    BY <1>1 DEF StoryInv, Story, ReplyInv, StatusClasses
  <1> HIDE DEF q2
  <1>5. Arrived' = Arrived /\ Underway' = Underway
        /\ Served' = Served \cup {r} /\ Unserved' = Unserved
    BY <1>1, <1>2, <1>3, <1>4 DEF Arrived, Underway, Served, Unserved, At
  <1>6. r \notin Served
    BY <1>4 DEF Served
  <1>7. Cardinality(Served') = Cardinality(Served) + 1
    BY <1>5, <1>6, CountedSetsFinite, FS_AddElement
  <1>8. metrics' = [metrics EXCEPT !.upstreamRequests = @ + 1, !.completed = @ + 1]
        /\ metrics \in MetricsType
    BY DEF Commit, MetricsInv
  <1>9. metrics' \in MetricsType /\ metrics'.requests = metrics.requests
        /\ metrics'.active = metrics.active
        /\ metrics'.completed = metrics.completed + 1 /\ metrics'.failed = metrics.failed
    <2> DEFINE a == metrics.upstreamRequests + 1
               b == metrics.completed + 1
    <2>1. a \in Int /\ b \in Int
      BY <1>8 DEF MetricsType
    <2>2. metrics' = [metrics EXCEPT !.upstreamRequests = a, !.completed = b]
      BY <1>8
    <2> HIDE DEF a, b
    <2>3. metrics' \in MetricsType /\ metrics'.requests = metrics.requests
          /\ metrics'.active = metrics.active
          /\ metrics'.completed = b /\ metrics'.failed = metrics.failed
      BY <1>8, <2>1, <2>2 DEF MetricsType
    <2> QED
      BY <2>3 DEF b
  <1> QED
    BY <1>5, <1>7, <1>9 DEF MetricsInv

LEMMA MetricsFinish ==
  ASSUME CoreInv, StoryInv, MetricsInv, NEW r \in Requests, Finish(r)
  PROVE  MetricsInv'
PROOF
  <1> DEFINE q == req[r]
             q2 == [q EXCEPT !.pc = "done"]
  <1>1. q \in RequestType /\ q.pc = "unwind" /\ req \in [Requests -> RequestType]
    BY DEF CoreInv, TypeInv, Finish, At
  <1>2. req' = [req EXCEPT ![r] = q2]
    BY DEF Finish, Set
  <1>3. q2.pc = "done" /\ (q2.completed <=> q.completed)
    BY <1>1 DEF RequestType
  <1> HIDE DEF q2
  <1>4. Arrived' = Arrived /\ Underway' = Underway \ {r} /\ Served' = Served
        /\ Unserved' = IF q.completed THEN Unserved ELSE Unserved \cup {r}
    BY <1>1, <1>2, <1>3 DEF Arrived, Underway, Served, Unserved, At
  <1>5. r \in Underway /\ r \notin Unserved
    BY <1>1 DEF Underway, Unserved, At
  <1>6. Cardinality(Underway') = Cardinality(Underway) - 1
    BY <1>4, <1>5, CountedSetsFinite, FS_RemoveElement
  <1>7. ~q.completed => Cardinality(Unserved') = Cardinality(Unserved) + 1
    BY <1>4, <1>5, CountedSetsFinite, FS_AddElement
  <1>8. metrics' = [metrics EXCEPT !.active = @ - 1,
                                   !.failed = IF q.completed THEN @ ELSE @ + 1]
        /\ metrics \in MetricsType
    BY DEF Finish, MetricsInv
  <1>9. metrics' \in MetricsType /\ metrics'.requests = metrics.requests
        /\ metrics'.active = metrics.active - 1
        /\ metrics'.completed = metrics.completed
        /\ metrics'.failed = IF q.completed THEN metrics.failed ELSE metrics.failed + 1
    <2> DEFINE a == metrics.active - 1
               b == IF q.completed THEN metrics.failed ELSE metrics.failed + 1
    <2>1. a \in Int /\ b \in Int
      BY <1>8 DEF MetricsType
    <2>2. metrics' = [metrics EXCEPT !.active = a, !.failed = b]
      BY <1>8
    <2> HIDE DEF a, b
    <2>3. metrics' \in MetricsType /\ metrics'.requests = metrics.requests
          /\ metrics'.active = a
          /\ metrics'.completed = metrics.completed /\ metrics'.failed = b
      BY <1>8, <2>1, <2>2 DEF MetricsType
    <2> QED
      BY <2>3 DEF a, b
  <1> QED
    BY <1>4, <1>6, <1>7, <1>9 DEF MetricsInv

LEMMA MetricsInductive == CoreInv /\ StoryInv /\ MetricsInv /\ [Next]_vars => MetricsInv'
PROOF
  <1> SUFFICES ASSUME CoreInv, StoryInv, MetricsInv, [Next]_vars PROVE MetricsInv'
    OBVIOUS
  <1>1. ASSUME NEW r \in Requests, Handle(r) PROVE MetricsInv'
    BY <1>1, MetricsUncounted, MetricsArrive, MetricsCommit, MetricsFinish, Zenon
    DEF Handle, Uncounted
  <1>2. CASE UNCHANGED <<req, metrics>>
    BY <1>2 DEF MetricsInv, Arrived, Underway, Served, Unserved, At
  <1> QED
    BY <1>1, <1>2
    DEF Next, ReloadConfig, ReloadQueue, ReloadLimits, Tick, Rest, vars

LEMMA MetricsInit == Init => MetricsInv
PROOF
  <1> SUFFICES ASSUME Init PROVE MetricsInv
    OBVIOUS
  <1>1. Arrived = {} /\ Underway = {} /\ Served = {} /\ Unserved = {}
    BY DEF Init, NoRequest, Arrived, Underway, Served, Unserved, At
  <1>2. metrics = NoMetrics
    BY DEF Init
  <1> QED
    BY <1>1, <1>2, FS_EmptySet DEF NoMetrics, MetricsInv, MetricsType

LEMMA MetricsAlways == Spec => []MetricsInv
PROOF
  BY MetricsInit, MetricsInductive, StoryAlways, PTL DEF Spec

(* With every request idle or done, each counter counts an empty set. *)
LEMMA AllBack ==
  ASSUME CoreInv, StoryInv, LeaseInv, MetricsInv,
         Store!ConcurrentCountsLeases, Room!WaitingCountsWaiters
  PROVE  NothingLeftBehind
PROOF
  <1> SUFFICES ASSUME \A r \in Requests : req[r].pc \in {"idle", "done"}
               PROVE  /\ \A k \in ScopeKeys : concurrent[k] = 0
                      /\ waiting = 0
                      /\ metrics.active = 0
                      /\ metrics.requests = metrics.completed + metrics.failed
    BY DEF NothingLeftBehind
  <1>1. ASSUME NEW k \in ScopeKeys PROVE concurrent[k] = 0
    <2>1. \A r \in Requests, s \in Stages : leases[<<r, s>>] = Limits!NoLease
      BY DEF LeaseInv, LeaseOK, LeasesOf
    <2>2. DOMAIN Limits!NoLease.limits = {}
      BY DEF Limits!NoLease
    <2>3. Store!CountedHolders(k) = {}
      BY <2>1, <2>2 DEF Store!CountedHolders, Store!Counted
    <2>4. Store!Cardinality({}) = 0
      BY StoreFinite, FS_EmptySet
    <2> QED
      BY <2>3, <2>4 DEF Store!ConcurrentCountsLeases
  <1>2. waiting = 0
    <2>1. \A r \in Requests : call[r].at = "idle"
      BY DEF CoreInv, TypeInv, CallInv, CallType
    <2>2. Room!Waiters = {}
      BY <2>1 DEF Room!Waiters
    <2>3. Room!Cardinality({}) = 0
      BY RoomFinite, FS_EmptySet
    <2> QED
      BY <2>2, <2>3 DEF Room!WaitingCountsWaiters
  <1>3. metrics.active = 0
    <2>1. Underway = {}
      BY DEF Underway
    <2> QED
      BY <2>1, FS_EmptySet DEF MetricsInv
  <1>4. metrics.requests = metrics.completed + metrics.failed
    <2>1. \A r \in Requests : req[r].pc = "idle" => ~req[r].completed
      BY DEF StoryInv, Story, ReplyInv, StatusClasses
    <2>2. Arrived = Served \cup Unserved /\ Served \cap Unserved = {}
      BY <2>1 DEF Arrived, Served, Unserved, At
    <2>3. Cardinality(Served \cup Unserved)
            = Cardinality(Served) + Cardinality(Unserved) - Cardinality({})
      BY <2>2, CountedSetsFinite, FS_Union
    <2>4. Cardinality(Served) \in Nat /\ Cardinality(Unserved) \in Nat
      BY CountedSetsFinite, FS_CardinalityType
    <2> QED
      BY <2>2, <2>3, <2>4, FS_EmptySet DEF MetricsInv
  <1> QED
    BY <1>1, <1>2, <1>3, <1>4

(***************************************************************************)
(* When all requests have come to an end, on whatever paths, every unit of *)
(* capacity is back, the queue is empty and each request was counted once, *)
(* as completed or as failed.  The balance of the two components           *)
(* (CountersBalance, QueueBalances) meets what the gateway's own invariant *)
(* says of a finished request: no lease and no call of wait.               *)
(***************************************************************************)
THEOREM GatewayLeavesNothing == Spec => []NothingLeftBehind
PROOF
  BY LeaseAlways, MetricsAlways, StoreHolds, RoomHolds, AllBack, PTL
=============================================================================
