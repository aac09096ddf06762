------------------------------- MODULE Proxy --------------------------------
(***************************************************************************)
(* internal/gateway/gateway.go: the life of a proxied request, from its    *)
(* arrival to the last deferred call, for several requests at once and     *)
(* with configuration reloads in between.                                  *)
(*                                                                         *)
(* The module composes two components: every admission runs through        *)
(* RequestQueue, whose `try' is an admission of LimitStore.  A request     *)
(* holds at most three leases at a time, one per stage: ingress (with its  *)
(* client), model, and the provider of the attempt in progress.            *)
(*                                                                         *)
(* Abstracted: bodies, headers and prompts to whether processing them      *)
(* succeeds; status codes to the classes the retry policy tells apart;     *)
(* durations to the order in which timers fire.  Left to other modules:    *)
(* the network ACL and authentication in front of proxy, discovery behind  *)
(* an unknown alias, and the database behind usage.record.                 *)
(***************************************************************************)
EXTENDS Integers, Sequences, FiniteSets, FiniteSetsExt

CONSTANTS
  Requests,    \* requests that may arrive
  Clients,     \* client identities
  Aliases,     \* model names clients ask for
  Configs,     \* the configurations, in the order they are loaded
  EventStream, \* which of the two kinds of answer providers give: a subset of
               \* BOOLEAN, TRUE for text/event-stream
  ContextEnds, \* how a request's context may end: a subset of {"gone", "deadline"}
  Unit,        \* see LimitStore
  MaxClock     \* bound on the clock

Stages == {"ingress", "model", "provider"}

NoLimits == [rpm |-> 0, burst |-> 0, max |-> 0]

-----------------------------------------------------------------------------
(* The admissions of one configuration, as calls of LimitStore.admit.       *)

IngressCall(cfg, client) ==
  LET keys == <<<<"ingress", "">>, <<"client", client>>>> IN
  [order  |-> keys,
   limits |-> [k \in {keys[1], keys[2]} |->
                 IF k = keys[1] THEN [NoLimits EXCEPT !.max = cfg.ingress]
                                ELSE cfg.client]]

ModelCall(alias, limits) ==
  [order |-> <<<<"model", alias>>>>, limits |-> [k \in {<<"model", alias>>} |-> limits]]

ProviderCall(cfg, p) ==
  [order  |-> <<<<"provider", p>>>>,
   limits |-> [k \in {<<"provider", p>>} |-> cfg.providers[p].limits]]

(* A discovered model has no limits and no retries (discovery.go:95). *)
DiscoveredModel(p) == [limits |-> NoLimits, targets |-> <<p>>, retries |-> 0]

AllCalls ==
  UNION {LET cfg == Configs[i] IN
         {IngressCall(cfg, c) : c \in Clients}
         \cup {ModelCall(a, cfg.models[a].limits) : a \in DOMAIN cfg.models}
         \cup {ModelCall(a, NoLimits) : a \in Aliases \ DOMAIN cfg.models}
         \cup {ProviderCall(cfg, p) : p \in DOMAIN cfg.providers}
         : i \in DOMAIN Configs}

ScopeKeys == UNION {DOMAIN c.limits : c \in AllCalls}

LargestLimits(k) ==
  LET given == {c.limits[k] : c \in {d \in AllCalls : k \in DOMAIN d.limits}}
  IN  [rpm   |-> Max({l.rpm : l \in given}),
       burst |-> Max({l.burst : l \in given}),
       max   |-> Max({l.max : l \in given})]

ScopeCeiling == [k \in ScopeKeys |-> LargestLimits(k)]

-----------------------------------------------------------------------------
VARIABLES
  req,      \* per request, the local variables of proxy
  tried,    \* history: per request, the outcome of each provider attempt
  metrics,  \* Gateway.metrics
  config,   \* Gateway.config: an index into Configs
  reload,   \* the next step of a Reload in progress
  buckets, concurrent, leases, clock,   \* Gateway.limits
  waiting, max, call                    \* Gateway.queue

Limits == INSTANCE LimitStore
  WITH Keys <- ScopeKeys, Holders <- Requests \X Stages, Calls <- AllCalls,
       Ceiling <- ScopeCeiling

Queue == INSTANCE RequestQueue
  WITH Callers <- Requests, Sizes <- {Configs[i].queue : i \in DOMAIN Configs}

(***************************************************************************)
(* What config.Validate lets through: no negative limit, between none and  *)
(* ten retries, and targets, at least one, that name providers.            *)
(***************************************************************************)
ValidConfig(cfg) ==
  /\ cfg.ingress \in Nat
  /\ cfg.queue \in Nat
  /\ cfg.client \in Limits!Limits
  /\ IsFiniteSet(DOMAIN cfg.models) /\ IsFiniteSet(DOMAIN cfg.providers)
  /\ \A a \in DOMAIN cfg.models :
       /\ cfg.models[a] \in [limits: Limits!Limits, retries: 0 .. 10,
                             targets: Seq(DOMAIN cfg.providers)]
       /\ cfg.models[a].targets # << >>
  /\ \A p \in DOMAIN cfg.providers : cfg.providers[p].limits \in Limits!Limits

ASSUME ConfigsAssumption ==
  /\ Len(Configs) \in Nat \ {0}
  /\ DOMAIN Configs = 1 .. Len(Configs)
  /\ \A i \in DOMAIN Configs : ValidConfig(Configs[i])

ASSUME BoundsAssumption ==
  /\ IsFiniteSet(Requests) /\ IsFiniteSet(Clients) /\ IsFiniteSet(Aliases)
  /\ EventStream \subseteq BOOLEAN
  /\ ContextEnds \subseteq {"gone", "deadline"}
  /\ Unit \in Nat \ {0}
  /\ MaxClock \in Nat

limitVars == <<buckets, concurrent, leases, clock>>
queueVars == <<waiting, max, call>>
vars == <<req, tried, metrics, config, reload, limitVars, queueVars>>

NoRequest ==
  [pc |-> "idle", stage |-> "ingress", cfg |-> 1, client |-> "none", alias |-> "none",
   model |-> [limits |-> NoLimits, targets |-> << >>, retries |-> 0],
   target |-> 0, attempt |-> 0,
   ctx |-> "live",         \* or how it ended: "gone", "deadline"
   late |-> FALSE,         \* the attempt in progress began after ctx ended
   limited |-> FALSE,      \* providerLimited
   lastErr |-> FALSE,      \* lastErr # nil
   completed |-> FALSE,
   sse |-> FALSE,          \* the answer is a text/event-stream
   answer |-> "none",      \* what the client was sent
   recorded |-> << >>]     \* what usage.record was told

NoMetrics ==
  [requests |-> 0, completed |-> 0, failed |-> 0, active |-> 0,
   upstreamRequests |-> 0, upstreamErrors |-> 0,
   queueWaits |-> 0, queueRejected |-> 0]

Init ==
  /\ req = [r \in Requests |-> NoRequest]
  /\ tried = [r \in Requests |-> << >>]
  /\ metrics = NoMetrics
  /\ config = 1
  /\ reload = "none"
  /\ Limits!Init
  /\ waiting = 0
  /\ max = Configs[1].queue
  /\ call = [r \in Requests |-> Queue!Idle]

-----------------------------------------------------------------------------
Cfg(r) == Configs[req[r].cfg]
Targets(r) == req[r].model.targets
ProviderOf(r) == Targets(r)[req[r].target]
ProviderTimeout(r) == Cfg(r).providers[ProviderOf(r)].timeout

At(r, pc) == req[r].pc = pc

(* The scopes the current stage asks to be admitted through. *)
Scopes(r) ==
  CASE req[r].stage = "ingress"  -> IngressCall(Cfg(r), req[r].client)
    [] req[r].stage = "model"    -> ModelCall(req[r].alias, req[r].model.limits)
    [] req[r].stage = "provider" -> ProviderCall(Cfg(r), ProviderOf(r))

Set(r, q) == req' = [req EXCEPT ![r] = q]

(* An error is written and the deferred calls start to run. *)
Reply(q, answer) == [q EXCEPT !.pc = "unwind", !.answer = answer]

Record(q, answer) == [q EXCEPT !.recorded = Append(@, answer)]

(* continue targetLoop: the next target, or none is left. *)
NextTarget(q) ==
  IF q.target < Len(q.model.targets)
  THEN [q EXCEPT !.pc = "target", !.target = @ + 1, !.attempt = 0]
  ELSE [q EXCEPT !.pc = "fail"]

Tried(r, outcome) ==
  tried' = [tried EXCEPT ![r] = Append(@, [target |-> req[r].target,
                                           attempt |-> req[r].attempt,
                                           late |-> req[r].late,
                                           outcome |-> outcome])]

(* The request asks for admission to a stage: admitWithQueue is called. *)
Ask(r, q, stage) ==
  /\ Set(r, [q EXCEPT !.pc = "admit", !.stage = stage])
  /\ Queue!Call(r)

-----------------------------------------------------------------------------
(* A request arrives; ServeHTTP has loaded the configuration. *)
Arrive(r, client) ==
  /\ At(r, "idle")
  /\ Ask(r, [req[r] EXCEPT !.cfg = config, !.client = client], "ingress")
  /\ metrics' = [metrics EXCEPT !.requests = @ + 1, !.active = @ + 1]
  /\ UNCHANGED <<tried, config, reload, limitVars>>

(* admitWithQueue: the try of wait is an admission by the limits. *)
Try(r) ==
  /\ \/ Queue!TryFirst(r, TRUE) /\ Limits!Admit(<<r, req[r].stage>>, Scopes(r))
     \/ Queue!TryFirst(r, FALSE) /\ Limits!Refuse(Scopes(r))
  /\ UNCHANGED <<req, tried, metrics, config, reload>>

PollAgain(r) ==
  /\ \/ Queue!Poll(r, TRUE) /\ Limits!Admit(<<r, req[r].stage>>, Scopes(r))
     \/ Queue!Poll(r, FALSE) /\ Limits!Refuse(Scopes(r))
  /\ UNCHANGED <<req, tried, metrics, config, reload>>

EnterQueue(r) ==
  /\ Queue!Enter(r)
  /\ UNCHANGED <<req, tried, metrics, config, reload, limitVars>>

(* Mutant: a wait given up is not taken off the queue. *)
GiveUpWithoutLeaving(r) ==
  /\ call[r].at = "poll"
  /\ call' = [call EXCEPT ![r].at = "return"]
  /\ UNCHANGED <<req, tried, metrics, config, reload, limitVars, waiting, max>>

GiveUpWaiting(r) ==
  /\ Queue!Expire(r)
  /\ UNCHANGED <<req, tried, metrics, config, reload, limitVars>>

LeaveQueue(r) ==
  /\ Queue!Leave(r)
  /\ UNCHANGED <<req, tried, metrics, config, reload, limitVars>>

QueueWaits(r) == metrics.queueWaits + (IF call[r].queued THEN 1 ELSE 0)

(* wait has returned ok. *)
Granted(r) ==
  /\ call[r].ok
  /\ Queue!Return(r)
  /\ Set(r, CASE req[r].stage = "ingress" -> [req[r] EXCEPT !.pc = "body"]
              [] req[r].stage = "model"   -> [req[r] EXCEPT !.pc = "prompt"]
              [] OTHER -> [req[r] EXCEPT !.pc = "upstream",
                                         !.late = req[r].ctx # "live"])
  /\ metrics' = [metrics EXCEPT !.queueWaits = QueueWaits(r)]
  /\ UNCHANGED <<tried, config, reload, limitVars>>

(* 429 before anything of the request was read: accounting is not told. *)
IngressRefused(r) ==
  /\ Set(r, Reply(req[r], "busy"))
  /\ metrics' = [metrics EXCEPT !.queueWaits = QueueWaits(r), !.queueRejected = @ + 1]
  /\ UNCHANGED tried

(* 429 for the model, which accounting is told of. *)
ModelRefused(r) ==
  /\ Set(r, Reply(Record(req[r], "busy"), "busy"))
  /\ metrics' = [metrics EXCEPT !.queueWaits = QueueWaits(r), !.queueRejected = @ + 1]
  /\ UNCHANGED tried

(* No capacity at this provider: continue targetLoop. *)
ProviderRefused(r) ==
  /\ Set(r, NextTarget([req[r] EXCEPT !.limited = TRUE]))
  /\ tried' = [tried EXCEPT ![r] = Append(@, [target |-> req[r].target,
                                              attempt |-> req[r].attempt,
                                              late |-> FALSE,
                                              outcome |-> "refused"])]
  /\ metrics' = [metrics EXCEPT !.queueWaits = QueueWaits(r)]

(* wait has returned without a lease. *)
Denied(r) ==
  /\ ~call[r].ok
  /\ Queue!Return(r)
  /\ \/ req[r].stage = "ingress" /\ IngressRefused(r)
     \/ req[r].stage = "model" /\ ModelRefused(r)
     \/ req[r].stage = "provider" /\ ProviderRefused(r)
  /\ UNCHANGED <<config, reload, limitVars>>

(* The body cannot be read, or is too large: 413; it is not a JSON object   *)
(* with a model: 400.                                                       *)
BadBody(r) ==
  /\ At(r, "body")
  /\ \E a \in {"tooLarge", "badRequest"} : Set(r, Reply(req[r], a))
  /\ UNCHANGED <<tried, metrics, config, reload, limitVars, queueVars>>

(* The body names an alias: a configured one goes on to model admission,    *)
(* another to discovery.                                                    *)
ReadBody(r, alias) ==
  /\ At(r, "body")
  /\ IF alias \in DOMAIN Cfg(r).models
     THEN Ask(r, [req[r] EXCEPT !.alias = alias, !.model = Cfg(r).models[alias]], "model")
     ELSE Set(r, [req[r] EXCEPT !.pc = "resolve", !.alias = alias]) /\ UNCHANGED queueVars
  /\ UNCHANGED <<tried, metrics, config, reload, limitVars>>

Discoverable(r) == {p \in DOMAIN Cfg(r).providers : Cfg(r).providers[p].discover}

(* resolveDiscoveredModel: any answer the discovery providers may give. *)
Resolve(r) ==
  /\ At(r, "resolve")
  /\ \/ /\ \E p \in Discoverable(r) :
             Ask(r, [req[r] EXCEPT !.model = DiscoveredModel(p)], "model")
     \/ /\ Discoverable(r) # {}
        /\ Set(r, Reply(req[r], "noDiscovery"))
        /\ UNCHANGED queueVars
     \/ Set(r, Reply(req[r], "unknownModel")) /\ UNCHANGED queueVars
  /\ UNCHANGED <<tried, metrics, config, reload, limitVars>>

(* applySystemPrompt and applyRequestOverrides; then the first target. *)
Prepare(r) ==
  /\ At(r, "prompt")
  /\ \/ Set(r, Reply(req[r], "badRequest"))
     \/ Set(r, [req[r] EXCEPT !.pc = "target", !.target = 1])
  /\ UNCHANGED <<tried, metrics, config, reload, limitVars, queueVars>>

(* The payload is encoded for the target, once for all its attempts. *)
StartTarget(r) ==
  /\ At(r, "target")
  /\ \/ Ask(r, req[r], "provider")
     \/ Set(r, Reply(req[r], "encodeError")) /\ UNCHANGED queueVars
  /\ UNCHANGED <<tried, metrics, config, reload, limitVars>>

-----------------------------------------------------------------------------
(* Mutant: the lease is kept until proxy returns. *)
KeepProvider(r) == UNCHANGED limitVars

ReleaseProvider(r) == Limits!Release(<<r, "provider">>)

(* Mutant: the end of ctx is not looked at. *)
AfterErrorHeedless(q, timedOut) ==
  IF ~timedOut /\ q.attempt < q.model.retries THEN [q EXCEPT !.pc = "backoff"]
                                               ELSE NextTarget(q)

(* What follows a transport error: a dead request stops, a slow provider is *)
(* left, anything else is retried on the same target while retries last.    *)
AfterError(q, timedOut) ==
  CASE q.ctx # "live"              -> [q EXCEPT !.pc = "fail"]
    [] q.ctx = "live" /\ timedOut  -> NextTarget(q)
    [] q.ctx = "live" /\ ~timedOut -> IF q.attempt < q.model.retries
                                      THEN [q EXCEPT !.pc = "backoff"]
                                      ELSE NextTarget(q)

(* client.Do fails: the connection, the attempt's own timeout, or ctx. *)
UpstreamError(r, timedOut) ==
  /\ At(r, "upstream")
  /\ timedOut => ProviderTimeout(r)
  /\ ReleaseProvider(r)
  /\ Set(r, AfterError([req[r] EXCEPT !.lastErr = TRUE], timedOut))
  /\ Tried(r, IF timedOut THEN "timeout" ELSE "error")
  /\ metrics' = [metrics EXCEPT !.upstreamRequests = @ + 1, !.upstreamErrors = @ + 1]
  /\ UNCHANGED <<config, reload, queueVars>>

(* Status codes by what proxy does with them: "failing" is 408, 500, 502,   *)
(* 503, 504; "missing" 404; "throttled" 429; "final" everything else.       *)
StatusClasses == {"final", "failing", "missing", "throttled"}

retryableStatus(class) == class # "final"

(* Mutant: a 404 or a 429 is retried on the same target. *)
ShouldRetryAnything(r, class) ==
  retryableStatus(class) /\ req[r].attempt < req[r].model.retries

ShouldRetrySame(r, class) ==
  /\ retryableStatus(class)
  /\ class \notin {"throttled", "missing"}
  /\ req[r].attempt < req[r].model.retries

(* Mutant: the last target is not counted as another one. *)
ShouldFailoverShort(r, class) ==
  /\ retryableStatus(class)
  /\ ~ShouldRetrySame(r, class)
  /\ req[r].target < Len(Targets(r)) - 1

ShouldFailover(r, class) ==
  /\ retryableStatus(class)
  /\ ~ShouldRetrySame(r, class)
  /\ req[r].target < Len(Targets(r))

(* A provider answers, and the answer is thrown away. *)
UpstreamRetry(r, class) ==
  /\ At(r, "upstream")
  /\ ~req[r].late
  /\ ShouldRetrySame(r, class) \/ ShouldFailover(r, class)
  /\ ReleaseProvider(r)
  /\ Set(r, IF ShouldRetrySame(r, class) THEN [req[r] EXCEPT !.pc = "backoff"]
                                         ELSE NextTarget(req[r]))
  /\ Tried(r, class)
  /\ metrics' = [metrics EXCEPT !.upstreamRequests = @ + 1]
  /\ UNCHANGED <<config, reload, queueVars>>

(* Mutant: the lease is given back when the headers arrive. *)
CommitReleasing(r, class, sse) ==
  /\ At(r, "upstream")
  /\ ~req[r].late
  /\ ~ShouldRetrySame(r, class) /\ ~ShouldFailover(r, class)
  /\ ReleaseProvider(r)
  /\ Set(r, [req[r] EXCEPT !.pc = "stream", !.answer = class, !.completed = TRUE,
                           !.sse = sse])
  /\ Tried(r, class)
  /\ metrics' = [metrics EXCEPT !.upstreamRequests = @ + 1, !.completed = @ + 1]
  /\ UNCHANGED <<config, reload, queueVars>>

(* A provider answers, and the answer is the client's: the headers go out   *)
(* and the provider's lease is kept while the body is streamed.             *)
Commit(r, class, sse) ==
  /\ At(r, "upstream")
  /\ ~req[r].late
  /\ ~ShouldRetrySame(r, class) /\ ~ShouldFailover(r, class)
  /\ Set(r, [req[r] EXCEPT !.pc = "stream", !.answer = class, !.completed = TRUE,
                           !.sse = sse])
  /\ Tried(r, class)
  /\ metrics' = [metrics EXCEPT !.upstreamRequests = @ + 1, !.completed = @ + 1]
  /\ UNCHANGED <<config, reload, limitVars, queueVars>>

(* waitForRetry: the timer, or ctx; when both are ready, either. *)
BackoffOver(r) ==
  /\ At(r, "backoff")
  /\ Ask(r, [req[r] EXCEPT !.attempt = @ + 1], "provider")
  /\ UNCHANGED <<tried, metrics, config, reload, limitVars>>

BackoffCut(r) ==
  /\ At(r, "backoff")
  /\ req[r].ctx # "live"
  /\ Set(r, [req[r] EXCEPT !.pc = "fail"])
  /\ UNCHANGED <<tried, metrics, config, reload, limitVars, queueVars>>

(* No target answered. *)
FailureStatus(q) ==
  CASE q.ctx = "deadline"                               -> "timedOut"
    [] q.ctx # "deadline" /\ q.limited /\ ~q.lastErr    -> "allLimited"
    [] q.ctx # "deadline" /\ ~(q.limited /\ ~q.lastErr) -> "badGateway"

Fail(r) ==
  /\ At(r, "fail")
  /\ LET s == FailureStatus(req[r]) IN Set(r, Reply(Record(req[r], s), s))
  /\ UNCHANGED <<tried, metrics, config, reload, limitVars, queueVars>>

-----------------------------------------------------------------------------
(* Mutant: an interrupted stream is not accounted for. *)
StreamEndsUnrecorded(r) ==
  /\ At(r, "stream")
  /\ Set(r, [req[r] EXCEPT !.pc = "unwind"])
  /\ UNCHANGED <<tried, metrics, config, reload, limitVars, queueVars>>

(* Mutant: an interrupted stream fails over. *)
StreamEndsRetrying(r) ==
  /\ At(r, "stream")
  /\ ReleaseProvider(r)
  /\ Set(r, NextTarget(req[r]))
  /\ UNCHANGED <<tried, metrics, config, reload, queueVars>>

(* io.Copy, between two chunks.  It ends when the body does, when reading   *)
(* it fails (ctx covers the body too), or when the client is gone.          *)
StreamEnds(r) ==
  /\ At(r, "stream")
  /\ Set(r, [Record(req[r], req[r].answer) EXCEPT !.pc = "unwind"])
  /\ UNCHANGED <<tried, metrics, config, reload, limitVars, queueVars>>

(* The client stops reading: the write to it blocks. *)
ClientStalls(r) ==
  /\ At(r, "stream")
  /\ req[r].ctx # "gone"
  /\ Set(r, [req[r] EXCEPT !.pc = "stalled"])
  /\ UNCHANGED <<tried, metrics, config, reload, limitVars, queueVars>>

ClientResumes(r) ==
  /\ At(r, "stalled")
  /\ Set(r, [req[r] EXCEPT !.pc = "stream"])
  /\ UNCHANGED <<tried, metrics, config, reload, limitVars, queueVars>>

(* Mutant: no write deadline is set. *)
WriteFailsWhenGone(r) ==
  /\ At(r, "stalled")
  /\ req[r].ctx = "gone"
  /\ Set(r, [Record(req[r], req[r].answer) EXCEPT !.pc = "unwind"])
  /\ UNCHANGED <<tried, metrics, config, reload, limitVars, queueVars>>

(* The blocked write fails: flushWriter's deadline, for an event stream     *)
(* only, or the loss of the connection.                                     *)
WriteFails(r) ==
  /\ At(r, "stalled")
  /\ req[r].sse \/ req[r].ctx = "gone"
  /\ Set(r, [Record(req[r], req[r].answer) EXCEPT !.pc = "unwind"])
  /\ UNCHANGED <<tried, metrics, config, reload, limitVars, queueVars>>

Held(r) == {s \in Stages : leases[<<r, s>>] # Limits!NoLease}

Innermost(S) == IF "provider" \in S THEN "provider"
                ELSE IF "model" \in S THEN "model" ELSE "ingress"

(* The deferred releases, last in first out, each its own critical section. *)
Unwind(r) ==
  /\ At(r, "unwind")
  /\ Held(r) # {}
  /\ Limits!Release(<<r, Innermost(Held(r))>>)
  /\ UNCHANGED <<req, tried, metrics, config, reload, queueVars>>

(* Mutant: only requests that reached a provider are counted as failed. *)
FinishUncounted(r) ==
  /\ At(r, "unwind")
  /\ Held(r) = {}
  /\ Set(r, [req[r] EXCEPT !.pc = "done"])
  /\ metrics' = [metrics EXCEPT !.active = @ - 1,
                    !.failed = IF req[r].completed \/ tried[r] = << >> THEN @ ELSE @ + 1]
  /\ UNCHANGED <<tried, config, reload, limitVars, queueVars>>

(* The first defer of proxy, which runs last. *)
Finish(r) ==
  /\ At(r, "unwind")
  /\ Held(r) = {}
  /\ Set(r, [req[r] EXCEPT !.pc = "done"])
  /\ metrics' = [metrics EXCEPT !.active = @ - 1,
                                !.failed = IF req[r].completed THEN @ ELSE @ + 1]
  /\ UNCHANGED <<tried, config, reload, limitVars, queueVars>>

-----------------------------------------------------------------------------
(* ctx ends: the client's connection, or server.request_timeout. *)
EndContext(r, why) ==
  /\ req[r].pc \notin {"idle", "done"}
  /\ req[r].ctx = "live"
  /\ Set(r, [req[r] EXCEPT !.ctx = why])
  /\ UNCHANGED <<tried, metrics, config, reload, limitVars, queueVars>>

(* Reload: publish the configuration, then bring the components in line.    *)
(* The discovery and readiness caches it also clears are not part of this   *)
(* module.                                                                  *)
ReloadConfig ==
  /\ reload = "none"
  /\ config < Len(Configs)
  /\ config' = config + 1
  /\ reload' = "queue"
  /\ UNCHANGED <<req, tried, metrics, limitVars, queueVars>>

ReloadQueue ==
  /\ reload = "queue"
  /\ Queue!SetMax(Configs[config].queue)
  /\ reload' = "limits"
  /\ UNCHANGED <<req, tried, metrics, config, limitVars>>

(* Mutant: the limits are replaced by a new store. *)
ReloadLimitsAnew ==
  /\ reload = "limits"
  /\ buckets' = << >>
  /\ concurrent' = [k \in ScopeKeys |-> 0]
  /\ reload' = "none"
  /\ UNCHANGED <<req, tried, metrics, config, leases, clock, queueVars>>

ReloadLimits ==
  /\ reload = "limits"
  /\ Limits!Clear
  /\ reload' = "none"
  /\ UNCHANGED <<req, tried, metrics, config, queueVars>>

Tick ==
  /\ Limits!Tick
  /\ UNCHANGED <<req, tried, metrics, config, reload, queueVars>>

(* Every request has come and gone. *)
Quiescent == (\A r \in Requests : At(r, "done")) /\ reload = "none"

Rest == Quiescent /\ UNCHANGED vars

Admission(r) ==
  Try(r) \/ PollAgain(r) \/ EnterQueue(r) \/ LeaveQueue(r) \/ Granted(r) \/ Denied(r)

Handle(r) ==
  \/ \E c \in Clients : Arrive(r, c)
  \/ Admission(r)
  \/ GiveUpWaiting(r)
  \/ BadBody(r)
  \/ \E a \in Aliases : ReadBody(r, a)
  \/ Resolve(r)
  \/ Prepare(r)
  \/ StartTarget(r)
  \/ \E timedOut \in BOOLEAN : UpstreamError(r, timedOut)
  \/ \E class \in StatusClasses : UpstreamRetry(r, class)
  \/ \E class \in StatusClasses, sse \in EventStream : Commit(r, class, sse)
  \/ BackoffOver(r)
  \/ BackoffCut(r)
  \/ Fail(r)
  \/ StreamEnds(r)
  \/ ClientStalls(r)
  \/ ClientResumes(r)
  \/ WriteFails(r)
  \/ Unwind(r)
  \/ Finish(r)
  \/ \E why \in ContextEnds : EndContext(r, why)

Next ==
  \/ \E r \in Requests : Handle(r)
  \/ ReloadConfig \/ ReloadQueue \/ ReloadLimits
  \/ Tick
  \/ Rest

Spec == Init /\ [][Next]_vars

(***************************************************************************)
(* Fairness.  Goroutines are scheduled; the timers that config.defaults    *)
(* sets (queue wait, request, read and write-idle timeouts) and the        *)
(* backoff timer fire; once ctx has ended, calls bound to it return.  SF   *)
(* for a stream: a body whose context has ended gives finitely many more   *)
(* chunks, however often the client stalls on them.  Nothing is assumed of *)
(* clients, of providers or of reloads.  An operator may take away the     *)
(* request and the read timer with a negative value (config.go:146, 149):  *)
(* liveness is for configurations in which both are positive.              *)
(***************************************************************************)
Scheduled(r) ==
  \/ Try(r) \/ EnterQueue(r) \/ LeaveQueue(r) \/ Granted(r) \/ Denied(r)
  \/ Prepare(r) \/ StartTarget(r) \/ Fail(r) \/ Unwind(r) \/ Finish(r)

Ended(r) == req[r].ctx # "live"

Fairness ==
  \A r \in Requests :
    /\ WF_vars(Scheduled(r))
    /\ WF_vars(GiveUpWaiting(r))
    /\ WF_vars(EndContext(r, "deadline"))
    /\ WF_vars(BadBody(r) \/ \E a \in Aliases : ReadBody(r, a))
    /\ WF_vars(BackoffOver(r) \/ BackoffCut(r))
    /\ WF_vars(req[r].sse /\ WriteFails(r))
    /\ WF_vars(Ended(r) /\ Resolve(r))
    /\ WF_vars(Ended(r) /\ UpstreamError(r, FALSE))
    /\ SF_vars(Ended(r) /\ StreamEnds(r))

FairSpec == Spec /\ Fairness

-----------------------------------------------------------------------------
(***************************************************************************)
(* The components are used as they are meant to be.  Every step of the     *)
(* gateway is a step of LimitStore or leaves it alone, and likewise of     *)
(* RequestQueue: no lease is released twice, none is taken over another,   *)
(* no caller leaves a queue it is not in.  With these two, whatever is     *)
(* proved of the components holds inside the gateway.                      *)
(***************************************************************************)
ImplementsLimits == Limits!Spec

ImplementsQueue == Queue!QSpec

-----------------------------------------------------------------------------
AtProvider(r, p) ==
  req[r].pc \in {"upstream", "stream", "stalled"} /\ ProviderOf(r) = p

Limited(k) == \A c \in AllCalls : k \in DOMAIN c.limits => c.limits[k].max > 0

(***************************************************************************)
(* What max_concurrent of a provider is for: however requests retry, fail  *)
(* over, wait and reload, no more of them talk to a provider at a time     *)
(* than the largest limit a configuration gave it, streaming included.     *)
(***************************************************************************)
ProviderCapacity ==
  \A k \in ScopeKeys :
    k[1] = "provider" /\ Limited(k) =>
      Cardinality({r \in Requests : AtProvider(r, k[2])}) <= ScopeCeiling[k].max

(***************************************************************************)
(* "capacity is released during backoff and while another target is being  *)
(* considered" (gateway.go:390): a provider lease exists only from a       *)
(* granted admission to the end of that attempt, or of the stream it won.  *)
(***************************************************************************)
ProviderLeaseOnlyInAttempt ==
  \A r \in Requests :
    "provider" \in Held(r) =>
      \/ req[r].pc \in {"upstream", "stream", "stalled"}
      \/ At(r, "unwind") /\ req[r].completed
      \/ At(r, "admit") /\ req[r].stage = "provider" /\ call[r].ok

(***************************************************************************)
(* When every request has finished, on whatever path, nothing is left of   *)
(* them: all capacity is back, the queue is empty, none counts as active   *)
(* and each was counted as completed or as failed, once.                   *)
(***************************************************************************)
NothingLeftBehind ==
  (\A r \in Requests : req[r].pc \in {"idle", "done"}) =>
    /\ \A k \in ScopeKeys : concurrent[k] = 0
    /\ waiting = 0
    /\ metrics.active = 0
    /\ metrics.requests = metrics.completed + metrics.failed

(***************************************************************************)
(* The failover policy (README.md:335-337, docs/design.md:65-69): targets  *)
(* in the operator's order, none skipped; the same target again only after *)
(* a transport error or a failing status and while retries last; a 404, a  *)
(* 429, a slow attempt or a refused admission goes straight to the next.   *)
(***************************************************************************)
FailoverOrder ==
  \A r \in Requests :
    LET t == tried[r] IN
    /\ t # << >> => t[1].target = 1 /\ t[1].attempt = 0
    /\ \A i \in 1 .. Len(t) - 1 :
         LET transient == t[i].outcome \in {"error", "failing"}
                            /\ t[i].attempt < req[r].model.retries
         IN  IF transient
             THEN t[i + 1].target = t[i].target /\ t[i + 1].attempt = t[i].attempt + 1
             ELSE t[i + 1].target = t[i].target + 1 /\ t[i + 1].attempt = 0

(* An admission was refused; an attempt got no answer. *)
Refused(t) == \E i \in DOMAIN t : t[i].outcome = "refused"
Broken(t) == \E i \in DOMAIN t : t[i].outcome \in {"error", "timeout"}

(***************************************************************************)
(* What the client is told is justified by what happened.  A provider's    *)
(* retryable answer is passed on only by the last target with its retries  *)
(* spent; a failure is reported only when every target was considered or   *)
(* the request's context had ended; a timeout only for the deadline.  The  *)
(* two other failures are told apart by the attempts: the 429 for limits   *)
(* needs a refused admission and not one transport error, the 502 comes    *)
(* with either a transport error or no refused admission.  Answers that    *)
(* were thrown away count for neither: one refused target beside others    *)
(* that answered 503 still makes "all provider targets are rate limited".  *)
(***************************************************************************)
AnswerJustified ==
  \A r \in Requests :
    LET q == req[r]
        t == tried[r]
        last == t[Len(t)]
    IN  /\ q.answer \in StatusClasses =>
             /\ last.outcome = q.answer
             /\ q.answer # "final" => last.target = Len(Targets(r))
             /\ q.answer = "failing" => last.attempt = q.model.retries
        /\ q.answer \in {"allLimited", "badGateway"} /\ q.ctx = "live" =>
             /\ {t[i].target : i \in DOMAIN t} = DOMAIN Targets(r)
             /\ last.target = Len(Targets(r))
        /\ q.answer = "allLimited" => Refused(t) /\ ~Broken(t)
        /\ q.answer = "badGateway" => ~Refused(t) \/ Broken(t)
        /\ q.answer = "timedOut" => q.ctx = "deadline"

(***************************************************************************)
(* A request whose client has gone or whose deadline has passed starts at  *)
(* most one more attempt upstream: the backoff timer or an admission may   *)
(* win a race against ctx once, then gateway.go:420 ends the loop.         *)
(***************************************************************************)
AtMostOneLateAttempt ==
  \A r \in Requests :
    Cardinality({i \in DOMAIN tried[r] : tried[r][i].late})
      + (IF At(r, "upstream") /\ req[r].late THEN 1 ELSE 0) <= 1

(* What proxy tells accounting of: a provider's answer, the failure of all  *)
(* targets, and the model's 429.                                            *)
Accounted(q) ==
  \/ q.answer \in StatusClasses \cup {"timedOut", "allLimited", "badGateway"}
  \/ q.answer = "busy" /\ q.stage = "model"

(***************************************************************************)
(* Accounting agrees with what clients saw, whatever way out a request     *)
(* took, a stream cut short included: it is told of a request at most once *)
(* and with the client's outcome, and of a finished one exactly when a     *)
(* provider's answer, the failure of all targets or the model's 429 ended  *)
(* it.  A request refused at the ingress, for its body or by discovery is  *)
(* not told of, nor is one that ends after its model admitted it with a    *)
(* bad prompt (gateway.go:363-366) or an encoding error (385-388).         *)
(***************************************************************************)
UsageAgrees ==
  \A r \in Requests :
    /\ req[r].recorded \in {<< >>, <<req[r].answer>>}
    /\ At(r, "done") => (req[r].recorded # << >> <=> Accounted(req[r]))

(***************************************************************************)
(* "Once headers are committed, retry and failover are no longer safe"     *)
(* (gateway.go:488): after an answer, no other answer and no attempt.      *)
(***************************************************************************)
AnswerStands ==
  [][\A r \in Requests :
       req[r].answer # "none" =>
         req'[r].answer = req[r].answer /\ tried'[r] = tried[r]]_vars

(***************************************************************************)
(* Every request ends, whatever its client, the providers and the other    *)
(* requests do, with one exception: server.request_timeout does not reach  *)
(* a blocked write, and only event streams have a write deadline of their  *)
(* own (gateway.go:490-508, 790), so a client that never reads the rest of *)
(* another answer and never goes away holds its request for good.          *)
(* Holding leases while waiting for others never ends in a circle, because *)
(* waiting has a timeout.                                                  *)
(***************************************************************************)
RequestsFinish ==
  \A r \in Requests :
    (~At(r, "idle") ~> At(r, "done")) \/ <>[](At(r, "stalled") /\ ~req[r].sse)
=============================================================================
