# Formal models of shepard

TLA+ specifications of shepard, the gateway in front of model providers: what
they model, what TLC checks on small instances and what TLAPS proves for every
instance. Source lines refer to `src/`; `PROJECT.json` maps every definition to
the lines it stands for.

Run from this directory:

    tlc -workers 2 -config ProxyFailover.cfg MCProxy     # one run; see the table below
    tlapm LimitStoreProofs.tla                           # one proof module

## 1. The system

shepard is one Go process. An HTTP request passes a network ACL, is
authenticated, is admitted by rate and concurrency limits (perhaps after waiting
in a queue), has its model alias resolved to an ordered list of provider targets,
and is sent to them with retries and failover until one answers; the answer is
streamed back and the tokens it cost are recorded. Everything runs in one
goroutine per request over shared state; SIGHUP replaces the configuration while
requests are in flight.

### Inventory

| Component | Source | State | Operations | What makes it correct |
|---|---|---|---|---|
| Limits | `gateway/limiter.go` | token bucket and in-flight counter per scope key, one mutex | `admit`, the release closure, `clear` | counters equal the outstanding leases; capacity is never exceeded; a refusal costs nothing; the rate holds over every window of time |
| Queue | `gateway/queue.go` | `waiting`, `max`, one mutex | `wait` (`enter`, poll every 25 ms, `leave`), `setMax` | `enter` and `leave` balance on every path; the size is respected, also when it shrinks; every wait ends |
| Proxy | `gateway/gateway.go` `proxy` | locals of the request; metrics | admission at three stages, body, resolution, attempts, backoff, streaming, deferred releases | the failover policy; the answer is justified by what happened; each lease comes back exactly once; requests end |
| Reload | `gateway/gateway.go` `Reload` | pointers to config, ACL and trusted networks | publish, `setMax`, clear three caches | nothing in flight is disturbed; nothing stale is served later |
| Readiness | `gateway/readiness.go` | cached result, expiry, channel of the probe in flight, generation | `cachedReadiness`, `checkReadiness`, `clear` | one probe at a time; a probe overtaken by a clear is not cached; every poll is answered |
| Process | `cmd/shepard/main.go` | two signal channels of capacity one, server, usage store | load, serve, reload, shut down | a failed reload changes nothing; no reload is lost; shutdown gives requests their window |
| Discovery | `gateway/discovery.go` | per-provider list of models with expiry | `discoverProvider`, `discoverAll`, `resolveDiscoveredModel`, `clear` | no entry survives a reload; what is listed resolves |
| Usage | `gateway/usage.go` | two SQLite tables, one connection | `record`, `snapshot`, `periodSnapshot`, `extractUsage`, `close` | both tables or neither; no row of a report is wrong, through failures, crashes and overflow; a record never holds its request for good |
| ACL, client address | `gateway/acl.go` | none | network match, `X-Forwarded-For` walk | only trusted hops stand between the client and the gateway |
| Routing, authentication | `gateway/gateway.go` `ServeHTTP` | none | dispatch, bearer token compare | one snapshot per request |
| Payload rewriting | `gateway/gateway.go` | none | prompts, overrides, provider compatibility, headers | prompts once and in place; policy wins; a target sees only its own changes |
| Buffers | `tailBuffer` of `gateway/gateway.go`, `gateway/logging.go` | the end and the beginning of a body | `Write` | the limit holds however the body is cut; usage survives in the tail |
| Configuration file | `config/config.go` | none | `Load`, `defaults`, `Validate` | limits, bursts, targets, prefixes and timers of an accepted file fit together |

### Interactions

* `proxy` calls `admitWithQueue` three times (ingress together with the client,
  then model, then provider of each attempt); the queue's `try` is
  `limitStore.admit`. Leases of earlier stages are held while waiting for later
  ones.
* `Reload` runs in the reloader goroutine beside all requests. It stores the
  configuration, changes the queue's size and clears limits, discovery and
  readiness one after the other, each under its own mutex. A request keeps the
  configuration it loaded on arrival, but shares limits, queue and caches with
  requests of the next configuration.
* A request's context ends with its client's connection or with
  `server.request_timeout`; queue, backoff, provider call and body all watch it,
  and each may lose the race.

### What is hard

The interleavings of requests with each other and with `Reload`; the many ways
out of `proxy` with different leases held; timers racing late results; streams to
clients that stop reading; signals dropped by full channels; shutdown against
requests in flight; a crash between two statements; integers at the limit of the
database; fractional tokens. `PROJECT.json` lists these as hazards,
each at its line and with the properties that cover it.

## 2. Modules

| Module | Models | Uses |
|---|---|---|
| `LimitStore` | `limiter.go` | |
| `RateWindow` | an observer of `LimitStore` that counts admissions through one key since an arbitrary moment | extends `LimitStore` |
| `RequestQueue` | `queue.go` | |
| `Proxy` | `proxy` and `admitWithQueue` of `gateway.go`, metrics, `Reload` | instances `LimitStore`, `RequestQueue` |
| `Readiness` | `readiness.go` and the part of `Reload` that concerns it | |
| `Discovery` | `discovery.go`, the listings of `gateway.go`, and the part of `Reload` that concerns it | |
| `Lifecycle` | `main.go` | |
| `AccountBook` | the tables of `usage.go` as their readers understand them: arithmetic, postings, reports; an abstract specification | |
| `UsageStore` | `recordAt` statement by statement, reports, shutdown, crash, restart | extends and implements `AccountBook` |
| `Settings` | `defaults` and `Validate` of `config.go` | |
| `Edge` | `acl.go`, `clientIdentity`, the checks of `ServeHTTP` | |
| `Payload` | prompts, overrides, provider compatibility and headers of `gateway.go` | |
| `Capture` | `tailBuffer`, `logBodyBuffer`, `extractUsage` | |
| `Exchange` | one exchange through the four above, while `Reload` replaces the pointers | extends `Settings`, `Edge`, `Payload`, `Capture` |
| `MC*` | finite instances | |
| `LimitStoreProofs` | theorems about limits and rates | extends `RateWindow` |
| `ProxyProofs` | theorems about the gateway | extends `Proxy`, instances `LimitStoreProofs`, `RequestQueueProofs` |
| `RequestQueueProofs`, `ReadinessProofs`, `DiscoveryProofs`, `LifecycleProofs`, `UsageStoreProofs`, `ExchangeProofs` | theorems about the module of that name | extend it |

Definitions named as mutants (`... Uncapped`, `... Holding`, and so on, each
introduced by a comment "Mutant:") are plausible mistakes in the code. They are
not part of any specification; substituting one for the definition after it must
break the property it is listed with in `PROJECT.json`.

### LimitStore

State: `buckets` (`limitStore.buckets`, a function on the keys that have one),
`concurrent`, and `leases`, which holds per holder the keys its release closure
would decrement. One action is one critical section: `Admit`, `Refuse`,
`Release`, `Clear`, and `Tick` for the clock. `admit` examines scopes in order
and consumes only when all of them pass; when a scope's rate refuses, the
refreshed bucket of that scope is stored, as in the code.

Tokens are float64 in the code and multiples of `1/Unit` here. A configuration
appears as the set `Calls`: for each call the order of its scopes and the limits
it gives each, so that calls of an old and a new configuration meet in one store.
`Ceiling` is the largest limit any call gives a key.

### RequestQueue

State: `waiting`, `max` and where each caller is inside `wait`. The first try,
`enter`, each poll, the expiry and `leave` are separate steps. Whether a try
succeeds is a parameter: `Proxy` binds it to an admission.

### Proxy

State: per request a record of the locals of `proxy` (`pc`, `stage`, target,
attempt, whether `ctx` has ended and why, `providerLimited`, `lastErr`,
`completed`), the metrics, the configuration published, and the variables of the
two components. An action is what happens between two points at which another
goroutine or the outside world can be observed: an admission, reading the body,
a provider's answer, the backoff timer, a chunk of the stream, one deferred
release. `tried` is a history of attempts and only the properties read it.

Status codes are grouped by what the code does with them (`failing`, `missing`,
`throttled`, `final`). Bodies and prompts are reduced to whether handling them
succeeds. A client that stops reading, one that disconnects and a deadline are
different events, because the code treats them differently.

### Readiness

`cachedReadiness` is two critical sections with the probe between them. A result
carries the configuration it was probed from and the generation its probe
started in, so that properties can tell results apart. The probe is one step per
provider.

### Discovery

`discoverProvider` is `Get`, a call to the provider, and `Put`; the store does
not know configurations, so an entry carries the one it was made under for the
properties only. Names are sequences of path segments, so that `HasPrefix` and
the concatenation in the code are `IsPrefix` and `\o`. A resolution takes any
provider whose prefix fits, as the range over a map does; a listing asks all, in
the order of their names. `assured` and `listed` are history.

### Lifecycle

The three goroutines of `main.go`, the two signal channels, the configuration
file as a sequence of edits, and connections with one request each.
`http.Server` is external: `Shutdown` closes the listener, which makes
`ListenAndServe` return at once, and waits for active requests or its context.

### AccountBook and UsageStore

`db` is what is committed, `tx` what the open transaction sees, `conn` who holds
the one connection (usage.go:55). `recordAt` is `BeginTx`, two statements and
`Commit`; each of them may fail, which is the deferred `Rollback`. `Exit` may
come between any two steps; `newUsageStore` starts again on the same file, or on
nothing when the database is in memory. `ledger` is history: the recorders whose
transaction was committed, which the reports are compared with.

Integers are as wide as `MaxInt` says. External, from the documentation of
`database/sql` and SQLite: an unsigned argument with its high bit set is refused;
a sum beyond the signed range turns a column REAL for good, and such a row cannot
be scanned into a `uint64`; a `SUM` beyond the range is an error. `extractUsage`
computes `in + out` modulo 2^64 and `TokensOf` does the same.

### Settings, Edge, Payload, Capture and Exchange

The first four are operators without state, translated from functions without
state. Their data is as coarse as the properties allow: a network is the set of
addresses it covers, a payload the settings the code touches with whose value
each carries, a text the sequence of the pieces it was joined from, a body the
sequence of its objects with sizes, a byte the number of its object.

`Exchange` runs them in the order of the code. `ServeHTTP` loads `config`,
`trusted` and `acl` in separate steps, and `proxy` loads `trusted` once more;
`Reload` stores them in separate steps in between. The handler's payload is one
variable that all targets are served from, so that a rewriting in place would
show. The response arrives in chunks of any size. What a part leaves behind is
forgotten when the next one starts, as nothing reads it again; otherwise every
configuration would be combined with every body.

## 3. What the runs show

| Run | Configuration | Instance | Checks |
|---|---|---|---|
| `limits` | `Limits.cfg` | 3 holders, an ingress, a client and a provider, calls of two configurations that differ in rate, halves of a token, clock to 4 | counters equal leases; capacity; a refusal, a release and a clear leave what was admissible admissible; burst plus rate bounds every window at the provider |
| `queue` | `RequestQueue.cfg` | 4 callers, sizes 0, 1, 3 | `enter`/`leave` balance; size respected; a queue left over-full by a reload comes down to its size again, whoever arrives; every wait returns |
| `failover` | `ProxyFailover.cfg` | 1 request, 2 targets, 1 retry, one token per provider, discovery, both kinds of answer | failover order; justified answers; at most one attempt after the context ended; accounting has exactly the requests it is meant to have, with their answers; provider leases only during attempts; one answer |
| `reload` | `ProxyReload.cfg` | 2 requests for 1 slot at the provider, across a reload that disables the queue and narrows limits | provider capacity while streaming; nothing left behind; every step of the gateway is a step of `LimitStore` and of `RequestQueue` or leaves them alone |
| `proxy_live` | `ProxyLive.cfg` | 2 requests, event streams and other answers | requests finish, unless a client stops reading for good an answer that is no event stream |
| `readiness` | `Readiness.cfg` | 3 polls, 1 reload | one probe at a time; nothing probed before a clear is served after it; every poll is answered or cancelled |
| `discovery` | `Discovery.cfg` | 2 lookups, 2 providers with equal model names, the prefix of one beginning that of the other, 1 reload that renames one prefix and drops a provider | only a lookup that the reload overtakes leaves a stale list; a listed model resolves, unless two prefixes fit its name |
| `lifecycle` | `Lifecycle.cfg` | 1 request, 3 versions of the file | only good configurations run; no reload is lost; SIGTERM ends the process |
| `usage` | `UsageStore.cfg` | 2 records of 5 kinds, 2 clients, 2 models, 3 days in 2 months, integers to 3 | no row of a report is wrong, a report by period is whole or an error; no wrapped total is stored; `AccountBook` is implemented; every record returns |
| `exchange` | `Exchange.cfg` | a file changed in one place at a time; 2 editions of networks, proxies and keys, up to 2 hops in one or two header lines, 4 Authorization headers; all sets of settings, one override of each and one pair; up to 2 messages; 2 targets; bodies of up to 3 objects through a tail of 3 bytes | accepted files are usable; one configuration per request unless a reload is storing, and an address behind new proxies is never held against old networks; the client's address is vouched for by the header line that is read; prompts once and in place; targets get what they would get alone; overrides win, with three exceptions; buffers keep their ends; usage survives |

Two runs state what the repository says and find that the code does otherwise:

| Run | Says | Does |
|---|---|---|
| `shutdown` | main.go:73 "Give in-flight streams a bounded window to finish cleanly." | `Shutdown` makes `ListenAndServe` return at once; `main` then returns without waiting for the stopper, and the process exits with requests in flight (main.go:82) |
| `readiness_stale` | gateway.go:95 "new requests immediately see the replacement" | a poll takes its configuration on arrival but the generation when it starts its probe; with a reload in between, old results are cached as new (readiness.go:73) |

More disagreements were met and are visible in the models without a run of their
own:

* docs/design.md:80 says "the global server timeout still bounds the whole
  request". Only event streams get a write deadline, and the server sets no
  `WriteTimeout`: with any other answer a client that stops reading holds its
  request and leases after the deadline (gateway.go:508). `RequestsFinish`
  excepts exactly this case.
* gateway.go:518 says that configuration "intentionally wins over client-supplied
  fields". Overrides are applied before fields are renamed for the provider
  (gateway.go:535-576). So a client's own `max_output_tokens` or
  `reasoning_effort` beats an override of `max_tokens`, `thinking` or `think`
  (`TakenByClient`); for ollama, a client's `thinking` is renamed first and beats
  an override of `think` (`ThinkingFirst`), and an override of either that is
  neither a bool nor a string is dropped (`Untranslatable`). `OverridesWin`
  excepts these three and nothing else.
* acl.go:74 says that the walk stops "at the first untrusted address". It is given
  `Header.Get("X-Forwarded-For")` (gateway.go:124, limiter.go:106), the first line
  of that name: a trusted proxy that adds a line of its own, instead of extending
  the one it got, is not heard. `AddressVouchedFor` states the promise for every
  line of the header and excepts requests with several, for which the first
  line alone vouches.
* README.md:379 says that client limits apply "per inbound API key, or per source
  IP when authentication is disabled". `clientIdentity` fingerprints the
  Authorization header as it came (limiter.go:102), while `authorized` compares the
  trimmed token (gateway.go:226): one key written with another number of blanks is
  another client, and with authentication disabled a header still takes the place
  of the address. `Edge` keeps the header's text and its token apart; no property
  depends on the identity.
* README.md:317 says "Prefixes prevent collisions between providers". `Validate`
  refuses equal prefixes only (config.go:228); with "a/" and "a/b/" the range over
  the map may stop at the provider that does not have the model, and a listed
  model is unknown (discovery.go:85-98). `ListedModelsResolve` excepts the names
  that two prefixes fit.
* `snapshot` has no error result: when its query or its iteration fails, that is
  logged and the usage page is served with no rows or with some (usage.go:158,
  176). `ReportsAreExact` says of such a report that the rows it has are right.
* gateway.go:94 says that a request loads "this pointer once". The ACL and the
  trusted proxies are two more pointers: a request that a reload overtakes can
  combine two configurations. `OneConfiguration` excepts that, though not every
  combination: new proxies never meet old networks.
* `put` stores a list after a reload has cleared the cache (discovery.go:157):
  `StaleNeedsOverlap` delimits it.
* `FailureStatus` of `Proxy` gives "all provider targets are rate limited" also
  after answers with 503 whose retries were refused, since `lastErr` records
  transport errors only (gateway.go:472). `AnswerJustified` says what the 429 and
  the 502 do mean: some admission was refused and no attempt ended in a transport
  error, or otherwise.
* A negative `request_timeout` or `read_timeout` of the server passes `Validate`.
  The first means that requests have no deadline (config.go:146, gateway.go:296),
  the second that reading a body has none (config.go:149, main.go:44).
* A `requests_per_minute` that is not a number passes `Validate` too, since every
  comparison with it is false (config.go:336). `Settings` has such rates;
  `LimitStore` and `Proxy` are about rates that are numbers.
* A request that ends after its model admitted it with a bad prompt
  (gateway.go:363-366) or an encoding error (385-388) is not recorded, while the
  model's own 429 is. `UsageAgrees` says exactly which requests are.

### Bounds

* Requests, polls, callers: two actors are the least for a race over a slot or a
  queue place; polls need three (one probes, one waits, one claims after the
  clear) and the queue four (one more than the largest size). `failover` needs one request only, because its properties
  are about one request and everything others can do to it, a refused admission
  or none, happens anyway.
* Two lookups are the least for an overlap: one that a reload overtakes and one
  that meets what it leaves. Two providers, one prefix beginning the other, are
  the least for a name that two prefixes fit.
* Two header lines with one hop each, and one line with two, tell the code's
  reading of the header from that of the whole header.
* Two targets and one retry show every pair of consecutive attempts: same target
  again, next target, none left. The policy looks no further back.
* A reload is a step to the next entry of `Configs`; each pair of consecutive
  configurations lowers something the requests in flight use.
* The clock (`MaxClock`) runs long enough for a bucket to empty and fill again,
  beyond its burst. Where `MaxClock = 0`, no rate is the point of the run.
* `MaxInt = 3` leaves room for two records that fit, two whose sum does not, one
  that does not fit alone, and a total that wraps around to zero. Two records
  are enough: a row has two, or one that stands beside another's.
* `TailLimit = 3` with objects of one to four bytes: chunks longer than the
  buffer, equal to it and shorter, objects that are cut and objects that are
  dropped.
* The files of `exchange` differ from a valid one in one place (two where
  providers meet), since `Validate` looks at one place at a time.
* `MaxEdits = 3` allows a bad edit between two good ones and an edit between
  `Load` and `Reload`.
* Symmetry is used in runs of safety properties only, over sets of identical
  actors.

### Fairness

Liveness is checked under what the code's scheduling guarantees and no more:

* Goroutines are scheduled (WF on local steps). A failed `try` is not a promise
  that a later one succeeds: nothing is assumed about slots being free.
* Timers fire: `config.defaults` sets the queue's wait timeout, the request
  timeout, the read timeout and the write-idle timeout where the file does not,
  and the backoff and provider probes have fixed ones. `AcceptedIsUsable` checks
  that an accepted file has a positive wait timeout and write-idle timeout. It does
  not follow that `request_timeout` and `read_timeout` are positive: a negative one
  is accepted and means none. `RequestsFinish` is for configurations in which both
  are positive; the safety properties need no timer.
* `recordAt` is bound to a context of five seconds, also while it waits for the
  connection, and a report reads its rows to the end or fails: WF on both.
* After the context has ended, the calls bound to it return. For a stream this
  is SF: the body then has finitely many chunks left, however often the client
  stalls between them.
* Nothing is assumed of clients, of providers, of the operator or of reloads.
* `wait` returns because its timer fires, not because a slot becomes free.

## 4. What is proved

For every value of the constants that satisfies the named assumptions, TLAPS
checks these theorems. Together they state every safety invariant and every
action property of the passing runs.

| Theorem | Statement |
|---|---|
| *`LimitStoreProofs`* | |
| `StoreTypeCorrect` | the store is well typed; no token count is below zero |
| `CountersBalance` | a key's counter is the number of outstanding leases that will decrement it |
| `CapacityHolds` | behind a key every call limits, work in progress never exceeds the largest limit |
| `RefusalsAreFree` | a refusal, a release or a clear leaves every admissible call admissible |
| `RateHolds` | any window of length t admits at most burst + rpm * t calls through a key |
| *`RequestQueueProofs`* | |
| `QueueTypeCorrect`, `QueueBalances`, `QueueIsBounded` | the queue's counter is the number of callers waiting and never exceeds the largest size |
| *`ProxyProofs`* | |
| `GatewayUsesLimits`, `GatewayUsesQueue` | every step of the gateway is a step of `LimitStore` and of `RequestQueue`, or leaves them alone |
| `FailoverIsInOrder` | attempts go through the targets in order, with no more retries than configured and only after what deserves one |
| `AnswersAreJustified` | what the client is told follows from what its attempts met: which answer is passed on, when a failure is reported, and whether it is the 429 for limits, the 502 or the 504 |
| `OneLateAttempt` | at most one attempt starts after the context has ended |
| `AccountsAgree` | a request is recorded at most once and with the answer its client saw; a finished one exactly when a provider's answer, the failure of all targets or the model's 429 ended it |
| `AnswersStand` | an answer that was given is never changed |
| `LeaseOnlyInAttempt` | a provider's lease is held during an attempt at it and its stream, and at no other time |
| `ProviderCapacityHolds` | no more requests are at a provider than its largest limit allows, across reloads |
| `GatewayLeavesNothing` | when no request is in progress all capacity is back, nobody is counted as waiting or active, and each request was counted as completed or failed, once |
| *`ReadinessProofs`* | |
| `OneProbeAtATime` | one probe at a time, owned by the channel in the cache, also across a clear; nobody waits without one |
| `CacheIsOfThisGeneration` | a result probed before a clear is not served from the cache after it |
| *`DiscoveryProofs`* | |
| `StaleOnlyByOverlap` | after a reload that overtook no lookup nobody is given a model of an older configuration |
| `ListedModelsAreResolved` | a model in the cache is unknown to a request only if two prefixes fit its name, for any distinct prefixes |
| *`LifecycleProofs`* | |
| `OnlyGoodConfigsRun` | only configurations that loaded and applied run, whatever edits fall between `Load` and `Reload` |
| *`UsageStoreProofs`* | |
| `BookIsImplemented` | `recordAt` with all its failures, shutdown, crashes and restarts implements `AccountBook`: the tables change by whole postings |
| `TotalsNeverWrap` | a total that wrapped around is never stored |
| `ReportsExact` | no row of a report is wrong, by model, day, month and client; a report by period is whole or an error, one by model lacks what overflowed and, if reading failed, any other row |
| *`ExchangeProofs`* | |
| `AcceptedFilesAreUsable` | whatever a file decodes to, one that passes `defaults` and `Validate` has limits that are not negative, bursts where there are rates, positive ceilings and checked timers, no timer at zero, targets at known providers, and distinct prefixes |
| `RequestsMeetOneConfiguration` | a request that no store of a reload overtakes is decided by one configuration, the current one; new proxies never meet old networks |
| `AddressesAreVouchedFor` | only trusted proxies stand between the gateway and the address a request is judged by, for any hops in one header line; of several lines the first alone vouches |
| `PromptsArePlaced` | the prompts are in a conversation once, around the first system text or in front, and the client's messages are all there, in order |
| `PolicyWins` | what is sent carries a configured value under the name the target knows, except in the three cases of `TakenByClient`, `ThinkingFirst` and `Untranslatable` |
| `EveryTargetGetsItsOwn` | a target is sent what it would be sent alone, and no header of the client but the forwarded ones |
| `BuffersHoldTheirEnds` | for any body cut into any chunks, the tail holds the last bytes and the log buffer the first |
| `UsageSurvivesCutting` | the counters extracted from the tail are those of the whole body, if one object in the tail names them all |

### Assumptions

TLC evaluates all of them in the runs of these modules.

| Assumption | Says |
|---|---|
| `StoreAssumption` | holders are a finite set, `Unit` is positive, limits are naturals |
| `CallsAssumption` | the keys of a call are distinct, each has limits, and these lie under `Ceiling` |
| `WatchedAssumption` | the window of `RateWindow` is over keys |
| `QueueAssumption` | callers are a finite set, sizes are naturals |
| `ConfigsAssumption` | there is a configuration, and each is `ValidConfig`: what `Validate` lets through (limits are not negative, between none and ten retries, a model has targets, which are providers) |
| `BoundsAssumption` | requests, clients and aliases are finite sets, `Unit` is positive, the clock's bound is a number |
| `ReadinessAssumption` | there is a configuration; "none" is no poll |
| `NamesAssumption` | there is a configuration; names are sequences of segments |
| `PrefixAssumption` | autodiscovery prefixes of a configuration are distinct, as `Validate` sees to; no theorem needs it |
| `BookAssumption` | integers have a width, token counts are naturals |
| `RecordersAssumption` | the connection's two other states are no recorders |
| `FilesAssumption` | a file is what decoding yields: fields have their Go types, a rate, which is a float64, as its sign or as not a number. A provider whose name is empty is left out, because "" stands for "no prefix given" in the model, where the code would default the prefix to "/" |
| `ArrivalsAssumption` | a header's lines are sequences of strings |
| `JobsAssumption` | overrides are the policy's; the client's texts are made of the client's pieces, prompts of others |
| `AnswersAssumption` | objects have bytes; the buffers have room, as `Validate` sees to |

`ProxyProofs` does not assume anything of the components it instances: that the
calls the gateway makes satisfy `StoreAssumption`, `CallsAssumption` and
`QueueAssumption` is proved there from `ConfigsAssumption` and
`BoundsAssumption`.

### The arguments

Limits and queue:

* `TypeInv` is `TypeOK` with `NotAhead`: no bucket was updated after the present.
  Without it a refill could be negative and type correctness is not inductive.
* `Counts` relates each counter to the set of holders whose lease names the key.
  `Admit` adds one member to exactly the sets of the keys it counts and `Release`
  takes one away, so the proof is about cardinalities of a set with one element
  more or less. `Clear` leaves the counters alone.
* `Bounded` follows from `Counts` and the guard of `Admit`.
* For `RateHolds` the invariant `BucketAccounts` says that what was admitted in
  the window plus what the bucket still holds is covered by the burst and by what
  time has earned. Each admission moves one token from the second term to the
  first, and a refill moves time to tokens. `RateBounded` drops the tokens left.
* For the queue, `WaitingCountsWaiters` with the type invariant is inductive.

The gateway, in four layers, each inductive with the ones before it:

* `CoreInv`: where a request is. Its stage fits its place, its call of `wait` is
  in progress only while it is being admitted, and its target and attempt are in
  the range of the configuration it loaded. This is enough for
  `GatewayUsesLimits` and `GatewayUsesQueue`: an admission of the gateway is one of
  the calls of the configuration the request loaded, and a step of `wait`.
  `ProxyProofs` instances the proofs of both components (`Store`, `Room`), and so
  `CapacityHolds`, `CountersBalance` and `QueueBalances` hold inside the gateway.
* `StoryInv`: what the attempts of a request have been. `FailoverOrder` alone is
  not inductive; `OrderInv` adds that the attempt about to be made is the one
  that comes next after the last (`Follows`, `IsNext`), and that when none is
  left every target had its turn. `LateInv` says that no attempt is pending once
  one was made late, `ReplyInv` ties answer, record and place, and `CauseInv`
  says which last attempt, or which end of the context, stands behind an answer.
  Beside it, `FlagsInv` says that `providerLimited` and `lastErr` are what the
  attempts make them, which separates the 429 for limits from the 502.
* `LeaseInv`: at which places a request may hold a provider's lease, that during
  an attempt it holds the one of its target, and that it holds none before it
  arrives and after it is done, whichever way out of `proxy` it took.
  `ProviderCapacity` then counts leases
  with `CapacityHolds`.
* `MetricsInv`: each metric is the cardinality of a set of requests (`Arrived`,
  `Underway`, `Served`, `Unserved`). `NothingLeftBehind` takes the counters from
  the components and the sets from the gateway.

Readiness, life cycle, discovery:

* `Owned`: a poll probes exactly when `inflight` names it, and nobody waits while
  it names no one. A clear leaves `inflight` alone and changes the generation, by
  which the probe's owner later sees that its result must not be cached.
* `ReloadInv`: what waits to be applied was loadable when it was read, and edits
  are never undone.
* `Core` types the store and says that a model is kept under the provider whose
  prefix its name begins with. `AgeInv` speaks of `NoOlder(c)`, that nothing in
  the store or in a lookup is older than `c`: stable, and established by a clear
  that overtakes nobody. `ResolveInv` says that a resolution visits one
  candidate, and that if it is left without a name that was listed, the one that
  listed it was another candidate: two prefixes fit the name.

Usage:

* `TxInv` says that only the holder of the connection is in a
  transaction, and what `tx` is at each of its statements: `db`, `db` with the
  first row posted, `db` with both. It is inductive because nobody else can
  change `db` in between: `Commit` needs the connection. A commit is then one
  `Post` of the book, a crash is `Lose` or leaves the tables alone, and every
  other step leaves them alone.
* `TotalsNeverWrap` adds that what is in the ledger was acceptable: both parts of
  a stored total are at most `MaxInt`, so that their sum stays below 2^64.
* For `ReportsExact` a sum is the number of its units (`Total`, a cardinality), so
  that adding a record is adding a disjoint set. `BookInv` says that each column
  of each row is the total of the ledger's records for its key, or turned REAL
  when that is beyond the range (`Tally`). A report that is not an error reads
  rows that did not overflow, hence exact ones, and `Regroup` adds them up by
  what the report groups by.

One exchange:

* `LoadInv`: a configuration that is loaded passed `defaults` and `Validate`.
* `EdgeInv`: the pointers are as far as
  `Reload` has come, in its order (`PointersInv`); what a request has loaded is
  not newer than what is stored (`LoadedInv`), so that networks loaded after the
  proxies and stored before them are at least as new; and while no store
  intervenes everything loaded is of one edition (`SteadyInv`). `AddressInv` says
  which of the hops an address came from.
* `JobInv`: the payload stays what `Prepare` made of the job while targets are
  tried; `AtJob`, that it is one of the jobs.
* `StreamInv`: the buffers hold the end and the beginning of the bytes seen.

What the recursive functions compute (`forwardedClientIP`, `Bytes`,
`extractUsage`, `Kept`, and the sums of the community modules) is proved from
their equations: that a function satisfying the equation exists, that it then
unfolds, and an induction over the set of numbers where the claim fails, which is
empty because it has no least element (`SetInduction`; over finite sets,
`SubsetInduction`). The library's own induction theorems take an operator as a
parameter, which the installed provers cannot instantiate.

### Only model-checked

Liveness under fairness is outside the prover's reach: `WaitReturns` and
`DrainsToSize` of `RequestQueue`, `RequestsFinish` of `Proxy`, `PollsAnswered` of `Readiness`,
`HupIsHonoured` and `TermEnds` of `Lifecycle`, `RecordsReturn` of `UsageStore`. So is everything with
`ENABLED`, and with it the fairness conjuncts: the refinements are proved of the
safety part of the specifications. The two violations are counterexamples, which
TLC finds and no proof is about.

## 5. What is not modelled, and the plan

Not modelled:

* text: the wording of errors and log lines, the redaction of logged headers, the
  Prometheus exposition, the content of `opencode.json` beyond its models;
* the joining of provider URLs and the allow list of response headers, which are
  single expressions without a property worth stating;
* YAML decoding, flags, and the warning about broad exposure;
* `net/http`, `database/sql` and SQLite beyond how the code uses them;
* the growth of the bucket map with the number of clients (limiter.go:71), which
  no bounded instance can tell.

In `Proxy`, discovery is any answer `Discovery` may give, the rewriting of
payloads is whether it succeeds, and usage the list of outcomes `record` was
called with; `Exchange` and `UsageStore` take these up.

Plan, in this order:

1. `FailoverPolicy`: an abstract specification of one request's attempts, refined
   by `Proxy`; `StoryInv` is the invariant it needs.
2. The rate bound inside the gateway: `RateHolds` through `GatewayUsesLimits`,
   with the observer's window beside the gateway.
3. The bound of the queue inside the gateway (`QueueIsBounded`), as a theorem of
   `ProxyProofs`.
