------------------------------ MODULE Settings ------------------------------
(***************************************************************************)
(* internal/config/config.go: which configurations Load accepts, and what  *)
(* they look like once the defaults are filled in.                         *)
(*                                                                         *)
(* A configuration is a record: `numbers' (timeouts and sizes), `client'   *)
(* (limits), `providers' (by name) and `models' (by alias).  "" stands for *)
(* a name left out; the prefix a provider gets by default goes by the name *)
(* of the provider.  URLs, the names of key variables and network lists    *)
(* are well-formed or they are not.  Strings with a default (listen,       *)
(* usage_db) and the life time of discovered models are left out.          *)
(***************************************************************************)
EXTENDS Integers, Sequences

(* The numbers Validate looks at, and the ones it does not. *)
Checked == {"queue.max_size", "queue.wait_timeout", "logging.max_body_bytes",
            "max_concurrent_requests", "max_header_bytes", "write_idle_timeout",
            "readiness_cache_ttl"}
Unchecked == {"request_timeout", "read_timeout", "read_header_timeout", "idle_timeout",
              "max_request_bytes"}

Preset == 9  \* any positive default

(* requests_per_minute is a float64, of which the code here asks the sign;  *)
(* a NaN answers no to every comparison.                                    *)
Rates == {"negative", "zero", "positive", "nan"}

Limits == [rpm: Rates, burst: Int, max: Int]
NamedTarget == [provider: STRING, model: STRING]

(* What decoding makes of a file, before anything is checked.  A provider   *)
(* without a name has no default prefix here, as "" stands for none; in the *)
(* code it is "/".                                                          *)
Decoded(c) ==
  /\ c.numbers \in [Checked \cup Unchecked -> Int]
  /\ c.client \in Limits
  /\ "" \notin DOMAIN c.providers
  /\ c.providers \in [DOMAIN c.providers ->
                       [url: BOOLEAN, protocol: STRING, limits: Limits, timeout: Int,
                        discover: BOOLEAN, prefix: STRING]]
  /\ c.models \in [DOMAIN c.models ->
                    [target: NamedTarget, targets: Seq(NamedTarget), retries: Int,
                     overrides: SUBSET STRING, limits: Limits]]

(* Mutant: a rate without a burst is left as it is. *)
limitDefaultsNone(l) == l

limitDefaults(l) == IF l.rpm = "positive" /\ l.burst = 0 THEN [l EXCEPT !.burst = 1] ELSE l

defaults(c) ==
  [numbers   |-> [n \in DOMAIN c.numbers |-> IF c.numbers[n] = 0 THEN Preset ELSE c.numbers[n]],
   networks  |-> c.networks,
   client    |-> limitDefaults(c.client),
   providers |-> [p \in DOMAIN c.providers |->
                    [c.providers[p] EXCEPT
                       !.protocol = IF @ = "" THEN "openai" ELSE @,
                       !.limits = limitDefaults(@),
                       !.prefix = IF c.providers[p].discover /\ @ = "" THEN p ELSE @]],
   models    |-> [a \in DOMAIN c.models |-> [c.models[a] EXCEPT !.limits = limitDefaults(@)]]]

limitsValid(l) ==
  /\ l.rpm # "negative" /\ l.burst >= 0 /\ l.max >= 0
  /\ l.rpm = "zero" => l.burst = 0

ResolvedTargets(m) == IF m.targets # << >> THEN m.targets ELSE <<m.target>>

NoTarget == [provider |-> "", model |-> ""]

providerValid(c, p) ==
  LET provider == c.providers[p] IN
  /\ provider.url
  /\ provider.discover =>
       \A q \in DOMAIN c.providers \ {p} : c.providers[q].discover =>
                                             c.providers[q].prefix # provider.prefix
  /\ limitsValid(provider.limits)
  /\ provider.protocol \in {"openai", "ollama"}
  /\ provider.timeout >= 0

modelValid(c, a) ==
  LET m == c.models[a] IN
  /\ m.targets # << >> => m.target = NoTarget
  /\ m.targets = << >> => m.target.provider # "" /\ m.target.model # ""
  /\ m.retries \in 0 .. 10
  /\ m.overrides \cap {"model", "messages", "input", "instructions"} = {}
  /\ limitsValid(m.limits)
  /\ \A i \in DOMAIN ResolvedTargets(m) :
       /\ ResolvedTargets(m)[i].model # ""
       /\ ResolvedTargets(m)[i].provider \in DOMAIN c.providers

Validate(c) ==
  /\ DOMAIN c.providers # {}
  /\ \A p \in DOMAIN c.providers : providerValid(c, p)
  /\ limitsValid(c.client)
  /\ \A n \in Checked : c.numbers[n] >= 0
  /\ c.networks
  /\ "" \notin DOMAIN c.models
  /\ DOMAIN c.models # {} \/ \E p \in DOMAIN c.providers : c.providers[p].discover
  /\ \A a \in DOMAIN c.models : modelValid(c, a)
=============================================================================
