----------------------------- MODULE MCExchange -----------------------------
(* Exchange over small sets of configurations, requests and responses.      *)
EXTENDS Exchange, TLC

-----------------------------------------------------------------------------
(* Files: one that is fine, and what a change in one place makes of it. *)
Limit(rpm, burst, most) == [rpm |-> rpm, burst |-> burst, max |-> most]
SomeLimits == {Limit(r, b, m) : r \in Rates, b, m \in -1 .. 1}

Plain == [url |-> TRUE, protocol |-> "", limits |-> Limit("zero", 0, 0), timeout |-> 0,
          discover |-> FALSE, prefix |-> ""]
Target(p, m) == [provider |-> p, model |-> m]
Coding == [target |-> Target("a", "m"), targets |-> << >>, retries |-> 0, overrides |-> {},
           limits |-> Limit("zero", 0, 0)]

Fine ==
  [numbers |-> [n \in Checked \cup Unchecked |-> 0], networks |-> TRUE,
   client |-> Limit("zero", 0, 0),
   providers |-> ("a" :> Plain) @@ ("b" :> Plain), models |-> ("coding" :> Coding)]

SomeProviders ==
  {[Plain EXCEPT !.discover = d, !.prefix = x] : d \in BOOLEAN, x \in {"", "a", "x"}}
  \cup {[Plain EXCEPT !.limits = l] : l \in SomeLimits}
  \cup {[Plain EXCEPT !.protocol = "soap"], [Plain EXCEPT !.url = FALSE],
        [Plain EXCEPT !.timeout = -1]}

SomeModels ==
  {[Coding EXCEPT !.target = t, !.targets = ts] :
     t \in {NoTarget, Target("a", "m"), Target("c", "m")},
     ts \in {<< >>, <<Target("a", "m"), Target("b", "m")>>, <<Target("b", "")>>}}
  \cup {[Coding EXCEPT !.limits = l, !.retries = n] : l \in SomeLimits, n \in {-1, 0, 11}}
  \cup {[Coding EXCEPT !.overrides = {k}] : k \in {"messages", "think"}}

MCFiles ==
  {[Fine EXCEPT !.numbers[n] = v] : n \in Checked \cup Unchecked, v \in {-1, 0, 1}}
  \cup {[Fine EXCEPT !.client = l] : l \in SomeLimits}
  \cup {[Fine EXCEPT !.providers["a"] = p, !.providers["b"] = q] :
          p \in SomeProviders, q \in {Plain, [Plain EXCEPT !.discover = TRUE, !.prefix = "x"]}}
  \cup {[Fine EXCEPT !.models["coding"] = m] : m \in SomeModels}
  \cup {[Fine EXCEPT !.models = << >>], [Fine EXCEPT !.networks = FALSE],
        [Fine EXCEPT !.models = "" :> Coding]}

-----------------------------------------------------------------------------
(* Requests at the edge: the reload moves the client network from a to b,   *)
(* stops trusting the proxy and asks for a key.                             *)
MCEditions ==
  <<[networks |-> {"a"}, proxies |-> {"proxy", "relay"}, keys |-> {}],
    [networks |-> {"b", "proxy"}, proxies |-> {}, keys |-> {"k"}]>>

Hops == {"a", "b", "relay", NoAddress}

Header(raw, token) == [raw |-> raw, token |-> token]

MCArrivals ==
  [peer: {"a", "proxy", NoAddress},
   lines: {<< >>} \cup {<<<<h>>>> : h \in Hops} \cup {<<<<g, h>>>> : g, h \in Hops}
          \cup {<<<<g>>, <<h>>>> : g, h \in Hops},
   auth: {Header("", NoKey), Header("Bearer k", "k"), Header("Bearer  k", "k"),
          Header("Basic k", NoKey)},
   path: Paths]

-----------------------------------------------------------------------------
(* Requests to rewrite: settings of every kind, and conversations. *)
Prompt(given, text) == [given |-> given, text |-> text]
NoPrompt == Prompt(FALSE, << >>)

Settings(by, names, kind) == [k \in names |-> [by |-> by, kind |-> kind]]

Chat(fields, messages) ==
  [fields |-> fields, isArray |-> TRUE, messages |-> messages,
   instructions |-> [kind |-> "text", text |-> <<"user">>]]

Kinds == {"bool", "text", "other"}

SettingJobs ==
  {[endpoint |-> e, payload |-> Chat(Settings("client", names, kind), << >>),
    prepend |-> NoPrompt, append |-> NoPrompt,
    overrides |-> Settings("policy", own, ownKind),
    headers |-> {"authorization", "accept"}] :
     e \in Endpoints, names \in SUBSET Fields, kind \in Kinds,
     own \in {{}, {"thinking", "think"}} \cup {{k} : k \in Fields},
     ownKind \in {"bool", "other"}}

Message(role, kind, text) == [role |-> role, kind |-> kind, text |-> text]
Messages ==
  {Message("system", "text", << >>), Message("system", "text", <<"user">>),
   Message("system", "parts", <<"user">>), Message("user", "text", <<"user">>)}

PromptJobs ==
  {[endpoint |-> e,
    payload |-> [Chat(<< >>, ms) EXCEPT !.isArray = a, !.instructions.kind = kind],
    prepend |-> before, append |-> after, overrides |-> << >>, headers |-> {}] :
     e \in Endpoints, a \in BOOLEAN, kind \in {"text", "other"},
     ms \in {<< >>} \cup {<<m>> : m \in Messages} \cup {<<m, n>> : m, n \in Messages},
     before \in {NoPrompt, Prompt(TRUE, << >>), Prompt(TRUE, <<"before">>)},
     after \in {NoPrompt, Prompt(TRUE, <<"after">>)}}

MCJobs == SettingJobs \cup PromptJobs

MCProviders ==
  <<[model |-> "m", protocol |-> "ollama", key |-> FALSE, headers |-> {}],
    [model |-> "n", protocol |-> "openai", key |-> TRUE, headers |-> {"x-own"}]>>

-----------------------------------------------------------------------------
(* Responses of up to three objects that name two counters, one or none. *)
Usages == {None, "prompt" :> 1, "total" :> 2, ("prompt" :> 3) @@ ("total" :> 3)}
Objects == [size: 1 .. 2, usage: Usages]
MCAnswers == {<<x>> : x \in [size: 1 .. 4, usage: Usages]}
             \cup {<<x, y>> : x, y \in Objects} \cup {<<x, y, z>> : x, y, z \in Objects}
=============================================================================
