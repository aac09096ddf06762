------------------------------ MODULE Exchange ------------------------------
(***************************************************************************)
(* One exchange from end to end: a configuration is loaded (Settings), a   *)
(* request meets ServeHTTP while Reload replaces the pointers it reads     *)
(* (Edge), its payload is rewritten for one target after another           *)
(* (Payload), and the answer streams back through the buffers (Capture).   *)
(* Admission, retries and the order of targets are the business of Proxy.  *)
(*                                                                         *)
(* Each part forgets its variables when it hands over to the next, which   *)
(* reads none of them: the parts' states add up instead of multiplying.    *)
(***************************************************************************)
EXTENDS Edge, Payload, Capture, Settings

CONSTANTS
  Files,      \* configurations a file may hold, as decoded
  Editions,   \* what ServeHTTP reads, before and after the reload:
              \* two records of networks, proxies and keys
  Arrivals,   \* requests, as the edge sees them
  Jobs,       \* requests, as the rewriting sees them
  Providers,  \* the targets' providers and models, in the order they are tried
  Answers,    \* bodies of responses
  TailLimit,  \* usageCaptureLimit
  LogLimits   \* logging.max_body_bytes

ASSUME FilesAssumption == \A c \in Files : Decoded(c)

(* Hops are addresses, or did not parse. *)
ASSUME ArrivalsAssumption == \A q \in Arrivals : q.lines \in Seq(Seq(STRING))

(* An override is a value the configuration sets; a payload has fields and  *)
(* messages, whose texts are the client's, and prompts are not.             *)
ASSUME JobsAssumption ==
  \A j \in Jobs :
    /\ {"fields", "messages"} \subseteq DOMAIN j.payload
    /\ j.payload.messages \in Seq([role: STRING, kind: STRING, text: Seq({"user"})])
    /\ {j.prepend.text, j.append.text} \subseteq Seq(STRING \ {"user"})
    /\ \A k \in DOMAIN j.overrides : j.overrides[k].by = "policy"
                                     /\ j.overrides[k].kind \in {"bool", "text", "other"}

(* Objects have bytes; both buffers have room, as Validate sees to. *)
ASSUME AnswersAssumption ==
  /\ \A objects \in Answers :
       /\ objects \in Seq(Range(objects))
       /\ \A i \in DOMAIN objects : objects[i].size \in Nat \ {0}
  /\ TailLimit \in Nat
  /\ LogLimits \subseteq Nat \ {0}

VARIABLES
  pc,        \* where the exchange is
  loaded,    \* the configuration Load has returned
  pointers,  \* Gateway.config, acl and trusted: which edition each is from
  reload,    \* how many of them Reload has replaced
  edge,      \* the local variables of ServeHTTP
  job,       \* the request at hand
  payload,   \* the map the handler works on
  sent,      \* what each target was sent so far
  stream     \* the response and what was kept of it

vars == <<pc, loaded, pointers, reload, edge, job, payload, sent, stream>>

edgeVars == <<pointers, reload, edge>>
jobVars == <<job, payload, sent>>

NoEdge == [q |-> << >>, cfg |-> 0, trusted |-> 0, acl |-> 0, ip |-> NoAddress,
           outcome |-> "none", identity |-> << >>,
           overlap |-> FALSE]  \* history: Reload was at work meanwhile

First == [p \in {"config", "acl", "trusted"} |-> 1]

Init ==
  /\ pc = "off"
  /\ loaded = << >>
  /\ pointers = First
  /\ reload = 0
  /\ edge = NoEdge
  /\ job = << >> /\ payload = << >> /\ sent = << >>
  /\ stream = << >>

-----------------------------------------------------------------------------
(* config.Load *)
Load(c) ==
  /\ pc = "off"
  /\ IF Validate(defaults(c)) THEN pc' = "loaded" /\ loaded' = defaults(c)
                              ELSE pc' = "refused" /\ UNCHANGED loaded
  /\ UNCHANGED <<edgeVars, jobVars, stream>>

Serve ==
  /\ pc = "loaded"
  /\ pc' = "idle"
  /\ loaded' = << >>
  /\ UNCHANGED <<edgeVars, jobVars, stream>>

-----------------------------------------------------------------------------
InServeHTTP == pc \in {"trusted", "acl", "route", "identity"}

StoreOrder == <<"config", "acl", "trusted">>

(* Mutant: an empty list of proxies leaves the old one in place. *)
StoreUnlessEmpty ==
  /\ pc = "idle" \/ InServeHTTP
  /\ reload < Len(StoreOrder)
  /\ pointers' = IF StoreOrder[reload + 1] = "trusted" /\ Editions[2].proxies = {}
                 THEN pointers ELSE [pointers EXCEPT ![StoreOrder[reload + 1]] = 2]
  /\ reload' = reload + 1
  /\ edge' = [edge EXCEPT !.overlap = InServeHTTP]
  /\ UNCHANGED <<pc, loaded, jobVars, stream>>

(* Reload, one pointer at a time. *)
Store ==
  /\ pc = "idle" \/ InServeHTTP
  /\ reload < Len(StoreOrder)
  /\ pointers' = [pointers EXCEPT ![StoreOrder[reload + 1]] = 2]
  /\ reload' = reload + 1
  /\ edge' = [edge EXCEPT !.overlap = InServeHTTP]
  /\ UNCHANGED <<pc, loaded, jobVars, stream>>

(* ServeHTTP: cfg := g.config.Load() *)
Arrive(q) ==
  /\ pc = "idle"
  /\ pc' = "trusted"
  /\ edge' = [NoEdge EXCEPT !.q = q, !.cfg = pointers["config"],
                            !.overlap = reload \in 1 .. Len(StoreOrder) - 1]
  /\ UNCHANGED <<loaded, pointers, reload, jobVars, stream>>

FindClient ==
  /\ pc = "trusted"
  /\ pc' = "acl"
  /\ edge' = [edge EXCEPT !.trusted = pointers["trusted"],
                          !.ip = forwardedClientIP(edge.q.peer, Forwarded(edge.q),
                                                   Editions[pointers["trusted"]].proxies)]
  /\ UNCHANGED <<loaded, pointers, reload, jobVars, stream>>

CheckNetwork ==
  /\ pc = "acl"
  /\ LET refused == ~contains(Editions[pointers["acl"]].networks, edge.ip) IN
       /\ pc' = IF refused THEN "answered" ELSE "route"
       /\ edge' = [edge EXCEPT !.acl = pointers["acl"],
                               !.outcome = IF refused THEN "forbidden" ELSE @]
  /\ UNCHANGED <<loaded, pointers, reload, jobVars, stream>>

Dispatch ==
  /\ pc = "route"
  /\ LET outcome == Route(edge.q, Editions[edge.cfg].keys) IN
       /\ pc' = IF outcome = "proxy" THEN "identity" ELSE "answered"
       /\ edge' = [edge EXCEPT !.outcome = outcome]
  /\ UNCHANGED <<loaded, pointers, reload, jobVars, stream>>

(* proxy loads the trusted proxies once more. *)
Identify ==
  /\ pc = "identity"
  /\ pc' = "identified"
  /\ edge' = [edge EXCEPT !.identity =
                clientIdentity(edge.q, Editions[pointers["trusted"]].proxies)]
  /\ UNCHANGED <<loaded, pointers, reload, jobVars, stream>>

(* The body is read; the edge's variables are not looked at again. *)
ReadBody(j) ==
  /\ pc = "identified"
  /\ pc' = "prompt"
  /\ job' = j
  /\ pointers' = First /\ reload' = 0 /\ edge' = NoEdge
  /\ UNCHANGED <<loaded, payload, sent, stream>>

-----------------------------------------------------------------------------
Prepared(j) ==
  applyRequestOverrides(applySystemPrompt(j.payload, j.endpoint, j.prepend, j.append),
                        j.overrides)

Prepare ==
  /\ pc = "prompt"
  /\ IF PromptFails(job.payload, job.endpoint, job.prepend, job.append)
     THEN pc' = "answered" /\ UNCHANGED payload
     ELSE pc' = "targets" /\ payload' = Prepared(job)
  /\ UNCHANGED <<loaded, edgeVars, job, sent, stream>>

(* A provider here is that of a target, with the name of the target's model. *)
SentTo(fields, j, provider) ==
  [model   |-> provider.model,
   fields  |-> applyProviderCompatibility(fields, j.endpoint, provider.protocol),
   headers |-> upstreamHeaders(j.headers, provider)]

(* Mutant: the payload is rewritten in place. *)
TryTargetInPlace ==
  /\ pc = "targets"
  /\ Len(sent) < Len(Providers)
  /\ LET s == SentTo(payload.fields, job, Providers[Len(sent) + 1]) IN
       sent' = Append(sent, s) /\ payload' = [payload EXCEPT !.fields = s.fields]
  /\ UNCHANGED <<pc, loaded, edgeVars, job, stream>>

(* The next target gets a clone of the payload in the terms it knows. *)
TryTarget ==
  /\ pc = "targets"
  /\ Len(sent) < Len(Providers)
  /\ sent' = Append(sent, SentTo(payload.fields, job, Providers[Len(sent) + 1]))
  /\ UNCHANGED <<pc, loaded, edgeVars, job, payload, stream>>

(* A target has answered; the request is not looked at again. *)
Commit(objects, limit) ==
  /\ pc = "targets"
  /\ sent # << >>
  /\ pc' = "stream"
  /\ stream' = [objects |-> objects, at |-> 0, buf |-> << >>, limit |-> limit,
                log |-> newLogBodyBuffer]
  /\ job' = << >> /\ payload' = << >> /\ sent' = << >>
  /\ UNCHANGED <<loaded, edgeVars>>

(* io.Copy passes on a chunk of n bytes through both TeeReaders. *)
Chunk(n) ==
  /\ pc = "stream"
  /\ stream.at + n <= Len(Bytes(stream.objects))
  /\ LET p == SubSeq(Bytes(stream.objects), stream.at + 1, stream.at + n) IN
     stream' = [stream EXCEPT !.at = @ + n,
                              !.buf = tailWrite(@, p, TailLimit),
                              !.log = logWrite(@, p, stream.limit)]
  /\ UNCHANGED <<pc, loaded, edgeVars, jobVars>>

(* The body ends, or is cut off. *)
StreamEnds ==
  /\ pc = "stream"
  /\ pc' = "recorded"
  /\ UNCHANGED <<loaded, edgeVars, jobVars, stream>>

(* Nothing follows. *)
Rest == pc \in {"refused", "answered", "recorded"} /\ UNCHANGED vars

Next ==
  \/ \E c \in Files : Load(c)
  \/ Serve
  \/ Store
  \/ \E q \in Arrivals : Arrive(q)
  \/ FindClient \/ CheckNetwork \/ Dispatch \/ Identify
  \/ \E j \in Jobs : ReadBody(j)
  \/ Prepare \/ TryTarget
  \/ \E objects \in Answers, limit \in LogLimits : Commit(objects, limit)
  \/ \E n \in 1 .. Len(Bytes(IF pc = "stream" THEN stream.objects ELSE << >>)) : Chunk(n)
  \/ StreamEnds
  \/ Rest

Spec == Init /\ [][Next]_vars

-----------------------------------------------------------------------------
AllLimits(c) ==
  {c.client} \cup {c.providers[p].limits : p \in DOMAIN c.providers}
             \cup {c.models[a].limits : a \in DOMAIN c.models}

(* No limit is negative; a scope with a rate has a burst, so that it admits *)
(* at all, and one without a rate has none.  The ceilings, the queue's      *)
(* timer and the event stream's write deadline are positive; no other timer *)
(* or size is zero.  A model has targets, all at known providers, and no    *)
(* more than ten retries.  Prefixes of discovery are different.             *)
Usable(c) ==
  /\ \A l \in AllLimits(c) :
       /\ l.rpm # "negative" /\ l.burst \in Nat /\ l.max \in Nat
       /\ l.rpm = "positive" => l.burst > 0
       /\ l.rpm = "zero" => l.burst = 0
  /\ \A n \in Checked : c.numbers[n] > 0
  /\ \A n \in Unchecked : c.numbers[n] # 0
  /\ \A a \in DOMAIN c.models :
       LET targets == ResolvedTargets(c.models[a]) IN
       /\ targets # << >>
       /\ \A i \in DOMAIN targets : targets[i].provider \in DOMAIN c.providers
       /\ c.models[a].retries \in 0 .. 10
  /\ \A p, q \in {x \in DOMAIN c.providers : c.providers[x].discover} :
       c.providers[p].prefix # "" /\
       (p # q => c.providers[p].prefix # c.providers[q].prefix)

(***************************************************************************)
(* Whatever a file leaves out or gets wrong, a configuration that Load     *)
(* lets through (config.go:129) is one that Proxy (ConfigsAssumption) and  *)
(* Discovery (PrefixAssumption) are about, and a timer left out is never   *)
(* no timer.  That is all: a negative server.request_timeout or            *)
(* read_timeout is let through and means that there is none, so Proxy's    *)
(* fairness, which has both fire, is not implied; nor is that a rate is a  *)
(* number, or that no prefix begins another.                               *)
(***************************************************************************)
AcceptedIsUsable == pc = "loaded" => Usable(loaded)

Decide(edition, q) ==
  IF contains(edition.networks, forwardedClientIP(q.peer, Forwarded(q), edition.proxies))
  THEN Route(q, edition.keys) ELSE "forbidden"

(***************************************************************************)
(* "active requests keep a consistent snapshot while new requests          *)
(* immediately see the replacement" (gateway.go:94), as far as it goes:    *)
(* unless Reload was storing its pointers meanwhile, a request is decided  *)
(* and its client named by one configuration, and that is the current one. *)
(* Even when Reload overtakes it, an address found behind the new proxies  *)
(* is never held against the old networks: the networks are stored first   *)
(* (gateway.go:97) and loaded last (gateway.go:126).                       *)
(***************************************************************************)
OneConfiguration ==
  /\ edge.acl # 0 => edge.acl >= edge.trusted
  /\ pc \in {"answered", "identified"} /\ edge # NoEdge /\ ~edge.overlap =>
       LET edition == Editions[IF reload = 0 THEN 1 ELSE 2] IN
       /\ edge.outcome = Decide(edition, edge.q)
       /\ pc = "identified" => edge.identity = clientIdentity(edge.q, edition.proxies)

(***************************************************************************)
(* "stop at the first untrusted address. That address is the effective     *)
(* client at the trust boundary" (acl.go:74), as far as it goes: the       *)
(* address a request is judged by is its peer's, or trusted proxies alone  *)
(* stand between it and the gateway.  But Header.Get (gateway.go:124) is   *)
(* the first X-Forwarded-For line: of a request with several, the hops of  *)
(* the later ones, which are nearer, are not looked at, and the first line *)
(* alone vouches.                                                          *)
(***************************************************************************)
AddressVouchedFor ==
  edge.trusted # 0 =>
    LET q == edge.q
        trusted == Editions[edge.trusted].proxies
    IN  \/ VouchedFor(edge.ip, q.peer, q.lines, trusted)
        \/ Len(q.lines) > 1 /\ VouchedFor(edge.ip, q.peer, <<q.lines[1]>>, trusted)

(***************************************************************************)
(* The configured prompts reach a chat once, around the first system text  *)
(* there is or else in a message of their own in front, and the client's   *)
(* messages are all there, in order (gateway.go:662-704).                  *)
(***************************************************************************)
PromptsInPlace ==
  pc = "targets" /\ job.endpoint # "/v1/responses" =>
    LET out == payload.messages
        i == SystemText(out)
    IN  /\ ByClient(out) = ByClient(job.payload.messages)
        /\ job.prepend.given \/ job.append.given =>
             /\ i # 0
             /\ out[i].text = job.prepend.text \o Kept(out[i].text, {"user"}) \o job.append.text
             /\ \A k \in DOMAIN out \ {i} : Range(out[k].text) \subseteq {"user"}

(***************************************************************************)
(* A target is sent what it would be sent if it were the only one: nothing *)
(* of the model, spelling, key or headers of a target tried before it      *)
(* (gateway.go:381-383); of the client's headers it sees the forwarded     *)
(* ones only, never the credential (gateway.go:634).                       *)
(***************************************************************************)
TargetsGetTheirOwn ==
  \A i \in DOMAIN sent :
    /\ sent[i] = SentTo(Prepared(job).fields, job, Providers[i])
    /\ \A n \in DOMAIN sent[i].headers :
         sent[i].headers[n] = "client" => n \in forwardedRequestHeaders

(* What keeps override k from a target that knows it as name.  The client   *)
(* set that name itself: it is there already when k is to be moved to it.   *)
TakenByClient(j, k, name) ==
  name # k /\ name \in DOMAIN j.payload.fields \ DOMAIN j.overrides

(* The client's thinking is moved first and leaves no room for think. *)
ThinkingFirst(j, k, name) ==
  /\ name # k /\ k = "think"
  /\ "thinking" \in DOMAIN j.payload.fields \ DOMAIN j.overrides
  /\ j.payload.fields["thinking"].kind \in {"bool", "text"}

(* A thinking or think that is neither a bool nor a string is deleted. *)
Untranslatable(j, k, name) ==
  name # k /\ name = "reasoning_effort" /\ j.overrides[k].kind = "other"

(***************************************************************************)
(* "Configuration is policy and intentionally wins over client-supplied    *)
(* fields" (gateway.go:518), as far as it goes: every target learns a      *)
(* configured value for an override, under the name that target knows,     *)
(* with three exceptions, all in applyProviderCompatibility.  A client's   *)
(* max_output_tokens or reasoning_effort beats an override of max_tokens,  *)
(* thinking or think; for an ollama provider, a client's thinking (a bool  *)
(* or a string) beats an override of think (gateway.go:535-567), and an    *)
(* override of thinking or think that is neither is dropped (540-551).     *)
(***************************************************************************)
OverridesWin ==
  \A i \in DOMAIN sent : \A k \in DOMAIN job.overrides :
    LET name == Spelling(k, job.endpoint, Providers[i].protocol) IN
    \/ TakenByClient(job, k, name)
    \/ ThinkingFirst(job, k, name)
    \/ Untranslatable(job, k, name)
    \/ name \in DOMAIN sent[i].fields /\ sent[i].fields[name].by = "policy"

(***************************************************************************)
(* However the response is cut into chunks, the usage capture holds the    *)
(* last bytes of it and the log the first, each up to its limit, and the   *)
(* log says so exactly when it left something out; a body logged in pieces *)
(* reads like one logged at once (logging.go:75-99).                       *)
(***************************************************************************)
BuffersKeepTheirEnds ==
  pc = "stream" =>
    LET seen == SubSeq(Bytes(stream.objects), 1, stream.at) IN
    /\ stream.buf = Suffix(seen, TailLimit)
    /\ stream.log.data = Prefix(seen, stream.limit)
    /\ stream.log.truncated <=> Len(seen) > stream.limit
    /\ stream.log = boundedLogBody(seen, stream.limit)

(* The counters of the objects in I, each from the last that names it. *)
LastNamed(objects, I) ==
  LET names(c) == {i \in I : c \in DOMAIN objects[i].usage}
      all == UNION {DOMAIN objects[i].usage : i \in I}
  IN  [c \in all |-> objects[CHOOSE i \in names(c) : \A j \in names(c) : j <= i].usage[c]]

(***************************************************************************)
(* The tokens accounted are the ones the whole response reports, although  *)
(* only its tail is kept: an object in the tail that names every counter   *)
(* is enough, whatever was cut off before it and wherever the stream ends. *)
(***************************************************************************)
UsageSurvives ==
  pc = "recorded" =>
    LET objects == stream.objects
        seen == SubSeq(Bytes(objects), 1, stream.at)
        there == {i \in DOMAIN objects : Whole(seen, objects, i)}
        kept == {i \in there : Whole(stream.buf, objects, i)}
        all == LastNamed(objects, there)
    IN  (\E i \in kept : DOMAIN all \subseteq DOMAIN objects[i].usage) =>
          extractUsage(stream.buf, objects) = all
=============================================================================
