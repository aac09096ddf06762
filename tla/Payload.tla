------------------------------ MODULE Payload -------------------------------
(***************************************************************************)
(* internal/gateway/gateway.go, what is done to a request on its way to a  *)
(* provider: system prompts, overrides, the names a provider knows, and    *)
(* the headers.                                                            *)
(*                                                                         *)
(* A payload is a record.  `fields' maps the settings this code touches to *)
(* values [by, kind]: whose value it is and whether it is a "bool", a      *)
(* "text" or something "other".  A text is the sequence of the pieces it   *)
(* was joined from (<< >> is blank); a prompt is configured when `given'.  *)
(* `messages' is a sequence of [role, kind, text]; `isArray' says whether  *)
(* it was one.  Everything else in the payload passes through untouched.   *)
(***************************************************************************)
EXTENDS Integers, Sequences, FiniteSets, SequencesExt

Fields == {"max_tokens", "max_output_tokens", "thinking", "think", "reasoning_effort"}

joinPrompt(prepend, current, append) == prepend.text \o current \o append.text

(* The first system message whose content is a string; 0 if there is none. *)
SystemText(messages) ==
  LET found == {i \in DOMAIN messages :
                  messages[i].role = "system" /\ messages[i].kind = "text"}
  IN  IF found = {} THEN 0 ELSE CHOOSE i \in found : \A j \in found : i <= j

System(text) == [role |-> "system", kind |-> "text", text |-> text]

(* Mutant: a system message of the client is replaced. *)
withPromptReplacing(p, endpoint, prepend, append) ==
  LET i == SystemText(p.messages) IN
  IF i # 0 THEN [p EXCEPT !.messages[i].text = joinPrompt(prepend, << >>, append)]
  ELSE [p EXCEPT !.messages = <<System(joinPrompt(prepend, << >>, append))>> \o @]

withPrompt(p, endpoint, prepend, append) ==
  LET i == SystemText(p.messages) IN
  CASE endpoint = "/v1/responses" ->
         [p EXCEPT !.instructions = [kind |-> "text", text |->
            joinPrompt(prepend, IF @.kind = "text" THEN @.text ELSE << >>, append)]]
    [] endpoint # "/v1/responses" /\ i # 0 ->
         [p EXCEPT !.messages[i].text = joinPrompt(prepend, @, append)]
    [] endpoint # "/v1/responses" /\ i = 0 ->
         [p EXCEPT !.messages = <<System(joinPrompt(prepend, << >>, append))>> \o @]

(* applySystemPrompt fails on messages that are not an array. *)
PromptFails(p, endpoint, prepend, append) ==
  /\ prepend.given \/ append.given
  /\ endpoint # "/v1/responses"
  /\ ~p.isArray

applySystemPrompt(p, endpoint, prepend, append) ==
  IF prepend.given \/ append.given THEN withPrompt(p, endpoint, prepend, append) ELSE p

Merge(f, g) == [k \in DOMAIN f \cup DOMAIN g |-> IF k \in DOMAIN g THEN g[k] ELSE f[k]]

Without(f, k) == [x \in DOMAIN f \ {k} |-> f[x]]

(* Mutant: a setting of the client is kept. *)
applyOverridesAsDefaults(p, overrides) == [p EXCEPT !.fields = Merge(overrides, @)]

applyRequestOverrides(p, overrides) == [p EXCEPT !.fields = Merge(@, overrides)]

(* Ollama knows thinking and think as reasoning_effort: a bool or a text is *)
(* moved there unless it is set, anything else is dropped.                  *)
AsEffort(f, k) ==
  LET moved == IF k \in DOMAIN f /\ "reasoning_effort" \notin DOMAIN f
                    /\ f[k].kind \in {"bool", "text"}
               THEN Merge(f, [x \in {"reasoning_effort"} |-> [by |-> f[k].by, kind |-> "text"]])
               ELSE f
  IN  Without(moved, k)

(* /v1/responses knows max_tokens as max_output_tokens. *)
AsOutputTokens(f) ==
  LET moved == IF "max_tokens" \in DOMAIN f /\ "max_output_tokens" \notin DOMAIN f
               THEN Merge(f, [x \in {"max_output_tokens"} |-> f["max_tokens"]]) ELSE f
  IN  Without(moved, "max_tokens")

applyProviderCompatibility(f, endpoint, protocol) ==
  LET effort == IF protocol = "ollama" THEN AsEffort(AsEffort(f, "thinking"), "think") ELSE f
  IN  IF endpoint = "/v1/responses" THEN AsOutputTokens(effort) ELSE effort

(* The headers of a request upstream, each with whose value it carries.     *)
(* `headers' are the names the client sent; a provider has a key or not and *)
(* names headers of its own.                                                *)
forwardedRequestHeaders == {"accept", "idempotency-key", "x-request-id"}

upstreamHeaders(headers, provider) ==
  LET own == provider.headers \cup IF provider.key THEN {"authorization"} ELSE {}
  IN  [n \in (headers \cap forwardedRequestHeaders) \cup {"content-type"} \cup own |->
         IF n \in own THEN "provider" ELSE IF n = "content-type" THEN "gateway" ELSE "client"]

-----------------------------------------------------------------------------
(* The elements of a sequence that are in S, in their order. *)
Kept(s, S) ==
  LET kept[n \in 0 .. Len(s)] ==
        IF n = 0 THEN << >>
        ELSE IF s[n] \in S THEN Append(kept[n - 1], s[n]) ELSE kept[n - 1]
  IN  kept[Len(s)]

(* The messages without the gateway's pieces. *)
WithoutPrompts(messages) ==
  [i \in DOMAIN messages |-> [messages[i] EXCEPT !.text = Kept(@, {"user"})]]

(* What the client wrote; blank system messages do not count. *)
ByClient(messages) ==
  LET plain == WithoutPrompts(messages)
  IN  Kept(plain, Range(plain) \ {System(<< >>)})

(* The name under which a provider learns of setting k. *)
Spelling(k, endpoint, protocol) ==
  IF protocol = "ollama" /\ k \in {"thinking", "think"} THEN "reasoning_effort"
  ELSE IF endpoint = "/v1/responses" /\ k = "max_tokens" THEN "max_output_tokens" ELSE k
=============================================================================
