------------------------------ MODULE Capture -------------------------------
(***************************************************************************)
(* internal/gateway: what is kept of a response while it streams through.  *)
(* tailBuffer (gateway.go) keeps its end, from which extractUsage          *)
(* (usage.go) reads the token counts; logBodyBuffer (logging.go) keeps its *)
(* beginning.                                                              *)
(*                                                                         *)
(* A body is a sequence of objects, the data lines of an event stream or   *)
(* one JSON document, each with its size in bytes and its usage: None (no  *)
(* object, null, or one that does not decode) or the counters it names.  A *)
(* byte is the number of the object it belongs to.  An object decodes when *)
(* all of its bytes are there: what is left of a line that was cut does    *)
(* not begin with "data:".                                                 *)
(***************************************************************************)
EXTENDS Integers, Sequences, FiniteSets, SequencesExt

None == << >>

(* The bytes of a body, in order. *)
Bytes(objects) ==
  FlattenSeq([i \in DOMAIN objects |-> [j \in 1 .. objects[i].size |-> i]])

Suffix(s, n) == IF Len(s) <= n THEN s ELSE SubSeq(s, Len(s) - n + 1, Len(s))
Prefix(s, n) == IF Len(s) <= n THEN s ELSE SubSeq(s, 1, n)

(* Mutant: room is made for the whole chunk only when the buffer is full. *)
tailWriteLate(buf, p, limit) ==
  IF Len(buf) < limit THEN buf \o p ELSE Suffix(buf \o p, limit)

(* tailBuffer.Write *)
tailWrite(buf, p, limit) ==
  LET overflow == Len(buf) + Len(p) - limit IN
  IF Len(p) >= limit THEN SubSeq(p, Len(p) - limit + 1, Len(p))
  ELSE (IF overflow > 0 THEN SubSeq(buf, overflow + 1, Len(buf)) ELSE buf) \o p

(* logBodyBuffer.Write *)
logWrite(log, p, limit) ==
  LET remaining == limit - Len(log.data) IN
  IF remaining <= 0 THEN [log EXCEPT !.truncated = TRUE]
  ELSE [data |-> log.data \o Prefix(p, remaining),
        truncated |-> log.truncated \/ Len(p) > remaining]

newLogBodyBuffer == [data |-> << >>, truncated |-> FALSE]

(* A request's body is logged in one piece. *)
boundedLogBody(body, limit) == logWrite(newLogBodyBuffer, body, limit)

Whole(buf, objects, i) ==
  Cardinality({k \in DOMAIN buf : buf[k] = i}) = objects[i].size

(* Mutant: each usage object replaces the one before it. *)
overlayReplacing(best, usage) == IF usage = None THEN best ELSE usage

(* json.Unmarshal into a copy of best: the counters an object names replace *)
(* those found before it.                                                   *)
overlay(best, usage) ==
  [c \in DOMAIN best \cup DOMAIN usage |-> IF c \in DOMAIN usage THEN usage[c] ELSE best[c]]

(* extractUsage, up to the choice between input and prompt counters that    *)
(* UsageStore makes.                                                        *)
extractUsage(buf, objects) ==
  LET best[i \in 0 .. Len(objects)] ==
        IF i = 0 THEN None
        ELSE IF Whole(buf, objects, i) THEN overlay(best[i - 1], objects[i].usage)
             ELSE best[i - 1]
  IN  best[Len(objects)]
=============================================================================
