-------------------------------- MODULE Edge --------------------------------
(***************************************************************************)
(* internal/gateway/acl.go and the checks of ServeHTTP: who a request is   *)
(* taken to come from and whether it gets in.                              *)
(*                                                                         *)
(* A network list is the set of addresses it covers.  An address that does *)
(* not parse is NoAddress; the trusted proxies are a nil pointer exactly   *)
(* when the list is empty (gateway.go:73, 98).  A request is a record:     *)
(* peer, path, `lines' (the X-Forwarded-For lines of its header in their   *)
(* order, each a sequence of hops, nearest last) and `auth', the           *)
(* Authorization header: its text `raw', "" if there is none, and the      *)
(* trimmed `token' after "Bearer ", NoKey if it does not begin like that.  *)
(***************************************************************************)
EXTENDS Integers, Sequences

NoAddress == "no address"
NoKey == "no key"

contains(networks, ip) == networks = {} \/ (ip # NoAddress /\ ip \in networks)

(* Mutant: the first entry of the header is believed. *)
forwardedFarthest(peer, hops, trusted) ==
  IF trusted = {} \/ ~contains(trusted, peer) \/ hops = << >> \/ hops[1] = NoAddress
  THEN peer ELSE hops[1]

(* From the nearest hop backwards to the first one that is not trusted. *)
forwardedClientIP(peer, hops, trusted) ==
  LET walk[i \in 0 .. Len(hops)] ==
        IF i = 0 THEN peer
        ELSE IF hops[i] # NoAddress /\ ~contains(trusted, hops[i])
             THEN hops[i] ELSE walk[i - 1]
  IN  IF trusted = {} \/ ~contains(trusted, peer) THEN peer ELSE walk[Len(hops)]

(* r.Header.Get("X-Forwarded-For"): the first line of that name. *)
Forwarded(q) == IF q.lines = << >> THEN << >> ELSE q.lines[1]

authorized(auth, keys) == keys = {} \/ auth.token \in keys

(* The header names the client as it came, whether a key is asked for or    *)
(* not; else its address, else the raw peer.                                *)
clientIdentity(q, trusted) ==
  LET ip == forwardedClientIP(q.peer, Forwarded(q), trusted) IN
  IF q.auth.raw # "" THEN <<"key", q.auth.raw>>
  ELSE IF ip # NoAddress THEN <<"ip", ip>> ELSE <<"ip", "peer">>

Paths == {"/healthz", "/readyz", "/v1/chat/completions", "/v1/responses",
          "/v1/models", "other"}

Endpoints == {"/v1/chat/completions", "/v1/responses"}

(* What ServeHTTP does once the network list has let the request through.   *)
(* A path stands for the method it goes with; /v1/models for every page.    *)
Route(q, keys) ==
  CASE q.path \in {"/healthz", "/readyz"} -> "health"
    [] q.path \notin {"/healthz", "/readyz"} /\ ~authorized(q.auth, keys) -> "unauthorized"
    [] q.path \in Endpoints /\ authorized(q.auth, keys) -> "proxy"
    [] q.path = "/v1/models" /\ authorized(q.auth, keys) -> "listing"
    [] q.path = "other" /\ authorized(q.auth, keys) -> "notFound"

(***************************************************************************)
(* By these lines of the header, address ip may stand for the client: it   *)
(* is the peer, or everybody between it and the gateway is a trusted proxy *)
(* (an entry that does not parse is nobody) and it is not one itself.      *)
(***************************************************************************)
VouchedFor(ip, peer, lines, trusted) ==
  LET Passing == trusted \cup {NoAddress} IN
  \/ ip = peer
  \/ /\ trusted # {}
     /\ peer \in trusted
     /\ ip \notin trusted
     /\ \E n \in DOMAIN lines : \E i \in DOMAIN lines[n] :
          /\ lines[n][i] = ip
          /\ \A j \in i + 1 .. Len(lines[n]) : lines[n][j] \in Passing
          /\ \A m \in n + 1 .. Len(lines) : \A j \in DOMAIN lines[m] : lines[m][j] \in Passing
=============================================================================
