------------------------------ MODULE MCLimits ------------------------------
(* LimitStore, with RateWindow's observer, for one client and one provider  *)
(* under two configurations.                                                *)
EXTENDS RateWindow, TLC

CONSTANTS h1, h2, h3

MCKeys == {"ingress", "client", "provider"}
MCHolders == {h1, h2, h3}

L(rpm, burst, max) == [rpm |-> rpm, burst |-> burst, max |-> max]

(* The ingress scope has no rate (gateway.go:304). *)
Ingress(most, limits) ==
  [order  |-> <<"ingress", "client">>,
   limits |-> ("ingress" :> L(0, 0, most)) @@ ("client" :> limits)]

Provider(limits) == [order |-> <<"provider">>, limits |-> ("provider" :> limits)]

(* The reload lowers ingress, lifts the client's concurrency limit and      *)
(* changes the provider's rate, its burst and its concurrency.              *)
MCCalls ==
  {Ingress(3, L(1, 2, 1)), Ingress(2, L(1, 2, 0)),
   Provider(L(3, 1, 1)), Provider(L(2, 2, 2))}

MCCeiling ==
  ("ingress" :> L(0, 0, 3)) @@ ("client" :> L(1, 2, 1)) @@ ("provider" :> L(3, 2, 2))

Symmetry == Permutations(MCHolders)
=============================================================================
