------------------------------ MODULE MCProxy -------------------------------
(* Instances of Proxy: one request with every outcome, several that compete *)
(* for capacity, and requests that overlap reloads.                         *)
EXTENDS Proxy, TLC

CONSTANTS r1, r2, r3

L(rpm, burst, most) == [rpm |-> rpm, burst |-> burst, max |-> most]

Provider(limits, timeout, discover) ==
  [limits |-> limits, timeout |-> timeout, discover |-> discover]

Model(limits, targets, retries) ==
  [limits |-> limits, targets |-> targets, retries |-> retries]

(* Two targets with one retry each.  Each provider's bucket holds one       *)
(* token, so a second attempt may be refused; the second has a timeout.     *)
Failover ==
  <<[ingress |-> 1, client |-> NoLimits, queue |-> 1,
     models |-> ("coding" :> Model(L(0, 0, 1), <<"a", "b">>, 1)),
     providers |-> ("a" :> Provider(L(1, 1, 1), FALSE, TRUE))
                   @@ ("b" :> Provider(L(1, 1, 1), TRUE, FALSE))]>>

(* One provider that serves one request at a time behind a queue for one.   *)
Contention ==
  <<[ingress |-> 2, client |-> L(0, 0, 2), queue |-> 1,
     models |-> ("coding" :> Model(NoLimits, <<"a">>, 0)),
     providers |-> ("a" :> Provider(L(0, 0, 1), FALSE, FALSE))]>>

(* The reload disables the queue, narrows ingress and the model, gives the  *)
(* provider a rate and adds a retry.                                        *)
Reloading ==
  <<[ingress |-> 2, client |-> NoLimits, queue |-> 1,
     models |-> ("coding" :> Model(L(0, 0, 2), <<"a">>, 0)),
     providers |-> ("a" :> Provider(L(0, 0, 1), FALSE, FALSE))],
    [ingress |-> 1, client |-> NoLimits, queue |-> 0,
     models |-> ("coding" :> Model(L(0, 0, 1), <<"a">>, 1)),
     providers |-> ("a" :> Provider(L(1, 1, 1), FALSE, FALSE))]>>

Symmetry == Permutations(Requests)
=============================================================================
