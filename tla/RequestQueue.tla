---------------------------- MODULE RequestQueue ----------------------------
(***************************************************************************)
(* internal/gateway/queue.go: the bounded waiting room in front of the     *)
(* limits.                                                                 *)
(*                                                                         *)
(* wait is not atomic: the counter is under requestQueue.mu, but the calls *)
(* of try, enter and leave are separate critical sections, and a reload    *)
(* may change max between any two of them.  Each is an action here.  What  *)
(* try answers is the business of the limits: a parameter of the action,   *)
(* which a composing module ties to LimitStore.                            *)
(***************************************************************************)
EXTENDS Integers, FiniteSets

CONSTANTS
  Callers,   \* goroutines that may be inside wait
  Sizes      \* queue sizes the configurations ask for; 0 when disabled

ASSUME QueueAssumption == IsFiniteSet(Callers) /\ Sizes \subseteq Nat /\ Sizes # {}

VARIABLES
  waiting,   \* requestQueue.waiting
  max,       \* requestQueue.max
  call       \* per caller, where its call of wait is and what it will return

qvars == <<waiting, max, call>>

Idle == [at |-> "idle", ok |-> FALSE, queued |-> FALSE]

QTypeOK ==
  /\ waiting \in Nat
  /\ max \in Sizes
  /\ call \in [Callers -> [at: {"idle", "try", "enter", "poll", "leave", "return"},
                           ok: BOOLEAN, queued: BOOLEAN]]

QInit ==
  /\ waiting = 0
  /\ max \in Sizes
  /\ call = [c \in Callers |-> Idle]

-----------------------------------------------------------------------------
(* A request calls wait. *)
Call(c) ==
  /\ call[c].at = "idle"
  /\ call' = [call EXCEPT ![c].at = "try"]
  /\ UNCHANGED <<waiting, max>>

(* The first try, before any queueing; ctx is not consulted. *)
TryFirst(c, ok) ==
  /\ call[c].at = "try"
  /\ call' = [call EXCEPT ![c] = IF ok THEN [at |-> "return", ok |-> TRUE, queued |-> FALSE]
                                       ELSE [@ EXCEPT !.at = "enter"]]
  /\ UNCHANGED <<waiting, max>>

(* Mutant: one caller more than max may wait. *)
RoomForOneMore == max > 0 /\ waiting <= max

(* Mutant: who waits is not counted. *)
RoomWhenEnabled == max > 0

(* The condition under which enter lets a caller in. *)
Room == max > 0 /\ waiting < max

Enter(c) ==
  /\ call[c].at = "enter"
  /\ IF Room
     THEN /\ waiting' = waiting + 1
          /\ call' = [call EXCEPT ![c] = [at |-> "poll", ok |-> FALSE, queued |-> TRUE]]
     ELSE /\ call' = [call EXCEPT ![c].at = "return"]
          /\ UNCHANGED waiting
  /\ UNCHANGED max

(* A tick of the 25 ms ticker.  It may win the select against a context     *)
(* that is already done, so nothing but the caller's place guards it.       *)
Poll(c, ok) ==
  /\ call[c].at = "poll"
  /\ call' = IF ok THEN [call EXCEPT ![c] = [@ EXCEPT !.at = "leave", !.ok = TRUE]]
                   ELSE call
  /\ UNCHANGED <<waiting, max>>

(* Mutant: the end of waitCtx is not noticed. *)
ExpireUnnoticed(c) == call[c].at = "poll" /\ UNCHANGED qvars

(* waitCtx is done: the wait timeout, the request's deadline or its client. *)
Expire(c) ==
  /\ call[c].at = "poll"
  /\ call' = [call EXCEPT ![c].at = "leave"]
  /\ UNCHANGED <<waiting, max>>

(* Mutant: the deferred leave is lost. *)
LeaveForgotten(c) ==
  /\ call[c].at = "leave"
  /\ call' = [call EXCEPT ![c].at = "return"]
  /\ UNCHANGED <<waiting, max>>

(* The deferred leave: after try succeeded or the wait was given up. *)
Leave(c) ==
  /\ call[c].at = "leave"
  /\ waiting' = IF waiting > 0 THEN waiting - 1 ELSE waiting
  /\ call' = [call EXCEPT ![c].at = "return"]
  /\ UNCHANGED max

(* The caller takes the results (release, ok, queued) and goes on. *)
Return(c) ==
  /\ call[c].at = "return"
  /\ call' = [call EXCEPT ![c] = Idle]
  /\ UNCHANGED <<waiting, max>>

(* setMax, called by Gateway.Reload: nobody already waiting is sent away. *)
SetMax(m) ==
  /\ max' = m
  /\ UNCHANGED <<waiting, call>>

Wait(c) ==
  \/ \E ok \in BOOLEAN : TryFirst(c, ok)
  \/ Enter(c)
  \/ \E ok \in BOOLEAN : Poll(c, ok)
  \/ Expire(c)
  \/ Leave(c)

QNext ==
  \/ \E c \in Callers : Call(c) \/ Wait(c) \/ Return(c)
  \/ \E m \in Sizes : SetMax(m)

QSpec == QInit /\ [][QNext]_qvars

(***************************************************************************)
(* Goroutines are scheduled, and the wait timeout, which defaults to a     *)
(* positive value (config.go), fires: once it has, the next select without *)
(* a pending tick takes it.  Nothing is assumed of arrivals, of reloads or *)
(* of the outcome of a poll.                                               *)
(***************************************************************************)
QFairness ==
  \A c \in Callers :
    /\ WF_qvars(\E ok \in BOOLEAN : TryFirst(c, ok))
    /\ WF_qvars(Enter(c))
    /\ WF_qvars(Expire(c))
    /\ WF_qvars(Leave(c))

FairQSpec == QSpec /\ QFairness

-----------------------------------------------------------------------------
Waiters == {c \in Callers : call[c].at \in {"poll", "leave"}}

(***************************************************************************)
(* The counter is the number of goroutines between enter and leave, on     *)
(* every way out of wait and across reloads: `if q.waiting > 0' in leave   *)
(* (queue.go:44) never hides an imbalance.                                 *)
(***************************************************************************)
WaitingCountsWaiters == waiting = Cardinality(Waiters)

(***************************************************************************)
(* "bounds the number of requests waiting for admission" (queue.go:9): no  *)
(* more goroutines wait than the largest size a configuration has asked    *)
(* for, also when reloads lower max below the number already waiting.      *)
(***************************************************************************)
WaitersBounded == \E m \in Sizes : Cardinality(Waiters) <= m

(***************************************************************************)
(* setMax sends nobody away (queue.go:26), so that a reload may leave more *)
(* callers waiting than the new size.  However many arrive meanwhile, the  *)
(* queue comes down to its size again: those who wait go, and nobody takes *)
(* their place before there is room.                                       *)
(***************************************************************************)
DrainsToSize == []<>(waiting <= max)

(* Every call of wait returns, whatever the limits answer. *)
WaitReturns == \A c \in Callers : call[c].at = "try" ~> call[c].at = "return"
=============================================================================
