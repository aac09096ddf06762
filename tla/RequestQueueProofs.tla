------------------------- MODULE RequestQueueProofs -------------------------
(***************************************************************************)
(* Proofs about RequestQueue, for every set of callers and queue sizes.    *)
(***************************************************************************)
EXTENDS RequestQueue, FiniteSetTheorems, TLAPS

LEMMA QTypeInductive == QTypeOK /\ [QNext]_qvars => QTypeOK'
PROOF
  <1> SUFFICES ASSUME QTypeOK, [QNext]_qvars PROVE QTypeOK'
    OBVIOUS
  <1> USE DEF QTypeOK
  <1>1. ASSUME NEW c \in Callers, Call(c) \/ Return(c) \/ Expire(c)
        PROVE  QTypeOK'
    <2>1. CASE Call(c)
      BY <2>1 DEF Call
    <2>2. CASE Return(c)
      BY <2>2 DEF Return, Idle
    <2>3. CASE Expire(c)
      BY <2>3 DEF Expire
    <2> QED
      BY <1>1, <2>1, <2>2, <2>3
  <1>2. ASSUME NEW c \in Callers, NEW ok \in BOOLEAN, TryFirst(c, ok)
        PROVE  QTypeOK'
    BY <1>2 DEF TryFirst
  <1>3. ASSUME NEW c \in Callers, Enter(c)
        PROVE  QTypeOK'
    <2>1. CASE Room
      <3>1. call' = [call EXCEPT ![c] = [at |-> "poll", ok |-> FALSE, queued |-> TRUE]]
        BY <1>3, <2>1 DEF Enter
      <3>2. call' \in [Callers -> [at: {"idle", "try", "enter", "poll", "leave", "return"},
                                   ok: BOOLEAN, queued: BOOLEAN]]
        BY <3>1
      <3>3. waiting' = waiting + 1 /\ max' = max
        BY <1>3, <2>1 DEF Enter
      <3> QED
        BY <3>2, <3>3
    <2>2. CASE ~Room
      BY <1>3, <2>2 DEF Enter
    <2> QED
      BY <2>1, <2>2
  <1>4. ASSUME NEW c \in Callers, NEW ok \in BOOLEAN, Poll(c, ok)
        PROVE  QTypeOK'
    BY <1>4 DEF Poll
  <1>5. ASSUME NEW c \in Callers, Leave(c)
        PROVE  QTypeOK'
    BY <1>5 DEF Leave
  <1>6. ASSUME NEW m \in Sizes, SetMax(m)
        PROVE  QTypeOK'
    BY <1>6 DEF SetMax
  <1>7. CASE UNCHANGED qvars
    BY <1>7 DEF qvars
  <1> QED
    BY <1>1, <1>2, <1>3, <1>4, <1>5, <1>6, <1>7 DEF QNext, Wait

LEMMA WaitersFinite ==
  /\ IsFiniteSet(Waiters) /\ IsFiniteSet(Waiters')
  /\ Cardinality(Waiters) \in Nat /\ Cardinality(Waiters') \in Nat
PROOF
  <1>1. Waiters \subseteq Callers /\ Waiters' \subseteq Callers
    BY DEF Waiters
  <1> QED
    BY <1>1, QueueAssumption, FS_Subset, FS_CardinalityType

QInv == QTypeOK /\ WaitingCountsWaiters /\ WaitersBounded

(* Entering adds one waiter and one to the counter, within max. *)
LEMMA EnterCounts ==
  ASSUME QInv, NEW c \in Callers, Enter(c)
  PROVE  WaitingCountsWaiters' /\ WaitersBounded'
PROOF
  <1>1. c \notin Waiters
    BY DEF Waiters, Enter
  <1>2. CASE Room
    <2>1. Waiters' = Waiters \cup {c}
      BY <1>2 DEF QInv, QTypeOK, Waiters, Enter
    <2>2. Cardinality(Waiters') = Cardinality(Waiters) + 1
      BY <1>1, <2>1, WaitersFinite, FS_AddElement
    <2>3. waiting' = waiting + 1 /\ waiting < max /\ max \in Sizes
          /\ max \in Nat /\ waiting \in Nat
      BY <1>2, QueueAssumption DEF QInv, QTypeOK, Enter, Room
    <2>4. Cardinality(Waiters') = waiting'
      BY <2>2, <2>3 DEF QInv, WaitingCountsWaiters
    <2>5. Cardinality(Waiters') <= max
      BY <2>3, <2>4
    <2> QED
      BY <2>3, <2>4, <2>5 DEF WaitingCountsWaiters, WaitersBounded
  <1>3. CASE ~Room
    <2>1. Waiters' = Waiters /\ waiting' = waiting
      BY <1>3 DEF QInv, QTypeOK, Waiters, Enter
    <2> QED
      BY <2>1 DEF QInv, WaitingCountsWaiters, WaitersBounded
  <1> QED
    BY <1>2, <1>3

LEMMA LeaveCounts ==
  ASSUME QInv, NEW c \in Callers, Leave(c)
  PROVE  WaitingCountsWaiters' /\ WaitersBounded'
PROOF
  <1>1. c \in Waiters
    BY DEF Waiters, Leave
  <1>2. Waiters' = Waiters \ {c}
    BY DEF QInv, QTypeOK, Waiters, Leave
  <1>3. Cardinality(Waiters') = Cardinality(Waiters) - 1
    BY <1>1, <1>2, WaitersFinite, FS_RemoveElement
  <1>4. waiting \in Nat /\ waiting = Cardinality(Waiters)
    BY DEF QInv, QTypeOK, WaitingCountsWaiters
  <1>5. waiting > 0
    BY <1>3, <1>4, WaitersFinite
  <1>6. waiting' = Cardinality(Waiters')
    BY <1>3, <1>4, <1>5 DEF Leave
  <1>7. PICK m \in Sizes : Cardinality(Waiters) <= m
    BY DEF QInv, WaitersBounded
  <1>8. Cardinality(Waiters') <= m
    BY <1>3, <1>7, WaitersFinite, QueueAssumption
  <1> QED
    BY <1>6, <1>8 DEF WaitingCountsWaiters, WaitersBounded

LEMMA QInductive == QInv /\ [QNext]_qvars => QInv'
PROOF
  <1> SUFFICES ASSUME QInv, [QNext]_qvars PROVE QInv'
    OBVIOUS
  <1>1. QTypeOK'
    BY QTypeInductive DEF QInv
  <1>2. ASSUME Waiters' = Waiters, waiting' = waiting
        PROVE  QInv'
    BY <1>1, <1>2 DEF QInv, WaitingCountsWaiters, WaitersBounded
  <1> USE DEF QInv, QTypeOK
  <1>3. ASSUME NEW c \in Callers, Call(c) \/ Return(c) \/ Expire(c)
        PROVE  QInv'
    <2>1. Waiters' = Waiters /\ waiting' = waiting
      BY <1>3 DEF Call, Return, Expire, Idle, Waiters
    <2> QED
      BY <1>2, <2>1
  <1>4. ASSUME NEW c \in Callers, NEW ok \in BOOLEAN, TryFirst(c, ok) \/ Poll(c, ok)
        PROVE  QInv'
    <2>1. CASE TryFirst(c, ok)
      <3>1. Waiters' = Waiters /\ waiting' = waiting
        BY <2>1 DEF TryFirst, Waiters
      <3> QED
        BY <1>2, <3>1
    <2>2. CASE Poll(c, ok)
      <3>1. Waiters' = Waiters /\ waiting' = waiting
        BY <2>2 DEF Poll, Waiters
      <3> QED
        BY <1>2, <3>1
    <2> QED
      BY <1>4, <2>1, <2>2
  <1>5. ASSUME NEW c \in Callers, Enter(c)
        PROVE  QInv'
    BY <1>1, <1>5, EnterCounts
  <1>6. ASSUME NEW c \in Callers, Leave(c)
        PROVE  QInv'
    BY <1>1, <1>6, LeaveCounts
  <1>7. CASE (\E m \in Sizes : SetMax(m)) \/ UNCHANGED qvars
    <2>1. Waiters' = Waiters /\ waiting' = waiting
      BY <1>7 DEF SetMax, qvars, Waiters
    <2> QED
      BY <1>2, <2>1
  <1> QED
    BY <1>3, <1>4, <1>5, <1>6, <1>7 DEF QNext, Wait

LEMMA QInitInv == QInit => QInv
PROOF
  <1> SUFFICES ASSUME QInit PROVE QInv
    OBVIOUS
  <1>1. Waiters = {}
    BY DEF QInit, Idle, Waiters
  <1>2. Cardinality(Waiters) = 0
    BY <1>1, FS_EmptySet
  <1>3. QTypeOK
    BY DEF QInit, QTypeOK, Idle
  <1>4. max \in Sizes /\ 0 <= max
    BY QueueAssumption DEF QInit
  <1> QED
    BY <1>2, <1>3, <1>4 DEF QInit, QInv, WaitingCountsWaiters, WaitersBounded

LEMMA QInvAlways == QSpec => []QInv
PROOF
  BY QInitInv, QInductive, PTL DEF QSpec

(* The queue is well-typed: its counter never goes below zero. *)
THEOREM QueueTypeCorrect == QSpec => []QTypeOK
PROOF
  <1>1. QInv => QTypeOK
    BY DEF QInv
  <1> QED
    BY <1>1, QInvAlways, PTL

(***************************************************************************)
(* enter and leave balance on every path through wait, for any number of   *)
(* callers and any sequence of reloads.                                    *)
(***************************************************************************)
THEOREM QueueBalances == QSpec => []WaitingCountsWaiters
PROOF
  <1>1. QInv => WaitingCountsWaiters
    BY DEF QInv
  <1> QED
    BY <1>1, QInvAlways, PTL

(* No more callers wait than some configuration has allowed. *)
THEOREM QueueIsBounded == QSpec => []WaitersBounded
PROOF
  <1>1. QInv => WaitersBounded
    BY DEF QInv
  <1> QED
    BY <1>1, QInvAlways, PTL
=============================================================================
