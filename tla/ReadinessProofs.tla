-------------------------- MODULE ReadinessProofs ---------------------------
(***************************************************************************)
(* Proofs about Readiness: for any number of polls, any sequence of        *)
(* configurations and any interleaving with reloads and expiries.          *)
(*                                                                         *)
(* The two invariants need each other's neighbourhood only: that a probe   *)
(* is owned by `inflight' (Owned), and that a fresh result is of this      *)
(* generation.  Both rest on the types.                                    *)
(***************************************************************************)
EXTENDS Readiness, TLAPS

Result == [cfg: 0 .. Len(Backends), generation: Nat, up: SUBSET AllBackends]

Poll == [at: {"idle", "look", "wait", "probe", "done", "cancelled"},
         cfg: 0 .. Len(Backends), settled: BOOLEAN, generation: Nat,
         asked: SUBSET AllBackends, up: SUBSET AllBackends, answer: Result]

TypeInv ==
  /\ config \in DOMAIN Backends
  /\ reload \in {"none", "clear"}
  /\ cache \in Result
  /\ fresh \in BOOLEAN
  /\ inflight \in Polls \cup {"none"}
  /\ generation \in Nat
  /\ poll \in [Polls -> Poll]

(* The polls a step leaves alone, and the one it moves. *)
Moves(p, x) == x \in Poll /\ poll' = [poll EXCEPT ![p] = x]

LEMMA NoResultType == NoResult \in Result
PROOF
  <1>1. 0 \in 0 .. Len(Backends)
    BY ReadinessAssumption
  <1>2. {} \in SUBSET AllBackends
    OBVIOUS
  <1> QED
    BY <1>1, <1>2 DEF NoResult, Result

LEMMA InitType == Init => TypeInv
PROOF
  <1> SUFFICES ASSUME Init PROVE TypeInv
    OBVIOUS
  <1>1. 1 \in DOMAIN Backends /\ 0 \in 0 .. Len(Backends)
    BY ReadinessAssumption
  <1>2. {} \in SUBSET AllBackends
    OBVIOUS
  <1> DEFINE start == [at |-> "idle", cfg |-> 0, settled |-> FALSE, generation |-> 0,
                       asked |-> {}, up |-> {}, answer |-> NoResult]
  <1>3. start \in Poll
    BY <1>1, <1>2, NoResultType DEF Poll
  <1>4. poll = [p \in Polls |-> start]
    BY DEF Init
  <1> HIDE DEF start
  <1>5. poll \in [Polls -> Poll]
    BY <1>3, <1>4
  <1> QED
    BY <1>1, <1>5, NoResultType DEF Init, TypeInv

LEMMA OutcomeType ==
  ASSUME TypeInv, NEW p \in Polls
  PROVE  /\ Outcome(p) \in Result
         /\ Outcome(p).generation = poll[p].generation
PROOF
  BY DEF TypeInv, Poll, Result, Outcome

(* A poll that moves keeps its type. *)
LEMMA PollMoves ==
  ASSUME TypeInv, NEW p \in Polls
  PROVE  /\ Arrive(p) => \E x : Moves(p, x) /\ x.at = "look"
         /\ ServeCached(p) => \E x : Moves(p, x) /\ x.at = "done"
         /\ Join(p) => \E x : Moves(p, x) /\ x.at = "wait"
         /\ Claim(p) => \E x : Moves(p, x) /\ x.at = "probe"
         /\ \A b \in AllBackends, ok \in BOOLEAN :
              Report(p, b, ok) => \E x : Moves(p, x) /\ x.at = "probe"
         /\ Cancel(p) => \E x : Moves(p, x) /\ x.at = "cancelled"
PROOF
  <1> DEFINE q == poll[p]
  <1>1. q \in Poll /\ poll \in [Polls -> Poll]
    BY DEF TypeInv
  <1>2. ASSUME Arrive(p) PROVE \E x : Moves(p, x) /\ x.at = "look"
    <2> DEFINE x == [q EXCEPT !.at = "look", !.cfg = config, !.settled = (reload = "none")]
    <2>1. config \in 0 .. Len(Backends)
      BY ReadinessAssumption DEF TypeInv
    <2>2. x \in Poll /\ x.at = "look"
      BY <1>1, <2>1 DEF Poll
    <2>3. poll' = [poll EXCEPT ![p] = x]
      BY <1>1, <1>2 DEF Arrive
    <2> QED
      BY <2>2, <2>3 DEF Moves
  <1>3. ASSUME ServeCached(p) PROVE \E x : Moves(p, x) /\ x.at = "done"
    <2> DEFINE x == [q EXCEPT !.at = "done", !.answer = cache]
    <2>1. x \in Poll /\ x.at = "done"
      BY <1>1 DEF Poll, TypeInv
    <2>2. poll' = [poll EXCEPT ![p] = x]
      BY <1>1, <1>3 DEF ServeCached
    <2> QED
      BY <2>1, <2>2 DEF Moves
  <1>4. ASSUME NEW place \in {"wait", "cancelled"}, Goto(p, place)
        PROVE  \E x : Moves(p, x) /\ x.at = place
    <2> DEFINE x == [q EXCEPT !.at = place]
    <2>1. x \in Poll /\ x.at = place
      BY <1>1 DEF Poll
    <2>2. poll' = [poll EXCEPT ![p] = x]
      BY <1>1, <1>4 DEF Goto
    <2> QED
      BY <2>1, <2>2 DEF Moves
  <1>5. ASSUME Claim(p) PROVE \E x : Moves(p, x) /\ x.at = "probe"
    <2> DEFINE x == [q EXCEPT !.at = "probe", !.generation = generation]
    <2>1. x \in Poll /\ x.at = "probe"
      BY <1>1 DEF Poll, TypeInv
    <2>2. poll' = [poll EXCEPT ![p] = x]
      BY <1>1, <1>5 DEF Claim
    <2> QED
      BY <2>1, <2>2 DEF Moves
  <1>6. ASSUME NEW b \in AllBackends, NEW ok \in BOOLEAN, Report(p, b, ok)
        PROVE  \E x : Moves(p, x) /\ x.at = "probe"
    <2> DEFINE A == q.asked \cup {b}
               U == IF ok THEN q.up \cup {b} ELSE q.up
               x == [q EXCEPT !.asked = A, !.up = U]
    <2>1. A \in SUBSET AllBackends /\ U \in SUBSET AllBackends
      BY <1>1 DEF Poll
    <2>2. poll' = [poll EXCEPT ![p] = x]
      BY <1>1, <1>6 DEF Report
    <2>3. q.at = "probe"
      BY <1>6 DEF Report, At
    <2> HIDE DEF A, U
    <2>4. x \in Poll /\ x.at = "probe"
      BY <1>1, <2>1, <2>3 DEF Poll
    <2> QED
      BY <2>2, <2>4 DEF Moves
  <1> QED
    BY <1>2, <1>3, <1>4, <1>5, <1>6 DEF Join, Cancel

(* What Publish makes of the polls. *)
LEMMA PublishMoves ==
  ASSUME TypeInv, NEW p \in Polls, Publish(p)
  PROVE  /\ poll' \in [Polls -> Poll]
         /\ poll'[p].at = "done"
         /\ \A s \in Polls \ {p} :
              poll'[s].at = IF poll[s].at = "wait" THEN "look" ELSE poll[s].at
PROOF
  <1> DEFINE x == [poll[p] EXCEPT !.at = "done", !.answer = Outcome(p)]
  <1>1. poll \in [Polls -> Poll]
    BY DEF TypeInv
  <1>2. x \in Poll /\ x.at = "done"
    BY <1>1, OutcomeType DEF Poll
  <1>3. ASSUME NEW s \in Polls
        PROVE  /\ Woken(s) \in Poll
               /\ Woken(s).at = IF poll[s].at = "wait" THEN "look" ELSE poll[s].at
    BY <1>1 DEF Poll, Woken, At
  <1>4. poll' = [s \in Polls |-> IF s = p THEN x ELSE Woken(s)]
    BY DEF Publish
  <1> HIDE DEF x
  <1> QED
    BY <1>2, <1>3, <1>4

(* The actions of polls other than Publish. *)
Alone(p) ==
  \/ Arrive(p) \/ ServeCached(p) \/ Join(p) \/ Claim(p) \/ Cancel(p)
  \/ \E b \in AllBackends, ok \in BOOLEAN : Report(p, b, ok)

LEMMA TypeInductive == TypeInv /\ [Next]_vars => TypeInv'
PROOF
  <1> SUFFICES ASSUME TypeInv, [Next]_vars PROVE TypeInv'
    OBVIOUS
  <1>1. ASSUME NEW p \in Polls, Alone(p) PROVE TypeInv'
    <2>1. PICK x : Moves(p, x)
      BY <1>1, PollMoves, Zenon DEF Alone
    <2>2. poll' \in [Polls -> Poll]
      BY <2>1 DEF Moves, TypeInv
    <2>3. UNCHANGED <<config, reload, cache, fresh, generation>>
          /\ inflight' \in {inflight, p}
      BY <1>1 DEF Alone, Arrive, ServeCached, Join, Claim, Cancel, Report
    <2> QED
      BY <2>2, <2>3 DEF TypeInv
  <1>2. ASSUME NEW p \in Polls, Publish(p) PROVE TypeInv'
    <2>1. poll' \in [Polls -> Poll]
      BY <1>2, PublishMoves
    <2>2. cache' \in {cache, Outcome(p)} /\ fresh' \in {fresh, TRUE}
          /\ inflight' = "none" /\ UNCHANGED <<config, reload, generation>>
      BY <1>2 DEF Publish
    <2> QED
      BY <2>1, <2>2, OutcomeType DEF TypeInv
  <1>3. CASE ReloadConfig
    BY <1>3, ReadinessAssumption DEF ReloadConfig, TypeInv
  <1>4. CASE clear
    <2>1. generation + 1 \in Nat
      BY DEF TypeInv
    <2>2. cache' \in Result /\ fresh' = FALSE /\ reload' = "none"
          /\ generation' \in Nat /\ UNCHANGED <<config, inflight, poll>>
      BY <1>4, <2>1, NoResultType DEF clear
    <2> QED
      BY <2>2 DEF TypeInv
  <1>5. CASE ExpireCache
    BY <1>5 DEF ExpireCache, TypeInv
  <1>6. CASE UNCHANGED vars
    BY <1>6 DEF vars, TypeInv
  <1> QED
    BY <1>1, <1>2, <1>3, <1>4, <1>5, <1>6, Zenon DEF Next, Alone, Rest, checkProvider

LEMMA TypeAlways == Spec => []TypeInv
PROOF
  BY InitType, TypeInductive, PTL DEF Spec

-----------------------------------------------------------------------------
(* OneProbe, request by request: who probes, and who may wait. *)
Owned ==
  \A p \in Polls : /\ poll[p].at = "probe" <=> inflight = p
                   /\ poll[p].at = "wait" => inflight # "none"

LEMMA OwnedIsOneProbe ==
  ASSUME TypeInv
  PROVE  Owned <=> OneProbe
PROOF
  BY ReadinessAssumption DEF TypeInv, Owned, OneProbe, At

LEMMA OwnedInductive ==
  ASSUME TypeInv, Owned, [Next]_vars
  PROVE  Owned'
PROOF
  <1>0. poll \in [Polls -> Poll] /\ "none" \notin Polls
    BY ReadinessAssumption DEF TypeInv
  <1>1. ASSUME NEW p \in Polls, Arrive(p) PROVE Owned'
    <2>1. PICK x : Moves(p, x) /\ x.at = "look"
      BY <1>1, PollMoves
    <2>2. poll[p].at = "idle" /\ inflight' = inflight
      BY <1>1 DEF Arrive, At
    <2> QED
      BY <1>0, <2>1, <2>2 DEF Owned, Moves
  <1>2. ASSUME NEW p \in Polls, ServeCached(p) PROVE Owned'
    <2>1. PICK x : Moves(p, x) /\ x.at = "done"
      BY <1>2, PollMoves
    <2>2. poll[p].at = "look" /\ inflight' = inflight
      BY <1>2 DEF ServeCached, At
    <2> QED
      BY <1>0, <2>1, <2>2 DEF Owned, Moves
  <1>3. ASSUME NEW p \in Polls, Join(p) PROVE Owned'
    <2>1. PICK x : Moves(p, x) /\ x.at = "wait"
      BY <1>3, PollMoves
    <2>2. poll[p].at = "look" /\ inflight' = inflight /\ inflight # "none"
      BY <1>3 DEF Join, At
    <2> QED
      BY <1>0, <2>1, <2>2 DEF Owned, Moves
  <1>4. ASSUME NEW p \in Polls, Claim(p) PROVE Owned'
    <2>1. PICK x : Moves(p, x) /\ x.at = "probe"
      BY <1>4, PollMoves
    <2>2. inflight = "none" /\ inflight' = p
      BY <1>4 DEF Claim, At
    <2> QED
      BY <1>0, <2>1, <2>2 DEF Owned, Moves
  <1>5. ASSUME NEW p \in Polls, NEW b \in AllBackends, NEW ok \in BOOLEAN,
               Report(p, b, ok)
        PROVE  Owned'
    <2>1. PICK x : Moves(p, x) /\ x.at = "probe"
      BY <1>5, PollMoves
    <2>2. poll[p].at = "probe" /\ inflight' = inflight
      BY <1>5 DEF Report, At
    <2> QED
      BY <1>0, <2>1, <2>2 DEF Owned, Moves
  <1>6. ASSUME NEW p \in Polls, Cancel(p) PROVE Owned'
    <2>1. PICK x : Moves(p, x) /\ x.at = "cancelled"
      BY <1>6, PollMoves
    <2>2. poll[p].at = "wait" /\ inflight' = inflight
      BY <1>6 DEF Cancel, At
    <2> QED
      BY <1>0, <2>1, <2>2 DEF Owned, Moves
  <1>7. ASSUME NEW p \in Polls, Publish(p) PROVE Owned'
    <2>1. inflight = p /\ inflight' = "none"
      BY <1>7 DEF Publish, At, Owned
    <2>2. \A s \in Polls : poll'[s].at \notin {"probe", "wait"}
      BY <1>0, <1>7, <2>1, PublishMoves DEF Owned
    <2> QED
      BY <1>0, <2>1, <2>2 DEF Owned
  <1>8. CASE UNCHANGED <<poll, inflight>>
    BY <1>8 DEF Owned
  <1> QED
    BY <1>1, <1>2, <1>3, <1>4, <1>5, <1>6, <1>7, <1>8, Zenon
    DEF Next, ExpireCache, ReloadConfig, clear, Rest, vars, checkProvider

(***************************************************************************)
(* Health polling is never amplified: among any number of polls there is   *)
(* at most one probe, the one whose channel the cache holds, and nobody    *)
(* waits for a probe that is not there.  A clear in between, which resets  *)
(* everything else, changes neither.                                       *)
(***************************************************************************)
THEOREM OneProbeAtATime == Spec => []OneProbe
PROOF
  <1>1. Init => Owned
    BY ReadinessAssumption DEF Init, Owned
  <1>2. TypeInv /\ Owned /\ [Next]_vars => Owned'
    BY OwnedInductive
  <1>3. TypeInv /\ Owned => OneProbe
    BY OwnedIsOneProbe
  <1> QED
    BY <1>1, <1>2, <1>3, TypeAlways, PTL DEF Spec

(***************************************************************************)
(* What the cache serves was probed entirely after the last clear: a probe *)
(* that a clear overtakes finds another generation and stores nothing.     *)
(***************************************************************************)
THEOREM CacheIsOfThisGeneration == Spec => []ServesThisGeneration
PROOF
  <1>1. Init => ServesThisGeneration
    BY DEF Init, ServesThisGeneration
  <1>2. ASSUME TypeInv, ServesThisGeneration, [Next]_vars
        PROVE  ServesThisGeneration'
    <2>1. CASE UNCHANGED <<cache, fresh, generation>>
      BY <1>2, <2>1 DEF ServesThisGeneration
    <2>2. CASE fresh' = FALSE
      BY <2>2 DEF ServesThisGeneration
    <2>3. ASSUME NEW p \in Polls, Publish(p) PROVE ServesThisGeneration'
      <3>1. CASE poll[p].generation = generation
        BY <1>2, <2>3, <3>1, OutcomeType DEF Publish, ServesThisGeneration
      <3>2. CASE poll[p].generation # generation
        BY <1>2, <2>3, <3>2 DEF Publish, ServesThisGeneration
      <3> QED
        BY <3>1, <3>2
    <2> QED
      BY <1>2, <2>1, <2>2, <2>3, Zenon
      DEF Next, Arrive, ServeCached, Join, Claim, Report, Cancel, ExpireCache,
          ReloadConfig, clear, Rest, vars
  <1>3. TypeInv /\ ServesThisGeneration /\ [Next]_vars => ServesThisGeneration'
    BY <1>2
  <1> QED
    BY <1>1, <1>3, TypeAlways, PTL DEF Spec
=============================================================================
