-------------------------- MODULE LifecycleProofs ---------------------------
(***************************************************************************)
(* Proofs about Lifecycle: for any number of edits, signals and requests.  *)
(***************************************************************************)
EXTENDS Lifecycle, TLAPS

(***************************************************************************)
(* What runs is good because what waits to be applied was loadable when it *)
(* was read, and edits are never undone: Load and Apply may lie any number *)
(* of edits apart.                                                         *)
(***************************************************************************)
ReloadInv ==
  /\ file \in Seq(Kinds)
  /\ reloader \in [at: {"wait", "load", "apply"}, edit: 1 .. Len(file)]
  /\ running \in 1 .. Len(file)
  /\ file[running] = "good"
  /\ reloader.at = "apply" => file[reloader.edit] # "invalid"

LEMMA ReloadInit == Init => ReloadInv
PROOF
  <1> SUFFICES ASSUME Init PROVE ReloadInv
    OBVIOUS
  <1>1. file = <<"good">> /\ "good" \in Kinds
    BY DEF Init, Kinds
  <1>2. file \in Seq(Kinds) /\ Len(file) = 1 /\ file[1] = "good"
    BY <1>1
  <1> QED
    BY <1>2 DEF Init, ReloadInv

LEMMA EditStep ==
  ASSUME ReloadInv, NEW kind \in Kinds, Edit(kind)
  PROVE  ReloadInv'
PROOF
  <1>1. file' = Append(file, kind) /\ reloader' = reloader /\ running' = running
    BY DEF Edit
  <1>2. file \in Seq(Kinds) /\ Len(file) \in Nat
    BY DEF ReloadInv
  <1>3. file' \in Seq(Kinds) /\ Len(file') = Len(file) + 1
        /\ \A i \in 1 .. Len(file) : file'[i] = file[i]
    BY <1>1, <1>2
  <1>4. reloader.edit \in 1 .. Len(file) /\ reloader.edit \in 1 .. Len(file')
    BY <1>2, <1>3 DEF ReloadInv
  <1>5. reloader \in [at: {"wait", "load", "apply"}, edit: 1 .. Len(file')]
    BY <1>4 DEF ReloadInv
  <1>6. running \in 1 .. Len(file) /\ running \in 1 .. Len(file')
    BY <1>2, <1>3 DEF ReloadInv
  <1> QED
    BY <1>1, <1>3, <1>4, <1>5, <1>6 DEF ReloadInv

LEMMA LoadStep ==
  ASSUME ReloadInv, Load
  PROVE  ReloadInv'
PROOF
  <1>1. Len(file) \in 1 .. Len(file)
    <2>1. Len(file) \in Nat /\ running \in 1 .. Len(file)
      BY DEF ReloadInv
    <2> QED
      BY <2>1
  <1>2. CASE file[Len(file)] = "invalid"
    BY <1>2 DEF Load, ReloadInv
  <1>3. CASE file[Len(file)] # "invalid"
    BY <1>1, <1>3 DEF Load, ReloadInv
  <1> QED
    BY <1>2, <1>3

LEMMA ApplyStep ==
  ASSUME ReloadInv, Apply
  PROVE  ReloadInv'
PROOF
  <1>1. reloader.edit \in 1 .. Len(file) /\ file[reloader.edit] # "invalid"
    BY DEF Apply, ReloadInv
  <1>2. file[reloader.edit] \in {"good", "otherDB"}
    BY <1>1 DEF ReloadInv, Kinds
  <1> QED
    BY <1>1, <1>2 DEF Apply, ReloadInv

LEMMA ReloadInductive == ReloadInv /\ [Next]_vars => ReloadInv'
PROOF
  <1> SUFFICES ASSUME ReloadInv, [Next]_vars PROVE ReloadInv'
    OBVIOUS
  <1>1. CASE TakeHup
    BY <1>1 DEF TakeHup, ReloadInv
  <1>2. CASE UNCHANGED <<file, reloader, running>>
    BY <1>2 DEF ReloadInv
  <1> QED
    BY <1>1, <1>2, EditStep, LoadStep, ApplyStep, Zenon
    DEF Next, Hup, Listen, Accept, Finish, Term, Shutdown, WindowOver, ShutdownReturns,
        ServeReturns, CloseUsage, Exit, Rest, vars, reloadVars

(***************************************************************************)
(* A failed reload leaves the running gateway untouched: whatever sequence *)
(* of edits and SIGHUPs the operator produces, and wherever the process is *)
(* stopped, what runs is an edit that loaded and that Reload accepted.     *)
(***************************************************************************)
THEOREM OnlyGoodConfigsRun == Spec => []OnlyGoodConfigRuns
PROOF
  <1>1. ReloadInv => OnlyGoodConfigRuns
    BY DEF ReloadInv, OnlyGoodConfigRuns
  <1> QED
    BY <1>1, ReloadInit, ReloadInductive, PTL DEF Spec
=============================================================================
