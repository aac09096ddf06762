-------------------------- MODULE UsageStoreProofs --------------------------
(***************************************************************************)
(* Proofs about UsageStore, for any recorders, entries and integers: it    *)
(* implements the account book, never stores a total that wrapped around,  *)
(* and its reports are exact.  TxInv says what a transaction has done so   *)
(* far; BookInv, that the tables hold what the ledger adds up to.          *)
(***************************************************************************)
EXTENDS UsageStore, FiniteSetTheorems, NaturalsInduction, WellFoundedInduction, TLAPS

InTransaction(r) == rec[r].pc \in {"models", "days", "commit"}

Calls == [pc: {"idle", "begin", "models", "days", "commit", "done", "lost"},
          day: 0 .. LastDay, entry: Entries \cup {<< >>}]

(* What a transaction has written so far, by how far it has come. *)
Written(r) ==
  LET e == rec[r].entry
      d == rec[r].day
  IN  /\ rec[r].pc = "models" => tx = db
      /\ rec[r].pc = "days" => tx = PostModel(db, e, d) /\ Acceptable(e)
      /\ rec[r].pc = "commit" => tx = PostDay(PostModel(db, e, d), e, d) /\ Acceptable(e)

(* Only the holder of the connection is in a transaction, the transaction   *)
(* has seen the committed tables and its own statements, and what was       *)
(* committed had been accepted by the statements.                           *)
TxInv ==
  /\ rec \in [Recorders -> Calls]
  /\ durable \in BOOLEAN
  /\ today \in 0 .. LastDay
  /\ \A r \in Recorders :
       /\ rec[r].pc # "idle" => rec[r].entry \in Entries
       /\ InTransaction(r) => conn = r
       /\ Written(r)
  /\ ledger \subseteq Recorders
  /\ \A r \in ledger : rec[r].pc = "done" /\ Acceptable(rec[r].entry)

LEMMA InitTx == Init => TxInv
PROOF
  BY BookAssumption DEF Init, TxInv, NoCall, Calls, InTransaction, Written

LEMMA TxInductive == TxInv /\ [Next]_vars => TxInv'
PROOF
  <1> SUFFICES ASSUME TxInv, [Next]_vars PROVE TxInv'
    OBVIOUS
  <1>1. ASSUME NEW r \in Recorders, NEW e \in Entries, Record(r, e) PROVE TxInv'
    BY <1>1, RecordersAssumption DEF Record, Goto, TxInv, Calls, InTransaction, Written
  <1>2. ASSUME NEW r \in Recorders, BeginTx(r) PROVE TxInv'
    BY <1>2, RecordersAssumption DEF BeginTx, Goto, TxInv, Calls, InTransaction, Written
  <1>3. ASSUME NEW r \in Recorders, BeginFails(r) PROVE TxInv'
    BY <1>3, RecordersAssumption DEF BeginFails, Goto, TxInv, Calls, InTransaction, Written
  <1>4. ASSUME NEW r \in Recorders, UpsertModel(r) PROVE TxInv'
    BY <1>4, RecordersAssumption DEF UpsertModel, Goto, TxInv, Calls, InTransaction, Written
  <1>5. ASSUME NEW r \in Recorders, UpsertDay(r) PROVE TxInv'
    BY <1>5, RecordersAssumption DEF UpsertDay, Goto, TxInv, Calls, InTransaction, Written
  <1>6. ASSUME NEW r \in Recorders, Commit(r) PROVE TxInv'
    BY <1>6, RecordersAssumption DEF Commit, Goto, TxInv, Calls, InTransaction, Written
  <1>7. ASSUME NEW r \in Recorders, Fail(r) PROVE TxInv'
    BY <1>7, RecordersAssumption DEF Fail, Goto, TxInv, Calls, InTransaction, Written
  <1>8. CASE ReportBegins
    BY <1>8, RecordersAssumption DEF ReportBegins, TxInv, Calls, InTransaction, Written
  <1>9. CASE ReportEnds
    BY <1>9, RecordersAssumption DEF ReportEnds, TxInv, Calls, InTransaction, Written
  <1>10. CASE close
    BY <1>10 DEF close, TxInv, Calls, InTransaction, Written
  <1>11. CASE Exit
    BY <1>11 DEF Exit, TxInv, Calls, InTransaction, Written
  <1>12. CASE newUsageStore
    BY <1>12 DEF newUsageStore, TxInv, Calls, InTransaction, Written
  <1>13. CASE Midnight
    BY <1>13, BookAssumption DEF Midnight, TxInv, Calls, InTransaction, Written
  <1>14. CASE UNCHANGED vars
    BY <1>14 DEF vars, TxInv, Calls, InTransaction, Written
  <1> QED
    BY <1>1, <1>2, <1>3, <1>4, <1>5, <1>6, <1>7, <1>8, <1>9, <1>10, <1>11, <1>12,
       <1>13, <1>14 DEF Next, recordAt

LEMMA TxAlways == Spec => []TxInv
PROOF
  BY InitTx, TxInductive, PTL DEF Spec

(* Every step is a whole posting, the loss of a database in memory, or      *)
(* leaves the tables alone.                                                 *)
LEMMA StepRefines == TxInv /\ [Next]_vars => [BookNext]_<<db, durable>>
PROOF
  <1> SUFFICES ASSUME TxInv, [Next]_vars PROVE [BookNext]_<<db, durable>>
    OBVIOUS
  <1>1. ASSUME NEW r \in Recorders, Commit(r) PROVE BookNext
    <2>1. /\ rec[r].entry \in Entries /\ rec[r].day \in 0 .. LastDay
          /\ Post(rec[r].entry, rec[r].day)
      BY <1>1 DEF TxInv, Calls, Written, Commit, Post
    <2> QED
      BY <2>1 DEF BookNext
  <1>2. CASE Exit
    BY <1>2 DEF Exit, TxInv, BookNext, Lose
  <1>3. ASSUME NEW r \in Recorders, BeginTx(r) \/ BeginFails(r) \/ UpsertModel(r)
                                      \/ UpsertDay(r) \/ Fail(r)
        PROVE  UNCHANGED <<db, durable>>
    BY <1>3 DEF BeginTx, BeginFails, UpsertModel, UpsertDay, Fail
  <1>4. ASSUME NEW r \in Recorders, NEW e \in Entries, Record(r, e)
        PROVE  UNCHANGED <<db, durable>>
    BY <1>4 DEF Record
  <1>5. CASE ReportBegins \/ ReportEnds \/ close \/ newUsageStore \/ Midnight \/ UNCHANGED vars
    BY <1>5 DEF ReportBegins, ReportEnds, close, newUsageStore, Midnight, vars
  <1> QED
    BY <1>1, <1>2, <1>3, <1>4, <1>5 DEF Next, recordAt

(***************************************************************************)
(* However the steps of recorders, reports, failures, shutdown and crashes *)
(* interleave, the tables change by one whole posting at a time and a file *)
(* loses nothing (usage.go:94-150).                                        *)
(***************************************************************************)
THEOREM BookIsImplemented == Spec => ImplementsBook
PROOF
  <1>1. Init => BookInit
    BY DEF Init, BookInit
  <1> QED
    BY <1>1, TxAlways, StepRefines, PTL DEF Spec, ImplementsBook, BookSpec

LEMMA AcceptedTotal ==
  ASSUME NEW e \in Entries, Acceptable(e), e.best.total = 0
  PROVE  TokensOf(e.best).total = TokensOf(e.best).input + TokensOf(e.best).output
PROOF
  <1> DEFINE in == TokensOf(e.best).input
             out == TokensOf(e.best).output
  <1>1. in \in Nat /\ out \in Nat /\ MaxInt \in Nat
    BY BookAssumption DEF TokensOf
  <1>2. Increment(e)["input"] = in /\ Increment(e)["output"] = out
    BY DEF Increment
  <1>3. in <= MaxInt /\ out <= MaxInt
    BY <1>2 DEF Acceptable, Bindable, Counters
  <1>4. TokensOf(e.best).total = (in + out) % Unsigned
    BY DEF TokensOf
  <1> HIDE DEF in, out
  <1>5. (in + out) % Unsigned = in + out
    BY <1>1, <1>3 DEF Unsigned
  <1> QED
    BY <1>4, <1>5 DEF in, out

(***************************************************************************)
(* The addition of usage.go:268 never wraps around for a record that is    *)
(* stored, whatever a provider reports.                                    *)
(***************************************************************************)
THEOREM TotalsNeverWrap == Spec => []NoWrappedTotal
PROOF
  <1>1. TxInv => NoWrappedTotal
    BY AcceptedTotal DEF TxInv, NoWrappedTotal
  <1> QED
    BY <1>1, TxAlways, PTL
-----------------------------------------------------------------------------
(* Sums.  A sum of natural numbers is a number of units, so that what is    *)
(* known of the cardinalities of finite sets says all there is to say.      *)

(* Induction over the subsets of a finite set, by a set of them. *)
LEMMA SubsetInduction ==
  ASSUME NEW S, IsFiniteSet(S), NEW T, T \subseteq SUBSET S, {} \in T,
         \A s \in SUBSET S : s # {} /\ (\A x \in s : s \ {x} \in T) => s \in T
  PROVE  T = SUBSET S
PROOF
  <1> DEFINE R == OpToRel(<, Nat)
             D == {n \in Nat : \E s \in SUBSET S : s \notin T /\ Cardinality(s) = n}
  <1> SUFFICES ASSUME NEW u \in SUBSET S, u \notin T PROVE FALSE
    OBVIOUS
  <1>1. \A s \in SUBSET S : IsFiniteSet(s) /\ Cardinality(s) \in Nat
    BY FS_Subset, FS_CardinalityType
  <1>2. D # {} /\ D \subseteq Nat
    BY <1>1
  <1>3. PICK n \in D : \A y \in D : ~(<<y, n>> \in R)
    <2>1. IsWellFoundedOn(R, Nat)
      BY NatLessThanWellFounded
    <2>2. \A E : E \subseteq Nat /\ E # {} => \E x \in E : \A y \in E : ~(<<y, x>> \in R)
      <3> HIDE DEF R
      <3> QED
        BY <2>1, WFMin
    <2> HIDE DEF R, D
    <2> QED
      BY <1>2, <2>2
  <1>4. \A a, b \in Nat : a < b => <<a, b>> \in R
    BY DEF OpToRel
  <1> HIDE DEF R
  <1>5. PICK s \in SUBSET S : s \notin T /\ Cardinality(s) = n
    BY <1>3
  <1>6. PICK x \in s : s \ {x} \notin T
    BY <1>5
  <1>7. Cardinality(s \ {x}) = n - 1 /\ n \in Nat
    BY <1>1, <1>5, <1>6, FS_RemoveElement
  <1>8. Cardinality(s \ {x}) \in Nat
    BY <1>1
  <1>9. n - 1 \in D
    BY <1>6, <1>7, <1>8
  <1>10. <<n - 1, n>> \in R
    BY <1>4, <1>7, <1>8
  <1> QED
    BY <1>3, <1>9, <1>10

Units(f, s) == UNION {{x} \X (1 .. f[x]) : x \in s}

Total(f, s) == Cardinality(Units(f, s))

LEMMA UnitsOfMore ==
  ASSUME NEW f, NEW s, NEW x, x \notin s
  PROVE  /\ Units(f, s \cup {x}) = Units(f, s) \cup ({x} \X (1 .. f[x]))
         /\ Units(f, s) \cap ({x} \X (1 .. f[x])) = {}
PROOF
  BY DEF Units

LEMMA UnitsOfOne ==
  ASSUME NEW x, NEW n \in Nat
  PROVE  IsFiniteSet({x} \X (1 .. n)) /\ Cardinality({x} \X (1 .. n)) = n
PROOF
  <1>1. IsFiniteSet(1 .. n) /\ Cardinality(1 .. n) = n
    BY FS_Interval
  <1>2. IsFiniteSet({x}) /\ Cardinality({x}) = 1
    BY FS_Singleton
  <1> QED
    BY <1>1, <1>2, FS_Product

LEMMA DisjointUnion ==
  ASSUME NEW A, NEW B, IsFiniteSet(A), IsFiniteSet(B), A \cap B = {}
  PROVE  IsFiniteSet(A \cup B) /\ Cardinality(A \cup B) = Cardinality(A) + Cardinality(B)
PROOF
  <1>1. IsFiniteSet(A \cup B)
        /\ Cardinality(A \cup B) = Cardinality(A) + Cardinality(B) - Cardinality(A \cap B)
    BY FS_Union
  <1>2. Cardinality(A \cap B) = 0
    BY FS_EmptySet
  <1>3. Cardinality(A) \in Nat /\ Cardinality(B) \in Nat
    BY FS_CardinalityType
  <1> QED
    BY <1>1, <1>2, <1>3

LEMMA UnitsAreFinite ==
  ASSUME NEW S, IsFiniteSet(S), NEW f, \A x \in S : f[x] \in Nat, NEW s \in SUBSET S
  PROVE  IsFiniteSet(Units(f, s)) /\ Total(f, s) \in Nat
PROOF
  <1> DEFINE T == {u \in SUBSET S : IsFiniteSet(Units(f, u))}
  <1>1. {} \in T
    BY FS_EmptySet DEF Units
  <1>2. ASSUME NEW u \in SUBSET S, u # {}, \A x \in u : u \ {x} \in T
        PROVE  u \in T
    <2>1. PICK x \in u : u \ {x} \in T
      BY <1>2
    <2>2. (u \ {x}) \cup {x} = u /\ f[x] \in Nat
      OBVIOUS
    <2>3. IsFiniteSet(Units(f, u \ {x}) \cup ({x} \X (1 .. f[x])))
      BY <2>1, <2>2, UnitsOfMore, UnitsOfOne, DisjointUnion
    <2> QED
      BY <2>2, <2>3, UnitsOfMore
  <1>3. T \subseteq SUBSET S
    OBVIOUS
  <1> HIDE DEF T
  <1>4. T = SUBSET S
    BY <1>1, <1>2, <1>3, SubsetInduction
  <1> QED
    BY <1>4, FS_CardinalityType DEF T, Total

LEMMA TotalOfNone == \A f : Total(f, {}) = 0
PROOF
  BY FS_EmptySet DEF Total, Units

LEMMA TotalOfMore ==
  ASSUME NEW S, IsFiniteSet(S), NEW f, \A x \in S : f[x] \in Nat,
         NEW s \in SUBSET S, NEW x \in S, x \notin s
  PROVE  Total(f, s \cup {x}) = Total(f, s) + f[x]
PROOF
  <1> DEFINE U == Units(f, s)
             V == {x} \X (1 .. f[x])
  <1>1. Units(f, s \cup {x}) = U \cup V /\ U \cap V = {}
    BY UnitsOfMore
  <1>2. IsFiniteSet(U) /\ IsFiniteSet(V) /\ Cardinality(V) = f[x]
    BY UnitsAreFinite, UnitsOfOne
  <1> HIDE DEF U, V
  <1>3. Cardinality(U \cup V) = Cardinality(U) + Cardinality(V)
    BY <1>1, <1>2, DisjointUnion
  <1> QED
    BY <1>1, <1>2, <1>3 DEF Total, U

(* Only what is summed matters. *)
LEMMA TotalOfSame ==
  ASSUME NEW f, NEW g, NEW s, \A x \in s : f[x] = g[x]
  PROVE  Total(f, s) = Total(g, s)
PROOF
  <1>1. Units(f, s) = Units(g, s)
    BY DEF Units
  <1> QED
    BY <1>1 DEF Total

LEMMA TotalOfBoth ==
  ASSUME NEW S, IsFiniteSet(S), NEW f, \A x \in S : f[x] \in Nat,
         NEW s \in SUBSET S, NEW t \in SUBSET S, s \cap t = {}
  PROVE  Total(f, s \cup t) = Total(f, s) + Total(f, t)
PROOF
  <1>1. Units(f, s \cup t) = Units(f, s) \cup Units(f, t)
    BY DEF Units
  <1>2. Units(f, s) \cap Units(f, t) = {}
    BY DEF Units
  <1> QED
    BY <1>1, <1>2, UnitsAreFinite, DisjointUnion DEF Total

(* A sum is at least each of its terms. *)
LEMMA TotalCovers ==
  ASSUME NEW S, IsFiniteSet(S), NEW f, \A x \in S : f[x] \in Nat, NEW x \in S
  PROVE  f[x] <= Total(f, S)
PROOF
  <1>1. Total(f, (S \ {x}) \cup {x}) = Total(f, S \ {x}) + f[x]
    BY TotalOfMore
  <1>2. Total(f, S \ {x}) \in Nat
    BY UnitsAreFinite
  <1>3. (S \ {x}) \cup {x} = S /\ f[x] \in Nat
    OBVIOUS
  <1>4. Total(f, S) = Total(f, S \ {x}) + f[x]
    BY <1>1, <1>3
  <1> QED
    BY <1>2, <1>3, <1>4

(* The library's sum, as an equation. *)
Summing(w, f, S) ==
  w = [s \in SUBSET S |->
         IF s = {} THEN 0
         ELSE f[CHOOSE x \in s : TRUE] + w[s \ {CHOOSE x \in s : TRUE}]]

LEMMA SummingValue ==
  ASSUME NEW S, NEW f, NEW w, Summing(w, f, S), NEW s \in SUBSET S, s # {}
  PROVE  \E x \in s : w[s] = f[x] + w[s \ {x}]
PROOF
  <1> DEFINE c(u) == CHOOSE x \in u : TRUE
             e(u) == IF u = {} THEN 0 ELSE f[c(u)] + w[u \ {c(u)}]
  <1>1. w = [u \in SUBSET S |-> e(u)]
    BY DEF Summing
  <1>2. c(s) \in s
    OBVIOUS
  <1> HIDE DEF c
  <1>3. w[s] = e(s)
    <2> HIDE DEF e
    <2> QED
      BY <1>1
  <1> QED
    BY <1>2, <1>3

LEMMA SummingNone ==
  ASSUME NEW S, NEW f, NEW w, Summing(w, f, S)
  PROVE  w[{}] = 0
PROOF
  <1> DEFINE e(u) == IF u = {} THEN 0
                     ELSE f[CHOOSE x \in u : TRUE] + w[u \ {CHOOSE x \in u : TRUE}]
  <1>1. w = [u \in SUBSET S |-> e(u)]
    BY DEF Summing
  <1>2. w[{}] = e({})
    <2> HIDE DEF e
    <2> QED
      BY <1>1
  <1> QED
    BY <1>2

LEMMA SummingExists ==
  ASSUME NEW S, IsFiniteSet(S), NEW f, \A x \in S : f[x] \in Nat
  PROVE  \E w : Summing(w, f, S)
PROOF
  <1> DEFINE w == [s \in SUBSET S |-> Total(f, s)]
             c(u) == CHOOSE x \in u : TRUE
             e(u) == IF u = {} THEN 0 ELSE f[c(u)] + w[u \ {c(u)}]
  <1>1. ASSUME NEW s \in SUBSET S PROVE Total(f, s) = e(s)
    <2>1. CASE s = {}
      BY <2>1, TotalOfNone
    <2>2. CASE s # {}
      <3>1. c(s) \in s
        BY <2>2
      <3> HIDE DEF c
      <3> DEFINE x == c(s)
                 t == s \ {x}
      <3>2. x \in S /\ t \in SUBSET S /\ x \notin t /\ t \cup {x} = s
        BY <3>1
      <3>3. w[t] = Total(f, t)
        BY <3>2
      <3>4. e(s) = f[x] + w[t]
        BY <2>2
      <3>5. Total(f, t) \in Nat /\ f[x] \in Nat
        BY <3>2, UnitsAreFinite
      <3> HIDE DEF x, t, w, e
      <3>6. Total(f, t \cup {x}) = Total(f, t) + f[x]
        BY <3>2, TotalOfMore
      <3>7. Total(f, s) = Total(f, t) + f[x]
        BY <3>2, <3>6
      <3> QED
        BY <3>3, <3>4, <3>5, <3>7
    <2> QED
      BY <2>1, <2>2
  <1> HIDE DEF e
  <1>2. w = [s \in SUBSET S |-> e(s)]
    BY <1>1
  <1>3. Summing(w, f, S)
    <2> HIDE DEF w
    <2> QED
      BY <1>2 DEF Summing, e, c
  <1> QED
    BY <1>3

LEMMA SummingIsTotal ==
  ASSUME NEW S, IsFiniteSet(S), NEW f, \A x \in S : f[x] \in Nat, NEW w, Summing(w, f, S)
  PROVE  w[S] = Total(f, S)
PROOF
  <1> DEFINE T == {s \in SUBSET S : w[s] = Total(f, s)}
  <1>1. {} \in T
    BY SummingNone, TotalOfNone
  <1>2. ASSUME NEW s \in SUBSET S, s # {}, \A x \in s : s \ {x} \in T
        PROVE  s \in T
    <2>1. PICK x \in s : w[s] = f[x] + w[s \ {x}]
      BY <1>2, SummingValue
    <2> DEFINE t == s \ {x}
    <2>2. x \in S /\ t \in SUBSET S /\ x \notin t /\ t \cup {x} = s
      OBVIOUS
    <2>3. w[s] = f[x] + Total(f, t)
      BY <1>2, <2>1
    <2> HIDE DEF t
    <2>4. Total(f, t \cup {x}) = Total(f, t) + f[x] /\ Total(f, t) \in Nat
      BY <2>2, TotalOfMore, UnitsAreFinite
    <2>5. Total(f, s) = Total(f, t) + f[x] /\ f[x] \in Nat
      BY <2>2, <2>4
    <2>6. w[s] = Total(f, s)
      BY <2>3, <2>4, <2>5
    <2> QED
      BY <2>6
  <1>3. T \subseteq SUBSET S
    OBVIOUS
  <1> HIDE DEF T
  <1>4. T = SUBSET S
    BY <1>1, <1>2, <1>3, SubsetInduction
  <1> QED
    BY <1>4 DEF T

LEMMA SumIsTotal ==
  ASSUME NEW S, IsFiniteSet(S), NEW f, DOMAIN f = S, \A x \in S : f[x] \in Nat
  PROVE  SumFunction(f) = Total(f, S)
PROOF
  <1>1. SumFunction(f) = (CHOOSE w : Summing(w, f, S))[S]
    BY DEF SumFunction, SumFunctionOnSet, FoldFunctionOnSet, MapThenFoldSet, Summing
  <1>2. Summing(CHOOSE w : Summing(w, f, S), f, S)
    BY SummingExists
  <1> QED
    BY <1>1, <1>2, SummingIsTotal

(* Rows that each hold the sum of their part add up to the sum of all.      *)
LEMMA Regroup ==
  ASSUME NEW R, IsFiniteSet(R), NEW a, \A r \in R : a[r] \in Nat, NEW key,
         NEW K, IsFiniteSet(K), NEW v,
         \A k \in K : v[k] = Total(a, {r \in R : key[r] = k})
  PROVE  Total(v, K) = Total(a, {r \in R : key[r] \in K})
PROOF
  <1> DEFINE P(s) == {r \in R : key[r] \in s}
             T == {s \in SUBSET K : Total(v, s) = Total(a, P(s))}
  <1>1. {} \in T
    <2>1. P({}) = {}
      OBVIOUS
    <2> QED
      BY <2>1, TotalOfNone
  <1>2. ASSUME NEW k \in K PROVE v[k] \in Nat
    <2> DEFINE p == {r \in R : key[r] = k}
    <2>1. p \in SUBSET R /\ v[k] = Total(a, p)
      OBVIOUS
    <2> HIDE DEF p
    <2> QED
      BY <2>1, UnitsAreFinite
  <1>3. ASSUME NEW s \in SUBSET K, s # {}, \A x \in s : s \ {x} \in T
        PROVE  s \in T
    <2>1. PICK k \in s : TRUE
      BY <1>3
    <2> DEFINE t == s \ {k}
               p == {r \in R : key[r] = k}
    <2>2. k \in K /\ t \in SUBSET K /\ k \notin t /\ t \cup {k} = s
      OBVIOUS
    <2>3. Total(v, t) = Total(a, P(t))
      BY <1>3
    <2>4. v[k] = Total(a, p)
      BY <2>2
    <2>5. P(s) = P(t) \cup p /\ P(t) \cap p = {} /\ P(t) \in SUBSET R /\ p \in SUBSET R
      BY <2>2
    <2> HIDE DEF t, p, P
    <2>6. Total(v, t \cup {k}) = Total(v, t) + v[k]
      BY <1>2, <2>2, TotalOfMore
    <2>7. Total(a, P(t) \cup p) = Total(a, P(t)) + Total(a, p)
      BY <2>5, TotalOfBoth
    <2> QED
      BY <2>2, <2>3, <2>4, <2>5, <2>6, <2>7
  <1>4. T \subseteq SUBSET K
    OBVIOUS
  <1> HIDE DEF T
  <1>5. T = SUBSET K
    BY <1>1, <1>3, <1>4, SubsetInduction
  <1> QED
    BY <1>5 DEF T

-----------------------------------------------------------------------------
(* The tables. *)

(* A value as the database keeps it. *)
Cap(n) == IF n <= MaxInt THEN n ELSE Real

Column(inc, c) == [r \in DOMAIN inc |-> inc[r][c]]

(* A table has a row for every key of records R, with what they add up to.  *)
Tally(table, R, key, inc) ==
  /\ DOMAIN table = {key[r] : r \in R}
  /\ \A k \in DOMAIN table, c \in Counters :
       table[k][c] = Cap(Total(Column(inc, c), {r \in R : key[r] = k}))

LEMMA CapPlus ==
  ASSUME NEW a \in Nat, NEW b \in Nat
  PROVE  Plus(Cap(a), b) = Cap(a + b)
PROOF
  BY BookAssumption DEF Plus, Cap, Real

(* INSERT ... ON CONFLICT DO UPDATE keeps a table exact. *)
LEMMA TallyUpsert ==
  ASSUME NEW W, NEW R \in SUBSET W, IsFiniteSet(R), NEW x \in W, x \notin R,
         NEW key, NEW inc, DOMAIN inc = W,
         \A r \in R \cup {x}, c \in Counters : inc[r][c] \in Nat,
         \A c \in Counters : inc[x][c] <= MaxInt,
         NEW table, Tally(table, R, key, inc)
  PROVE  Tally(Upsert(table, key[x], inc[x]), R \cup {x}, key, inc)
PROOF
  <1> DEFINE new == Upsert(table, key[x], inc[x])
             S == R \cup {x}
             Part(P, k) == {r \in P : key[r] = k}
  <1>1. DOMAIN new = DOMAIN table \cup {key[x]}
    BY DEF Upsert
  <1>2. DOMAIN new = {key[r] : r \in S}
    BY <1>1 DEF Tally
  <1>3. ASSUME NEW k \in DOMAIN new, NEW c \in Counters
        PROVE  new[k][c] = Cap(Total(Column(inc, c), Part(S, k)))
    <2> DEFINE a == Column(inc, c)
               old == Part(R, k)
    <2>1. \A r \in S : a[r] = inc[r][c] /\ a[r] \in Nat
      BY DEF Column
    <2>2. IsFiniteSet(S) /\ old \in SUBSET S /\ x \in S
      BY FS_AddElement
    <2>3. CASE k # key[x]
      <3>1. Part(S, k) = old
        BY <2>3
      <3>2. k \in DOMAIN table /\ new[k] = table[k]
        BY <1>1, <2>3 DEF Upsert
      <3>3. table[k][c] = Cap(Total(a, old))
        BY <3>2 DEF Tally
      <3> QED
        BY <3>1, <3>2, <3>3
    <2>4. CASE k = key[x]
      <3>1. Part(S, k) = old \cup {x} /\ x \notin old
        BY <2>4
      <3> HIDE DEF a, old, S
      <3>2. Total(a, old \cup {x}) = Total(a, old) + a[x] /\ Total(a, old) \in Nat
        BY <2>1, <2>2, <3>1, TotalOfMore, UnitsAreFinite
      <3>3. a[x] = inc[x][c] /\ a[x] \in Nat /\ a[x] <= MaxInt
        BY <2>1, <2>2
      <3>4. CASE k \in DOMAIN table
        <4>1. new[k][c] = Plus(table[k][c], a[x])
          BY <2>4, <3>3, <3>4 DEF Upsert
        <4>2. table[k][c] = Cap(Total(a, old))
          BY <3>4 DEF Tally, a, old
        <4>3. Plus(Cap(Total(a, old)), a[x]) = Cap(Total(a, old) + a[x])
          BY <3>2, <3>3, CapPlus
        <4> QED
          BY <3>1, <3>2, <4>1, <4>2, <4>3 DEF a
      <3>5. CASE k \notin DOMAIN table
        <4>1. new[k][c] = a[x]
          BY <2>4, <3>3, <3>5 DEF Upsert
        <4>2. old = {}
          BY <3>5 DEF Tally, old
        <4>3. Total(a, old) = 0
          BY <4>2, TotalOfNone
        <4>4. Cap(Total(a, old) + a[x]) = a[x]
          BY <3>3, <4>3 DEF Cap
        <4> QED
          BY <3>1, <3>2, <4>1, <4>4 DEF a
      <3> QED
        BY <3>4, <3>5
    <2> QED
      BY <2>3, <2>4
  <1> HIDE DEF new
  <1>4. Tally(new, S, key, inc)
    BY <1>2, <1>3 DEF Tally
  <1> QED
    BY <1>4 DEF new

(* Only the records counted matter. *)
LEMMA TallyOfSame ==
  ASSUME NEW R, NEW table, NEW key, NEW inc, NEW key2, NEW inc2,
         R \subseteq DOMAIN inc, R \subseteq DOMAIN inc2,
         \A r \in R : key2[r] = key[r] /\ inc2[r] = inc[r],
         Tally(table, R, key, inc)
  PROVE  Tally(table, R, key2, inc2)
PROOF
  <1>1. DOMAIN table = {key2[r] : r \in R}
    BY DEF Tally
  <1>2. ASSUME NEW k \in DOMAIN table, NEW c \in Counters
        PROVE  table[k][c] = Cap(Total(Column(inc2, c), {r \in R : key2[r] = k}))
    <2> DEFINE P == {r \in R : key[r] = k}
    <2>1. {r \in R : key2[r] = k} = P
      OBVIOUS
    <2>2. \A r \in P : Column(inc, c)[r] = Column(inc2, c)[r]
      BY DEF Column
    <2>3. table[k][c] = Cap(Total(Column(inc, c), P))
      BY DEF Tally
    <2> HIDE DEF P
    <2> QED
      BY <2>1, <2>2, <2>3, TotalOfSame
  <1> QED
    BY <1>1, <1>2 DEF Tally

modelOf == [r \in Recorders |-> rec[r].entry.model]

rowOf == [r \in Recorders |->
            [day |-> rec[r].day, client |-> rec[r].entry.client, model |-> rec[r].entry.model]]

additions == [r \in Recorders |-> Increment(rec[r].entry)]

(* The tables hold what the ledger adds up to, and of each model the time   *)
(* and the status of one of its records.                                    *)
LastInv ==
  /\ DOMAIN db.last = DOMAIN db.models
  /\ \A m \in DOMAIN db.last :
       \E r \in ledger : /\ rec[r].entry.model = m
                         /\ db.last[m] = [day |-> rec[r].day, status |-> rec[r].entry.status]

BookInv ==
  /\ IsFiniteSet(ledger)
  /\ db \in [models: {db.models}, last: {db.last}, days: {db.days}]
  /\ Tally(db.models, ledger, modelOf, additions)
  /\ LastInv
  /\ Tally(db.days, ledger, rowOf, additions)

LEMMA TallyOfNone ==
  ASSUME NEW key, NEW inc
  PROVE  Tally(<< >>, {}, key, inc)
PROOF
  BY DEF Tally

LEMMA EmptyBook == db = Empty /\ ledger = {} => BookInv
PROOF
  <1> SUFFICES ASSUME db = Empty, ledger = {} PROVE BookInv
    OBVIOUS
  <1>1. db.models = << >> /\ db.last = << >> /\ db.days = << >>
        /\ db \in [models: {db.models}, last: {db.last}, days: {db.days}]
    BY DEF Empty
  <1>2. IsFiniteSet(ledger)
    BY FS_EmptySet
  <1>3. LastInv
    BY <1>1 DEF LastInv
  <1> QED
    BY <1>1, <1>2, <1>3, TallyOfNone DEF BookInv

LEMMA IncrementType ==
  ASSUME NEW e \in Entries, NEW c \in Counters
  PROVE  Increment(e)[c] \in Nat
PROOF
  <1> DEFINE t == TokensOf(e.best)
  <1>1. Unsigned \in Nat /\ Unsigned > 0
    BY BookAssumption DEF Unsigned
  <1>2. \A n \in Nat : n % Unsigned \in Nat
    BY <1>1
  <1>3. t.input \in Nat /\ t.output \in Nat /\ t.total \in Nat
    BY <1>2, BookAssumption DEF TokensOf
  <1> QED
    BY <1>3 DEF Increment, Counters

(* Nothing of the ledger or the tables changes. *)
LEMMA BookKept ==
  ASSUME TxInv, TxInv', BookInv, UNCHANGED <<db, ledger>>,
         \A r \in ledger : rec'[r].entry = rec[r].entry /\ rec'[r].day = rec[r].day
  PROVE  BookInv'
PROOF
  <1>1. ledger \subseteq Recorders
    BY DEF TxInv
  <1>2. \A r \in ledger : modelOf'[r] = modelOf[r] /\ additions'[r] = additions[r]
                          /\ rowOf'[r] = rowOf[r]
    BY <1>1 DEF modelOf, additions, rowOf
  <1>3. DOMAIN additions = Recorders /\ DOMAIN additions' = Recorders
    BY DEF additions
  <1>4. Tally(db.models, ledger, modelOf', additions')
    BY <1>1, <1>2, <1>3, TallyOfSame DEF BookInv
  <1>5. Tally(db.days, ledger, rowOf', additions')
    BY <1>1, <1>2, <1>3, TallyOfSame DEF BookInv
  <1>6. LastInv'
    <2>1. DOMAIN db.last = DOMAIN db.models
      BY DEF BookInv, LastInv
    <2>2. ASSUME NEW m \in DOMAIN db.last
          PROVE  \E r \in ledger :
                   /\ rec'[r].entry.model = m
                   /\ db.last[m] = [day |-> rec'[r].day, status |-> rec'[r].entry.status]
      <3>1. PICK r \in ledger :
              /\ rec[r].entry.model = m
              /\ db.last[m] = [day |-> rec[r].day, status |-> rec[r].entry.status]
        BY DEF BookInv, LastInv
      <3>2. rec'[r].entry = rec[r].entry /\ rec'[r].day = rec[r].day
        OBVIOUS
      <3> QED
        BY <3>1, <3>2
    <2> QED
      BY <2>1, <2>2 DEF LastInv
  <1>7. Tally(db.models, ledger, modelOf, additions)'
    BY <1>4
  <1>8. Tally(db.days, ledger, rowOf, additions)'
    BY <1>5
  <1>9. IsFiniteSet(ledger')
        /\ db' \in [models: {db'.models}, last: {db'.last}, days: {db'.days}]
    BY DEF BookInv
  <1> QED
    BY <1>6, <1>7, <1>8, <1>9 DEF BookInv

(* A commit adds one record to the ledger and to both tables. *)
LEMMA BookGrows ==
  ASSUME TxInv, BookInv, NEW r \in Recorders, Commit(r)
  PROVE  BookInv'
PROOF
  <1> DEFINE e == rec[r].entry
             d == rec[r].day
             m == e.model
             t == PostModel(db, e, d)
  <1>1. e \in Entries /\ Acceptable(e) /\ db' = PostDay(t, e, d) /\ ledger' = ledger \cup {r}
    BY DEF Commit, TxInv, Written
  <1>2. ledger \subseteq Recorders /\ r \notin ledger /\ IsFiniteSet(ledger)
    BY DEF Commit, TxInv, BookInv
  <1>3. \A q \in Recorders : rec'[q].entry = rec[q].entry /\ rec'[q].day = rec[q].day
    BY DEF Commit, Goto, TxInv, Calls
  <1>4. modelOf' = modelOf /\ rowOf' = rowOf /\ additions' = additions
    BY <1>3 DEF modelOf, rowOf, additions
  <1>5. /\ modelOf[r] = m /\ additions[r] = Increment(e) /\ DOMAIN additions = Recorders
        /\ rowOf[r] = [day |-> d, client |-> e.client, model |-> e.model]
    BY DEF modelOf, rowOf, additions
  <1>6. ASSUME NEW q \in ledger \cup {r}, NEW c \in Counters PROVE additions[q][c] \in Nat
    <2>1. q \in Recorders /\ rec[q].entry \in Entries
      BY <1>1, <1>2 DEF TxInv
    <2> QED
      BY <2>1, IncrementType DEF additions
  <1>7. \A c \in Counters : additions[r][c] <= MaxInt
    BY <1>1, <1>5 DEF Acceptable, Bindable
  <1>8. /\ db'.models = Upsert(db.models, m, Increment(e))
        /\ db'.last = [x \in DOMAIN db.last \cup {m} |->
                         IF x = m THEN [day |-> d, status |-> e.status] ELSE db.last[x]]
        /\ db'.days = Upsert(db.days, [day |-> d, client |-> e.client, model |-> e.model],
                             Increment(e))
        /\ db' \in [models: {db'.models}, last: {db'.last}, days: {db'.days}]
    <2>1. /\ t.models = Upsert(db.models, m, Increment(e))
          /\ t.last = [x \in DOMAIN db.last \cup {m} |->
                         IF x = m THEN [day |-> d, status |-> e.status] ELSE db.last[x]]
          /\ t.days = db.days
          /\ t \in [models: {t.models}, last: {t.last}, days: {t.days}]
      BY DEF BookInv, PostModel
    <2> HIDE DEF t
    <2> QED
      BY <1>1, <2>1 DEF PostDay
  <1> HIDE DEF e, d, m, t
  <1>9. Tally(Upsert(db.models, modelOf[r], additions[r]), ledger \cup {r}, modelOf, additions)
    BY <1>2, <1>5, <1>6, <1>7, TallyUpsert DEF BookInv
  <1>10. Tally(Upsert(db.days, rowOf[r], additions[r]), ledger \cup {r}, rowOf, additions)
    BY <1>2, <1>5, <1>6, <1>7, TallyUpsert DEF BookInv
  <1>11. Tally(db.models, ledger, modelOf, additions)'
    BY <1>1, <1>4, <1>5, <1>8, <1>9
  <1>12. Tally(db.days, ledger, rowOf, additions)'
    BY <1>1, <1>4, <1>5, <1>8, <1>10
  <1>13. LastInv'
    <2>1. DOMAIN db'.last = DOMAIN db'.models
      BY <1>8 DEF BookInv, LastInv, Upsert
    <2>2. ASSUME NEW x \in DOMAIN db'.last
          PROVE  \E q \in ledger' :
                   /\ rec'[q].entry.model = x
                   /\ db'.last[x] = [day |-> rec'[q].day, status |-> rec'[q].entry.status]
      <3>1. CASE x = m
        <4>1. r \in ledger' /\ rec'[r].entry.model = x
          BY <1>1, <1>3, <3>1 DEF m, e
        <4>2. db'.last[x] = [day |-> rec'[r].day, status |-> rec'[r].entry.status]
          BY <1>3, <1>8, <3>1 DEF d, e
        <4> QED
          BY <4>1, <4>2
      <3>2. CASE x # m
        <4>1. x \in DOMAIN db.last /\ db'.last[x] = db.last[x]
          BY <1>8, <3>2
        <4>2. PICK q \in ledger :
                /\ rec[q].entry.model = x
                /\ db.last[x] = [day |-> rec[q].day, status |-> rec[q].entry.status]
          BY <4>1 DEF BookInv, LastInv
        <4>3. q \in ledger' /\ rec'[q].entry = rec[q].entry /\ rec'[q].day = rec[q].day
          BY <1>1, <1>2, <1>3
        <4> QED
          BY <4>1, <4>2, <4>3
      <3> QED
        BY <3>1, <3>2
    <2> QED
      BY <2>1, <2>2 DEF LastInv
  <1>14. IsFiniteSet(ledger')
    BY <1>1, <1>2, FS_AddElement
  <1> QED
    BY <1>8, <1>11, <1>12, <1>13, <1>14 DEF BookInv

LEMMA BookInductive == TxInv /\ TxInv' /\ BookInv /\ [Next]_vars => BookInv'
PROOF
  <1> SUFFICES ASSUME TxInv, TxInv', BookInv, [Next]_vars PROVE BookInv'
    OBVIOUS
  <1>1. ASSUME NEW r \in Recorders, NEW e \in Entries, Record(r, e) PROVE BookInv'
    <2>1. \A q \in ledger : q # r
      BY <1>1 DEF Record, TxInv
    <2>2. /\ \A q \in ledger : rec'[q].entry = rec[q].entry /\ rec'[q].day = rec[q].day
          /\ UNCHANGED <<db, ledger>>
      BY <1>1, <2>1 DEF Record, TxInv
    <2> QED
      BY <2>2, BookKept
  <1>2. ASSUME NEW r \in Recorders,
               BeginTx(r) \/ BeginFails(r) \/ UpsertModel(r) \/ UpsertDay(r) \/ Fail(r)
        PROVE  BookInv'
    <2>1. PICK pc : Goto(r, pc)
      BY <1>2 DEF BeginTx, BeginFails, UpsertModel, UpsertDay, Fail
    <2>2. \A q \in ledger : rec'[q].entry = rec[q].entry /\ rec'[q].day = rec[q].day
      BY <2>1 DEF Goto, TxInv, Calls
    <2>3. UNCHANGED <<db, ledger>>
      BY <1>2 DEF BeginTx, BeginFails, UpsertModel, UpsertDay, Fail
    <2> QED
      BY <2>2, <2>3, BookKept
  <1>3. ASSUME NEW r \in Recorders, Commit(r) PROVE BookInv'
    BY <1>3, BookGrows
  <1>4. CASE Exit
    <2>1. CASE durable
      <3>1. \A q \in ledger : rec'[q] = rec[q]
        BY <1>4 DEF Exit, TxInv
      <3>2. UNCHANGED <<db, ledger>>
        BY <1>4, <2>1 DEF Exit
      <3> QED
        BY <3>1, <3>2, BookKept
    <2>2. CASE ~durable
      <3>1. db' = Empty /\ ledger' = {}
        BY <1>4, <2>2 DEF Exit
      <3>2. (db = Empty /\ ledger = {} => BookInv)'
        BY EmptyBook, PTL
      <3> QED
        BY <3>1, <3>2
    <2> QED
      BY <2>1, <2>2
  <1>5. CASE ReportBegins \/ ReportEnds \/ close \/ newUsageStore \/ Midnight \/ UNCHANGED vars
    <2>1. UNCHANGED <<rec, db, ledger>>
      BY <1>5 DEF ReportBegins, ReportEnds, close, newUsageStore, Midnight, vars
    <2> QED
      BY <2>1, BookKept
  <1> QED
    BY <1>1, <1>2, <1>3, <1>4, <1>5 DEF Next, recordAt

-----------------------------------------------------------------------------
(* The reports. *)

LEMMA OwedIsTotal ==
  ASSUME TxInv, BookInv, NEW S \in SUBSET ledger, NEW c \in Counters
  PROVE  Owed(S, c) = Total(Column(additions, c), S) /\ Owed(S, c) \in Nat
PROOF
  <1> DEFINE f == [r \in S |-> Increment(rec[r].entry)[c]]
             a == Column(additions, c)
  <1>1. ASSUME NEW r \in S PROVE f[r] = a[r] /\ f[r] \in Nat
    <2>1. r \in Recorders /\ rec[r].entry \in Entries
      BY DEF TxInv
    <2> QED
      BY <2>1, IncrementType DEF Column, additions
  <1>2. IsFiniteSet(S)
    BY FS_Subset DEF BookInv
  <1>3. DOMAIN f = S /\ Owed(S, c) = SumFunction(f)
    BY DEF Owed
  <1> HIDE DEF f, a
  <1>4. SumFunction(f) = Total(f, S) /\ Total(f, S) = Total(a, S) /\ Total(f, S) \in Nat
    BY <1>1, <1>2, <1>3, SumIsTotal, TotalOfSame, UnitsAreFinite
  <1> QED
    BY <1>3, <1>4 DEF a

LEMMA Counted ==
  ASSUME TxInv, BookInv, NEW r \in ledger, NEW c \in Counters
  PROVE  Column(additions, c)[r] \in Nat
PROOF
  <1>1. r \in Recorders /\ rec[r].entry \in Entries
    BY DEF TxInv
  <1> QED
    BY <1>1, IncrementType DEF Column, additions

(* The row of a model is exact if it can be read at all. *)
LEMMA ModelsExact ==
  ASSUME TxInv, BookInv, NEW m \in DOMAIN db.models, NEW c \in Counters
  PROVE  /\ db.models[m][c] = Cap(Owed(Of(m), c))
         /\ Owed(Of(m), c) \in Nat
PROOF
  <1>1. Of(m) \in SUBSET ledger /\ Of(m) = {r \in ledger : modelOf[r] = m}
    BY DEF Of, modelOf, TxInv
  <1>2. db.models[m][c] = Cap(Total(Column(additions, c), {r \in ledger : modelOf[r] = m}))
    BY DEF BookInv, Tally
  <1> QED
    BY <1>1, <1>2, OwedIsTotal

LEMMA CapExact ==
  ASSUME NEW n \in Nat
  PROVE  Cap(n) \in Nat /\ (Cap(n) <= MaxInt <=> n <= MaxInt) /\ (n <= MaxInt => Cap(n) = n)
PROOF
  BY BookAssumption DEF Cap, Real

LEMMA SnapshotExact ==
  ASSUME TxInv, BookInv
  PROVE  /\ \A read \in SUBSET DOMAIN db.models :
              LET report == snapshot(read) IN
              \A m \in DOMAIN report :
                /\ \A c \in Counters : report[m][c] = Owed(Of(m), c)
                /\ \E r \in Of(m) :
                     db.last[m] = [day |-> rec[r].day, status |-> rec[r].entry.status]
         /\ \A m \in {rec[r].entry.model : r \in ledger} :
              (\A c \in Counters : Owed(Of(m), c) <= MaxInt) =>
                m \in DOMAIN snapshot(DOMAIN db.models)
PROOF
  <1>1. ASSUME NEW read \in SUBSET DOMAIN db.models, NEW m \in DOMAIN snapshot(read)
        PROVE  /\ \A c \in Counters : snapshot(read)[m][c] = Owed(Of(m), c)
               /\ \E r \in Of(m) :
                    db.last[m] = [day |-> rec[r].day, status |-> rec[r].entry.status]
    <2>1. /\ m \in DOMAIN db.models /\ snapshot(read)[m] = db.models[m]
          /\ \A c \in Counters : db.models[m][c] <= MaxInt
      BY DEF snapshot
    <2>2. ASSUME NEW c \in Counters PROVE snapshot(read)[m][c] = Owed(Of(m), c)
      BY <2>1, ModelsExact, CapExact
    <2>3. \E r \in Of(m) : db.last[m] = [day |-> rec[r].day, status |-> rec[r].entry.status]
      BY <2>1 DEF BookInv, LastInv, Of
    <2> QED
      BY <2>2, <2>3
  <1>2. ASSUME NEW r \in ledger, \A c \in Counters : Owed(Of(rec[r].entry.model), c) <= MaxInt
        PROVE  rec[r].entry.model \in DOMAIN snapshot(DOMAIN db.models)
    <2> DEFINE m == rec[r].entry.model
    <2>1. m = modelOf[r]
      BY DEF modelOf, TxInv
    <2>2. m \in DOMAIN db.models
      BY <2>1 DEF BookInv, Tally
    <2>3. \A c \in Counters : Owed(Of(m), c) <= MaxInt
      BY <1>2
    <2> HIDE DEF m
    <2>4. ASSUME NEW c \in Counters PROVE db.models[m][c] <= MaxInt
      BY <2>2, <2>3, ModelsExact, CapExact
    <2>5. m \in DOMAIN snapshot(DOMAIN db.models)
      BY <2>2, <2>4 DEF snapshot
    <2> QED
      BY <2>5 DEF m
  <1> QED
    BY <1>1, <1>2

(* If rows add up to no more than fits, each of them fits, and they add up  *)
(* to what their records do.                                                *)
LEMMA RowsAddUp ==
  ASSUME NEW R, IsFiniteSet(R), NEW a, \A r \in R : a[r] \in Nat, NEW key,
         NEW K, IsFiniteSet(K), NEW v, DOMAIN v = K,
         \A k \in K : v[k] = Cap(Total(a, {r \in R : key[r] = k})),
         ~(SumFunction(v) > MaxInt)
  PROVE  SumFunction(v) = Total(a, {r \in R : key[r] \in K})
PROOF
  <1>1. ASSUME NEW k \in K PROVE Total(a, {r \in R : key[r] = k}) \in Nat
    <2> DEFINE p == {r \in R : key[r] = k}
    <2>1. p \in SUBSET R
      OBVIOUS
    <2> HIDE DEF p
    <2>2. Total(a, p) \in Nat
      BY <2>1, UnitsAreFinite
    <2> QED
      BY <2>2 DEF p
  <1>2. \A k \in K : v[k] \in Nat
    BY <1>1, CapExact
  <1>3. SumFunction(v) = Total(v, K) /\ Total(v, K) \in Nat
    BY <1>2, SumIsTotal, UnitsAreFinite
  <1>4. MaxInt \in Nat
    BY BookAssumption
  <1>5. Total(v, K) <= MaxInt
    BY <1>3, <1>4
  <1>6. ASSUME NEW k \in K PROVE v[k] = Total(a, {r \in R : key[r] = k})
    <2> DEFINE n == Total(a, {r \in R : key[r] = k})
    <2>1. n \in Nat /\ v[k] = Cap(n)
      BY <1>1
    <2>2. v[k] <= Total(v, K) /\ v[k] \in Nat
      BY <1>2, TotalCovers
    <2> HIDE DEF n
    <2>3. v[k] <= MaxInt
      BY <1>3, <1>4, <1>5, <2>2
    <2>4. v[k] = n
      BY <2>1, <2>3, CapExact
    <2> QED
      BY <2>4 DEF n
  <1>7. Total(v, K) = Total(a, {r \in R : key[r] \in K})
    BY <1>6, Regroup
  <1> QED
    BY <1>3, <1>7

(* A report over days or months, for one client or all: if no sum is too    *)
(* large, no row it adds up was, and the rows together hold every record    *)
(* that is asked for.                                                       *)
LEMMA PeriodExact ==
  ASSUME TxInv, BookInv, NEW client, NEW period, NEW finished
  PROVE  PeriodIsExact(period, client, finished)
PROOF
  <1> DEFINE counted == {r \in ledger : client \in {"", rec[r].entry.client}}
             report == periodSnapshot(period, client, finished)
             group(r) == <<periodExpression(period, rec[r].day), rec[r].entry.client,
                           rec[r].entry.model>>
             selected == {k \in DOMAIN db.days : client \in {"", k.client}}
             place(k) == <<periodExpression(period, k.day), k.client, k.model>>
             rows(g) == {x \in selected : place(x) = g}
             sum(g, c) == SumFunction([k \in rows(g) |-> db.days[k][c]])
             groups == {place(k) : k \in selected}
  <1> SUFFICES ASSUME ~report.error
               PROVE  /\ DOMAIN report.rows = {group(r) : r \in counted}
                      /\ \A g \in DOMAIN report.rows, c \in Counters :
                           report.rows[g][c] = Owed({r \in counted : group(r) = g}, c)
    BY DEF PeriodIsExact
  <1>1. report = IF ~finished \/ \E g \in groups, c \in Counters : sum(g, c) > MaxInt
                 THEN Failed
                 ELSE [error |-> FALSE,
                       rows |-> [g \in groups |-> [c \in Counters |-> sum(g, c)]]]
    BY DEF periodSnapshot
  <1>2. ASSUME NEW r \in ledger
        PROVE  /\ rowOf[r] \in DOMAIN db.days
               /\ rowOf[r].client = rec[r].entry.client
               /\ place(rowOf[r]) = group(r)
    <2>1. rowOf[r] = [day |-> rec[r].day, client |-> rec[r].entry.client,
                      model |-> rec[r].entry.model]
      BY DEF rowOf, TxInv
    <2>2. rowOf[r] \in DOMAIN db.days
      BY DEF BookInv, Tally
    <2> QED
      BY <2>1, <2>2
  <1>3. \A k \in DOMAIN db.days : \E r \in ledger : k = rowOf[r]
    BY DEF BookInv, Tally
  <1>4. groups = {group(r) : r \in counted}
    <2>1. ASSUME NEW k \in selected PROVE \E r \in counted : place(k) = group(r)
      <3>1. PICK r \in ledger : k = rowOf[r]
        BY <1>3
      <3>2. r \in counted /\ place(k) = group(r)
        <4> HIDE DEF place, group
        <4> QED
          BY <1>2, <3>1
      <3> QED
        BY <3>2
    <2>2. ASSUME NEW r \in counted PROVE \E k \in selected : group(r) = place(k)
      <3>1. rowOf[r] \in selected /\ place(rowOf[r]) = group(r)
        <4> HIDE DEF place, group
        <4> QED
          BY <1>2
      <3> HIDE DEF place, group, selected
      <3> QED
        BY <3>1
    <2> HIDE DEF place, group, selected, counted
    <2> QED
      BY <2>1, <2>2
  <1>5. IsFiniteSet(DOMAIN db.days)
    <2> DEFINE f == [r \in ledger |-> rowOf[r]]
    <2>1. f \in Surjection(ledger, DOMAIN db.days)
      BY <1>2, <1>3 DEF Surjection
    <2> QED
      BY <2>1, FS_Surjection DEF BookInv
  <1>6. ASSUME NEW k \in DOMAIN db.days, NEW c \in Counters
        PROVE  /\ Total(Column(additions, c), {r \in ledger : rowOf[r] = k}) \in Nat
               /\ db.days[k][c] = Cap(Total(Column(additions, c), {r \in ledger : rowOf[r] = k}))
    <2> DEFINE p == {r \in ledger : rowOf[r] = k}
    <2>1. p \in SUBSET ledger
      OBVIOUS
    <2>2. db.days[k][c] = Cap(Total(Column(additions, c), p))
      BY DEF BookInv, Tally
    <2>3. Owed(p, c) = Total(Column(additions, c), p) /\ Owed(p, c) \in Nat
      BY <2>1, OwedIsTotal
    <2> QED
      BY <2>2, <2>3
  <1>7. ASSUME NEW g \in groups, NEW c \in Counters, ~(sum(g, c) > MaxInt)
        PROVE  sum(g, c) = Owed({r \in counted : group(r) = g}, c)
    <2> DEFINE K == rows(g)
               v == [k \in K |-> db.days[k][c]]
               a == Column(additions, c)
               S == {r \in counted : group(r) = g}
    <2>1. K \subseteq DOMAIN db.days /\ IsFiniteSet(K)
      BY <1>5, FS_Subset
    <2>2. DOMAIN v = K /\ \A k \in K : v[k] = db.days[k][c]
      OBVIOUS
    <2>3. {r \in ledger : rowOf[r] \in K} = S
      <3> HIDE DEF place, group
      <3> QED
        BY <1>2
    <2>4. sum(g, c) = SumFunction(v)
      OBVIOUS
    <2>5. IsFiniteSet(ledger) /\ \A r \in ledger : a[r] \in Nat
      BY Counted DEF BookInv
    <2>6. ASSUME NEW k \in K PROVE v[k] = Cap(Total(a, {r \in ledger : rowOf[r] = k}))
      BY <1>6, <2>1, <2>2
    <2>7. ~(SumFunction(v) > MaxInt)
      BY <1>7
    <2>8. SumFunction(v) = Total(a, {r \in ledger : rowOf[r] \in K})
      <3>1. IsFiniteSet(K) /\ DOMAIN v = K
            /\ \A k \in K : v[k] = Cap(Total(a, {r \in ledger : rowOf[r] = k}))
        BY <2>1, <2>2, <2>6
      <3> HIDE DEF K, v, a, sum, report, groups, counted, selected, place, group, rows
      <3> QED
        BY <2>5, <2>7, <3>1, RowsAddUp
    <2>9. Owed(S, c) = Total(a, S)
      <3>1. S \in SUBSET ledger
        OBVIOUS
      <3> HIDE DEF S
      <3> QED
        BY <3>1, OwedIsTotal
    <2> QED
      BY <2>3, <2>4, <2>8, <2>9
  <1> HIDE DEF sum, report
  <1>8. /\ \A g \in groups, c \in Counters : ~(sum(g, c) > MaxInt)
        /\ report.rows = [g \in groups |-> [c \in Counters |-> sum(g, c)]]
    <2> HIDE DEF groups
    <2>1. CASE ~finished \/ \E g \in groups, c \in Counters : sum(g, c) > MaxInt
      BY <1>1, <2>1 DEF Failed
    <2>2. CASE ~(~finished \/ \E g \in groups, c \in Counters : sum(g, c) > MaxInt)
      BY <1>1, <2>2
    <2> QED
      BY <2>1, <2>2
  <1>9. DOMAIN report.rows = groups
        /\ \A g \in groups, c \in Counters : report.rows[g][c] = sum(g, c)
    <2> HIDE DEF groups
    <2> QED
      BY <1>8
  <1>10. \A g \in groups, c \in Counters :
           report.rows[g][c] = Owed({r \in counted : group(r) = g}, c)
    <2> HIDE DEF groups, counted, group
    <2> QED
      BY <1>7, <1>8, <1>9
  <1> HIDE DEF groups, counted, group
  <1> QED
    BY <1>4, <1>9, <1>10

(***************************************************************************)
(* No row of a report is wrong, a report by period is whole or an error,   *)
(* and one by model that is read to its end lacks only what has left the   *)
(* signed range (usage.go:151-226): for any records, any order of commits, *)
(* any failures, crashes and restarts, and for integers of any width.      *)
(* TxInv makes a commit one whole posting, and BookInv says that the       *)
(* tables hold what the ledger adds up to.                                 *)
(***************************************************************************)
THEOREM ReportsExact == Spec => []ReportsAreExact
PROOF
  <1>1. Init => BookInv
    BY EmptyBook DEF Init
  <1>2. TxInv /\ BookInv => ReportsAreExact
    <2> SUFFICES ASSUME TxInv, BookInv PROVE ReportsAreExact
      OBVIOUS
    <2> QED
      BY SnapshotExact, PeriodExact DEF ReportsAreExact
  <1> QED
    BY <1>1, <1>2, TxAlways, BookInductive, PTL DEF Spec
=============================================================================
