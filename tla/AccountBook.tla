---------------------------- MODULE AccountBook -----------------------------
(***************************************************************************)
(* internal/gateway/usage.go: the two tables as their readers understand   *)
(* them.  A request is posted to both or to neither, in one step, and what *)
(* was posted stays; a database in memory is lost with the process.        *)
(* UsageStore shows how the code keeps this promise.                       *)
(*                                                                         *)
(* External: database/sql and SQLite.  An unsigned value with its high bit *)
(* set cannot be bound to a statement; a sum of two integers that leaves   *)
(* the signed range becomes REAL and stays so, and a REAL cannot be        *)
(* scanned into a uint64; SUM over integers that leaves the range fails.   *)
(* Numbers are as wide as MaxInt says: MaxInt stands for 2^63 - 1.         *)
(***************************************************************************)
EXTENDS Integers, FiniteSets, Functions

CONSTANTS
  Entries,    \* what recordAt may be called with: client, model, status, best
  MaxInt,     \* the largest signed integer
  LastDay,    \* bound on the days that pass
  Month(_)    \* the month of a day

ASSUME BookAssumption ==
  /\ MaxInt \in Nat
  /\ LastDay \in Nat
  /\ \A e \in Entries :
       e.best \in [prompt: Nat, completion: Nat, input: Nat, output: Nat, total: Nat]

VARIABLES
  db,      \* the committed tables: models with last, and days
  durable  \* usage_db names a file

Unsigned == 2 * (MaxInt + 1)

(* in, out and total of the usage object, as extractUsage returns them. *)
TokensOf(best) ==
  LET in  == IF best.input = 0 THEN best.prompt ELSE best.input
      out == IF best.output = 0 THEN best.completion ELSE best.output
  IN  [input |-> in, output |-> out,
       total |-> IF best.total = 0 THEN (in + out) % Unsigned ELSE best.total]

(* The VALUES of both statements. *)
Increment(e) ==
  LET t == TokensOf(e.best) IN
  [requests |-> 1, errors |-> IF e.status >= 400 THEN 1 ELSE 0,
   input |-> t.input, output |-> t.output, total |-> t.total]

Counters == {"requests", "errors", "input", "output", "total"}

(* Mutant: any 64 bits are handed to the database. *)
BindableAny(n) == TRUE

Bindable(n) == n <= MaxInt

(* Mutant: sums stick at the largest integer. *)
PlusSticking(a, b) == IF a + b <= MaxInt THEN a + b ELSE MaxInt

(* Real stands for every value that has left the signed range. *)
Real == MaxInt + 1
Plus(a, b) == IF a + b <= MaxInt THEN a + b ELSE Real

(* INSERT ... ON CONFLICT DO UPDATE. *)
Upsert(table, key, add) ==
  [k \in DOMAIN table \cup {key} |->
     IF k # key THEN table[k]
     ELSE IF key \in DOMAIN table
          THEN [c \in Counters |-> Plus(table[key][c], add[c])]
          ELSE add]

Empty == [models |-> << >>, last |-> << >>, days |-> << >>]

(* The first statement of recordAt, for an entry of a day. *)
PostModel(t, e, day) ==
  [t EXCEPT !.models = Upsert(@, e.model, Increment(e)),
            !.last = [m \in DOMAIN @ \cup {e.model} |->
                        IF m = e.model THEN [day |-> day, status |-> e.status] ELSE @[m]]]

(* The second. *)
PostDay(t, e, day) ==
  [t EXCEPT !.days = Upsert(@, [day |-> day, client |-> e.client, model |-> e.model],
                            Increment(e))]

Acceptable(e) == \A c \in Counters : Bindable(Increment(e)[c])

-----------------------------------------------------------------------------
BookInit == db = Empty /\ durable \in BOOLEAN

Post(e, day) ==
  /\ Acceptable(e)
  /\ db' = PostDay(PostModel(db, e, day), e, day)
  /\ UNCHANGED durable

Lose == ~durable /\ db' = Empty /\ UNCHANGED durable

BookNext == Lose \/ \E e \in Entries, day \in 0 .. LastDay : Post(e, day)

BookSpec == BookInit /\ [][BookNext]_<<db, durable>>

-----------------------------------------------------------------------------
(* snapshot, which has no error result.  read are the rows that Next comes  *)
(* to: all of them, none if the query fails, some if the iteration does     *)
(* (which, is left open).  A row that cannot be scanned is left out too.    *)
snapshot(read) ==
  [m \in {x \in read : \A c \in Counters : db.models[x][c] <= MaxInt} |-> db.models[m]]

Failed == [error |-> TRUE, rows |-> << >>]

(* What a daily row is grouped by. *)
periodExpression(period, day) == IF period = "month" THEN Month(day) ELSE day

(* periodSnapshot: one row that overflows fails the whole report, and so    *)
(* does a query or an iteration that is not finished; "" asks for every     *)
(* client.                                                                  *)
periodSnapshot(period, client, finished) ==
  LET selected == {k \in DOMAIN db.days : client \in {"", k.client}}
      group(k) == <<periodExpression(period, k.day), k.client, k.model>>
      sum(g, c) == SumFunction([k \in {x \in selected : group(x) = g} |-> db.days[k][c]])
      groups == {group(k) : k \in selected}
  IN  IF ~finished \/ \E g \in groups, c \in Counters : sum(g, c) > MaxInt
      THEN Failed
      ELSE [error |-> FALSE, rows |-> [g \in groups |-> [c \in Counters |-> sum(g, c)]]]
=============================================================================
