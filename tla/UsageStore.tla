----------------------------- MODULE UsageStore -----------------------------
(***************************************************************************)
(* internal/gateway/usage.go: what happens to the usage record of a        *)
(* request on its way into the database, and what the reports make of it.  *)
(*                                                                         *)
(* There is one database connection (SetMaxOpenConns(1)).  A recorder, the *)
(* last step of a proxied request, holds it for its transaction; a report  *)
(* holds it while it reads.  The process may end at any moment, in         *)
(* particular between two statements, and start again on the same file.    *)
(***************************************************************************)
EXTENDS AccountBook

CONSTANT Recorders  \* calls of recordAt

VARIABLES
  rec,      \* per recorder, the local variables of recordAt
  tx,       \* the tables as the open transaction sees them
  conn,     \* who holds the connection
  process,  \* "up", "closed" (usageStore.close has run) or "down"
  today,    \* the UTC day
  ledger    \* history: the recorders whose transaction was committed

vars == <<rec, db, tx, conn, process, durable, today, ledger>>

Free == "free"
Report == "report"

ASSUME RecordersAssumption == Free \notin Recorders /\ Report \notin Recorders

NoCall == [pc |-> "idle", day |-> 0, entry |-> << >>]

Init ==
  /\ rec = [r \in Recorders |-> NoCall]
  /\ db = Empty
  /\ tx = Empty
  /\ conn = Free
  /\ process = "up"
  /\ durable \in BOOLEAN
  /\ today = 0
  /\ ledger = {}

-----------------------------------------------------------------------------
Goto(r, pc) == rec' = [rec EXCEPT ![r].pc = pc]

(* record: the time is taken before the connection is waited for. *)
Record(r, e) ==
  /\ rec[r].pc = "idle"
  /\ process # "down"
  /\ rec' = [rec EXCEPT ![r] = [pc |-> "begin", day |-> today, entry |-> e]]
  /\ UNCHANGED <<db, tx, conn, process, durable, today, ledger>>

BeginTx(r) ==
  /\ rec[r].pc = "begin"
  /\ process = "up"
  /\ conn = Free
  /\ conn' = r
  /\ tx' = db
  /\ Goto(r, "models")
  /\ UNCHANGED <<db, process, durable, today, ledger>>

(* Mutant: the wait for the connection has no timeout. *)
BeginFailsClosed(r) ==
  /\ rec[r].pc = "begin"
  /\ process = "closed"
  /\ Goto(r, "lost")
  /\ UNCHANGED <<db, tx, conn, process, durable, today, ledger>>

(* The five seconds are over, or the database is closed. *)
BeginFails(r) ==
  /\ rec[r].pc = "begin"
  /\ Goto(r, "lost")
  /\ UNCHANGED <<db, tx, conn, process, durable, today, ledger>>

(* Mutant: the statement runs outside of the transaction. *)
UpsertModelAtOnce(r) ==
  /\ rec[r].pc = "models"
  /\ Acceptable(rec[r].entry)
  /\ tx' = PostModel(tx, rec[r].entry, rec[r].day)
  /\ db' = tx'
  /\ Goto(r, "days")
  /\ UNCHANGED <<conn, process, durable, today, ledger>>

UpsertModel(r) ==
  /\ rec[r].pc = "models"
  /\ Acceptable(rec[r].entry)
  /\ tx' = PostModel(tx, rec[r].entry, rec[r].day)
  /\ Goto(r, "days")
  /\ UNCHANGED <<db, conn, process, durable, today, ledger>>

UpsertDay(r) ==
  /\ rec[r].pc = "days"
  /\ tx' = PostDay(tx, rec[r].entry, rec[r].day)
  /\ Goto(r, "commit")
  /\ UNCHANGED <<db, conn, process, durable, today, ledger>>

Commit(r) ==
  /\ rec[r].pc = "commit"
  /\ db' = tx
  /\ conn' = Free
  /\ ledger' = ledger \cup {r}
  /\ Goto(r, "done")
  /\ UNCHANGED <<tx, process, durable, today>>

(* A statement or the commit fails, for its arguments, for the five seconds *)
(* or for the disk: the deferred Rollback.                                  *)
Fail(r) ==
  /\ rec[r].pc \in {"models", "days", "commit"}
  /\ tx' = db
  /\ conn' = Free
  /\ Goto(r, "lost")
  /\ UNCHANGED <<db, process, durable, today, ledger>>

(* A report takes the connection and gives it back; what it reads is below. *)
ReportBegins ==
  /\ process = "up"
  /\ conn = Free
  /\ conn' = Report
  /\ UNCHANGED <<rec, db, tx, process, durable, today, ledger>>

ReportEnds ==
  /\ conn = Report
  /\ conn' = Free
  /\ UNCHANGED <<rec, db, tx, process, durable, today, ledger>>

close ==
  /\ process = "up"
  /\ process' = "closed"
  /\ UNCHANGED <<rec, db, tx, conn, durable, today, ledger>>

(* The process ends, in order or not; an in-memory database goes with it. *)
Exit ==
  /\ process # "down"
  /\ process' = "down"
  /\ rec' = [r \in Recorders |->
               IF rec[r].pc \in {"idle", "done"} THEN rec[r] ELSE [rec[r] EXCEPT !.pc = "lost"]]
  /\ conn' = Free
  /\ db' = IF durable THEN db ELSE Empty
  /\ tx' = db'
  /\ ledger' = IF durable THEN ledger ELSE {}
  /\ UNCHANGED <<durable, today>>

(* newUsageStore: the tables are created if they do not exist. *)
newUsageStore ==
  /\ process = "down"
  /\ process' = "up"
  /\ UNCHANGED <<rec, db, tx, conn, durable, today, ledger>>

Midnight ==
  /\ today < LastDay
  /\ today' = today + 1
  /\ UNCHANGED <<rec, db, tx, conn, process, durable, ledger>>

recordAt(r) ==
  BeginTx(r) \/ BeginFails(r) \/ UpsertModel(r) \/ UpsertDay(r) \/ Commit(r) \/ Fail(r)

Next ==
  \/ \E r \in Recorders, e \in Entries : Record(r, e)
  \/ \E r \in Recorders : recordAt(r)
  \/ ReportBegins \/ ReportEnds
  \/ close \/ Exit \/ newUsageStore
  \/ Midnight

Spec == Init /\ [][Next]_vars

(* Every statement is bound to a five-second context: it ends or fails. *)
FairSpec ==
  /\ Spec
  /\ \A r \in Recorders : WF_vars(recordAt(r))
  /\ WF_vars(ReportEnds)

-----------------------------------------------------------------------------
(* What recorders S add up to, in numbers of any size. *)
Owed(S, c) == SumFunction([r \in S |-> Increment(rec[r].entry)[c]])

Of(m) == {r \in ledger : rec[r].entry.model = m}

(***************************************************************************)
(* recordAt, with its connection, its transaction and all the ways to      *)
(* fail, implements the account book: the tables change by one whole       *)
(* posting at a time or not at all, and a file loses nothing.              *)
(***************************************************************************)
ImplementsBook == BookSpec

(* A report without an error has a row for every group of records that is   *)
(* asked for, with what they add up to.                                     *)
PeriodIsExact(period, client, finished) ==
  LET counted == {r \in ledger : client \in {"", rec[r].entry.client}}
      report == periodSnapshot(period, client, finished)
      group(r) == <<periodExpression(period, rec[r].day), rec[r].entry.client,
                    rec[r].entry.model>>
  IN  ~report.error =>
        /\ DOMAIN report.rows = {group(r) : r \in counted}
        /\ \A g \in DOMAIN report.rows, c \in Counters :
             report.rows[g][c] = Owed({r \in counted : group(r) = g}, c)

(***************************************************************************)
(* No row of a report is wrong: it counts every record that was committed, *)
(* once, and none that was rolled back or lost with the process, also by   *)
(* day, by month and for one client; the last request shown is one that    *)
(* was counted.  A report by period is whole or an error.  One by model    *)
(* lacks the models whose sums have left the signed range, and, if the     *)
(* query or the iteration fails, any others: that is only logged           *)
(* (usage.go:158, 176), and the client is answered 200 all the same.       *)
(***************************************************************************)
ReportsAreExact ==
  /\ \A read \in SUBSET DOMAIN db.models :
       LET report == snapshot(read) IN
       \A m \in DOMAIN report :
         /\ \A c \in Counters : report[m][c] = Owed(Of(m), c)
         /\ \E r \in Of(m) : db.last[m] = [day |-> rec[r].day, status |-> rec[r].entry.status]
  /\ \A m \in {rec[r].entry.model : r \in ledger} :
       (\A c \in Counters : Owed(Of(m), c) <= MaxInt) =>
         m \in DOMAIN snapshot(DOMAIN db.models)
  /\ \A client \in {""} \cup {e.client : e \in Entries}, period \in {"day", "month"},
        finished \in BOOLEAN : PeriodIsExact(period, client, finished)

(***************************************************************************)
(* total = in + out is computed modulo 2^64 (usage.go:268); a total that   *)
(* wrapped around is never stored, because one of its parts is then too    *)
(* large to be bound and the whole record is dropped.                      *)
(***************************************************************************)
NoWrappedTotal ==
  \A r \in ledger :
    LET t == TokensOf(rec[r].entry.best) IN
    rec[r].entry.best.total = 0 => t.total = t.input + t.output

(***************************************************************************)
(* Accounting never holds a request for good: recordAt returns, however    *)
(* busy the connection is with other records and with reports.             *)
(***************************************************************************)
RecordsReturn ==
  \A r \in Recorders : rec[r].pc = "begin" ~> rec[r].pc \in {"done", "lost"}
=============================================================================
