------------------------------- MODULE Store -------------------------------
(***************************************************************************)
(* The life of the database through the runs of the program: storage.Open  *)
(* with its migrations, Record and RecordProcesses of every poll, the      *)
(* reports the dashboard asks for meanwhile, Close at the end, and crashes *)
(* anywhere.  database/sql has a single connection (SetMaxOpenConns(1)):   *)
(* whoever uses the database waits for it.                                 *)
(*                                                                         *)
(* A reading is the number of its poll; a process row is that number with  *)
(* the process.  What the rows say is the business of Reports.tla.         *)
(***************************************************************************)
EXTENDS Naturals, FiniteSets

CONSTANTS
  Requests,    \* report requests of the dashboard
  Procs,       \* processes a snapshot may list
  NumColumns,  \* columns added since the first release, 3 in the code
  MaxPolls     \* bound on the polls

ASSUME StoreOK == NumColumns \in Nat /\ MaxPolls \in Nat

VARIABLES
  created,   \* disk: the tables exist
  columns,   \* disk: which of the later columns readings has
  readings,  \* disk: the committed readings
  rows,      \* disk: the committed process rows
  pc,        \* where the program is, "down" when it does not run
  step,      \* the migration Open is at
  poll,      \* number of the last poll begun
  batch,     \* the processes of that poll's snapshot
  inserted,  \* rows of the open transaction
  conn,      \* who has the connection: "none", "monitor" or a request
  rpc,       \* where each request is
  seen,      \* the rows its query got
  stop,      \* the stop channel is closed
  listed,    \* history: the snapshot of each poll
  hidden     \* history: an ALTER of this run failed on a missing column

disk == <<created, columns, readings, rows>>
run == <<pc, step, poll, batch, inserted>>
web == <<rpc, seen>>
vars == <<disk, run, conn, web, stop, listed, hidden>>

Columns == 1..NumColumns
Polls == 1..MaxPolls
Rows == Polls \X Procs
BatchRows(n, procs) == {n} \X procs

(* A database of any release, or none yet.                                 *)
Init ==
  /\ created \in BOOLEAN
  /\ columns \in {1..k : k \in 0..NumColumns}
  /\ ~created => columns = {}
  /\ readings = {} /\ rows = {}
  /\ pc = "down" /\ step = 1 /\ poll = 0 /\ batch = {} /\ inserted = {}
  /\ conn = "none"
  /\ rpc = [r \in Requests |-> "idle"] /\ seen = [r \in Requests |-> {}]
  /\ stop = FALSE
  /\ listed = [n \in Polls |-> {}] /\ hidden = FALSE

-----------------------------------------------------------------------------
(* Start, and storage.Open.  CREATE ... IF NOT EXISTS makes the tables of  *)
(* this release; when it fails the program runs without a store.           *)
Start ==
  /\ pc = "down" /\ poll < MaxPolls
  /\ pc' = "schema"
  /\ UNCHANGED <<disk, step, poll, batch, inserted, conn, web, stop, listed, hidden>>

CreateSchema ==
  /\ pc = "schema"
  /\ pc' = "alter"
  /\ created' = TRUE
  /\ columns' = IF created THEN columns ELSE Columns
  /\ UNCHANGED <<readings, rows, step, poll, batch, inserted, conn, web, stop, listed, hidden>>

SchemaFails ==
  /\ pc = "schema"
  /\ pc' = "nostore"
  /\ UNCHANGED <<disk, step, poll, batch, inserted, conn, web, stop, listed, hidden>>

AlterUntilError ==   \* mistaken: Open leaves the loop at the first error
  /\ pc = "alter" /\ step <= NumColumns
  /\ step' = IF step \in columns THEN NumColumns + 1 ELSE step + 1
  /\ columns' = columns \cup {step}
  /\ UNCHANGED <<created, readings, rows, pc, poll, batch, inserted, conn, web, stop, listed, hidden>>

AlterPastEnd ==   \* mistaken: one round more than there are migrations
  /\ pc = "alter" /\ step <= NumColumns + 1
  /\ step' = step + 1
  /\ columns' = columns \cup {step}
  /\ UNCHANGED <<created, readings, rows, pc, poll, batch, inserted, conn, web, stop, listed, hidden>>

(* ALTER TABLE ADD COLUMN, an error when the column is there already.      *)
Alter ==
  /\ pc = "alter" /\ step <= NumColumns
  /\ step' = step + 1
  /\ columns' = columns \cup {step}
  /\ UNCHANGED <<created, readings, rows, pc, poll, batch, inserted, conn, web, stop, listed, hidden>>

(* It fails for another reason (locked, disk full): ignored all the same.  *)
AlterFails ==
  /\ pc = "alter" /\ step <= NumColumns
  /\ step' = step + 1
  /\ hidden' = (hidden \/ step \notin columns)
  /\ UNCHANGED <<disk, pc, poll, batch, inserted, conn, web, stop, listed>>

Opened ==
  /\ pc = "alter" /\ step > NumColumns
  /\ pc' = "poll"
  /\ UNCHANGED <<disk, step, poll, batch, inserted, conn, web, stop, listed, hidden>>

-----------------------------------------------------------------------------
(* The monitor's poll: Record, then the process snapshot.                  *)
Poll ==
  /\ pc = "poll"
  /\ pc' = "record"
  /\ poll' = poll + 1
  /\ UNCHANGED <<disk, step, batch, inserted, conn, web, stop, listed, hidden>>

Record ==
  /\ pc = "record" /\ conn = "none" /\ columns = Columns
  /\ pc' = "snapshot"
  /\ readings' = readings \cup {poll}
  /\ UNCHANGED <<created, columns, rows, step, poll, batch, inserted, conn, web, stop, listed, hidden>>

(* The disk fails, or the INSERT names a column the table lacks: logged.   *)
RecordFails ==
  /\ pc = "record" /\ conn = "none"
  /\ pc' = "snapshot"
  /\ UNCHANGED <<disk, step, poll, batch, inserted, conn, web, stop, listed, hidden>>

(* TopProcesses; RecordProcesses returns at once when it lists nothing and *)
(* begins a transaction otherwise.                                         *)
Snapshot ==
  /\ pc = "snapshot"
  /\ batch' \in SUBSET Procs
  /\ listed' = [listed EXCEPT ![poll] = batch']
  /\ pc' = IF batch' = {} THEN "wait" ELSE "begin"
  /\ UNCHANGED <<disk, step, poll, inserted, conn, web, stop, hidden>>

Begin ==
  /\ pc = "begin" /\ conn = "none"
  /\ pc' = "insert"
  /\ conn' = "monitor"
  /\ UNCHANGED <<disk, step, poll, batch, inserted, web, stop, listed, hidden>>

BeginFails ==
  /\ pc = "begin" /\ conn = "none"
  /\ pc' = "wait"
  /\ UNCHANGED <<disk, step, poll, batch, inserted, conn, web, stop, listed, hidden>>

InsertAutocommit ==   \* mistaken: s.db.Exec instead of the transaction's statement
  /\ pc = "insert"
  /\ \E p \in batch :
       /\ <<poll, p>> \notin inserted
       /\ inserted' = inserted \cup {<<poll, p>>}
  /\ rows' = rows \cup inserted'
  /\ UNCHANGED <<created, columns, readings, pc, step, poll, batch, conn, web, stop, listed, hidden>>

Insert ==
  /\ pc = "insert"
  /\ \E p \in batch :
       /\ <<poll, p>> \notin inserted
       /\ inserted' = inserted \cup {<<poll, p>>}
  /\ UNCHANGED <<disk, pc, step, poll, batch, conn, web, stop, listed, hidden>>

RollbackForgotten ==   \* mistaken: the error is returned with the transaction open
  /\ pc = "insert"
  /\ pc' = "wait"
  /\ inserted' = {}
  /\ UNCHANGED <<disk, step, poll, batch, conn, web, stop, listed, hidden>>

(* Prepare, an Exec or Commit fails: nothing of the batch stays.           *)
Rollback ==
  /\ pc = "insert"
  /\ pc' = "wait"
  /\ conn' = "none"
  /\ inserted' = {}
  /\ UNCHANGED <<disk, step, poll, batch, web, stop, listed, hidden>>

Commit ==
  /\ pc = "insert" /\ inserted = BatchRows(poll, batch)
  /\ pc' = "wait"
  /\ rows' = rows \cup inserted
  /\ conn' = "none"
  /\ inserted' = {}
  /\ UNCHANGED <<created, columns, readings, step, poll, batch, web, stop, listed, hidden>>

(* The select of Run: the timer, or stop and the deferred Close.           *)
Timer ==
  /\ pc = "wait" /\ ~stop /\ poll < MaxPolls
  /\ pc' = "poll"
  /\ UNCHANGED <<disk, step, poll, batch, inserted, conn, web, stop, listed, hidden>>

Close ==
  /\ pc \in {"wait", "nostore"} /\ stop
  /\ pc' = "closed"
  /\ UNCHANGED <<disk, step, poll, batch, inserted, conn, web, stop, listed, hidden>>

CloseStop ==
  /\ pc \notin {"down", "closed"} /\ ~stop
  /\ stop' = TRUE
  /\ UNCHANGED <<disk, run, conn, web, listed, hidden>>

(* The process ends: after Close, or by a crash anywhere.  The disk stays. *)
Gone ==
  /\ pc # "down"
  /\ pc' = "down" /\ step' = 1 /\ batch' = {} /\ inserted' = {}
  /\ conn' = "none"
  /\ rpc' = [r \in Requests |-> "idle"] /\ seen' = [r \in Requests |-> {}]
  /\ stop' = FALSE /\ hidden' = FALSE
  /\ UNCHANGED <<disk, poll, listed>>

(* The bound on the polls, which no run is started beyond.                 *)
OutOfPolls == pc = "down" /\ poll = MaxPolls /\ UNCHANGED vars

-----------------------------------------------------------------------------
(* A report.  The web server runs from the end of Open until the process   *)
(* ends, also after Close.  Once the query has the connection nobody       *)
(* writes; the rows are read to the end before anything is sent.           *)
Storing == pc \in {"poll", "record", "snapshot", "begin", "insert", "wait"}

Ask(r) ==
  /\ rpc[r] = "idle" /\ Storing
  /\ rpc' = [rpc EXCEPT ![r] = "waiting"]
  /\ UNCHANGED <<disk, run, conn, seen, stop, listed, hidden>>

Query(r) ==
  /\ rpc[r] = "waiting" /\ conn = "none" /\ Storing
  /\ rpc' = [rpc EXCEPT ![r] = "reading"]
  /\ conn' = r
  /\ seen' = [seen EXCEPT ![r] = rows]
  /\ UNCHANGED <<disk, run, stop, listed, hidden>>

QueryRefused(r) ==
  /\ rpc[r] = "waiting" /\ pc = "closed"
  /\ rpc' = [rpc EXCEPT ![r] = "idle"]
  /\ UNCHANGED <<disk, run, conn, seen, stop, listed, hidden>>

RowsLeftOpen(r) ==   \* mistaken: no rows.Close
  /\ rpc[r] = "reading"
  /\ rpc' = [rpc EXCEPT ![r] = "idle"]
  /\ UNCHANGED <<disk, run, conn, seen, stop, listed, hidden>>

RowsClosed(r) ==
  /\ rpc[r] = "reading"
  /\ rpc' = [rpc EXCEPT ![r] = "idle"]
  /\ conn' = "none"
  /\ UNCHANGED <<disk, run, seen, stop, listed, hidden>>

-----------------------------------------------------------------------------
Program ==
  \/ CreateSchema \/ SchemaFails \/ Alter \/ AlterFails \/ Opened
  \/ Poll \/ Snapshot \/ Insert \/ Rollback \/ Commit \/ Timer \/ Close

Request(r) == Query(r) \/ QueryRefused(r) \/ RowsClosed(r)

Next ==
  \/ Start \/ Program \/ Record \/ RecordFails \/ Begin \/ BeginFails \/ CloseStop \/ Gone \/ OutOfPolls
  \/ \E r \in Requests : Ask(r) \/ Request(r)

(* Every goroutine is scheduled; the connection is handed to one of those  *)
(* who wait for it, each of whom gets it if it is free often enough.       *)
Fairness ==
  /\ WF_vars(Program)
  /\ SF_vars(Record \/ RecordFails) /\ SF_vars(Begin \/ BeginFails)
  /\ \A r \in Requests : SF_vars(Request(r))

Spec == Init /\ [][Next]_vars
FairSpec == Spec /\ Fairness

-----------------------------------------------------------------------------
(* Types of the database's, the program's and the requests' state.         *)
TypeOK ==
  /\ created \in BOOLEAN /\ columns \subseteq Columns
  /\ readings \subseteq Polls /\ rows \subseteq Rows
  /\ pc \in {"down", "schema", "alter", "nostore", "poll", "record", "snapshot",
             "begin", "insert", "wait", "closed"}
  /\ step \in 1..NumColumns + 1 /\ poll \in 0..MaxPolls
  /\ batch \subseteq Procs /\ inserted \subseteq Rows
  /\ conn \in {"none", "monitor"} \cup Requests
  /\ rpc \in [Requests -> {"idle", "waiting", "reading"}]
  /\ seen \in [Requests -> SUBSET Rows]
  /\ stop \in BOOLEAN /\ listed \in [Polls -> SUBSET Procs] /\ hidden \in BOOLEAN

(* A snapshot is stored and shown whole or not at all, whichever insert    *)
(* failed, whenever the program crashed and whoever read meanwhile.        *)
Whole(stored) ==
  \A n \in Polls : stored \cap BatchRows(n, Procs) \in {{}, BatchRows(n, listed[n])}

SnapshotsWhole == Whole(rows) /\ \A r \in Requests : Whole(seen[r])

(* "applied via idempotent ALTER TABLE" (storage.go:46): once Open is      *)
(* through, the table has every column, from whatever release and however  *)
(* often a crash cut the migrations short; unless an ALTER failed for      *)
(* another reason than a column that is there already.                     *)
SchemaComplete == Storing /\ ~hidden => columns = Columns

(* Every report is answered: nobody keeps the one connection, neither a    *)
(* failed insert nor a report.                                             *)
ReportsAnswered == \A r \in Requests : rpc[r] = "waiting" ~> rpc[r] # "waiting"

(* Closing stop ends the program whatever the reports do with the          *)
(* connection, its Record and its snapshot need.                           *)
StopCloses == stop ~> ~stop \/ pc = "closed"
=============================================================================
