--------------------------- MODULE ProgramProofs ---------------------------
(***************************************************************************)
(* Proofs about what main.go brings up: the configuration (Launch.tla), of *)
(* any programs, keys and files, and the database (Store.tla), with any    *)
(* number of reports, processes, migrations and polls.  For Launch: its    *)
(* types, and that the configuration in force is one that was meant.  For  *)
(* Store: its types, that Open completes the schema of every release, and  *)
(* that process snapshots are stored and shown whole.                      *)
(***************************************************************************)
EXTENDS Launch, Store, TLAPS

(* What Load makes of a file is a configuration or its error.              *)
LEMMA LoadType ==
  ASSUME NEW f \in Files
  PROVE  Load(f) \in Configs \cup {Failed}
  BY DEF Configs

(* An unreadable file is as good as none.                                  *)
LEMMA DefaultType == Default \in Configs
<1>1. Load(Absent) = Default
  BY DEF Load
<1>2. Default # Failed
  BY LaunchOK DEF LaunchOK
<1> QED
  BY <1>1, <1>2 DEF Configs, Files

LEMMA SoundLoad ==
  ASSUME NEW f \in Files, Load(f) # Failed, f # Absent
  PROVE  f.sound /\ Load(f) = Overlay(f)
  BY DEF Load

(* No configuration is mistaken for the lack of one.                       *)
LEMMA ConfigsReal == None \notin Configs
<1> SUFFICES ASSUME NEW f \in Files, Load(f) # Failed
             PROVE  Load(f) # None
  BY DEF Configs
<1>1. CASE f = Absent
  BY <1>1, LaunchOK DEF LaunchOK, Load
<1>2. CASE f # Absent
  <2>1. f.sound /\ Load(f) = Overlay(f)
    BY <1>2, SoundLoad
  <2>2. f \in Edits \cup {Saved}
    BY <1>2, <2>1 DEF Files, Torn
  <2> QED
    BY <2>1, <2>2, LaunchOK DEF LaunchOK
<1> QED
  BY <1>1, <1>2

LEMMA ReadType ==
  ASSUME LaunchTypeOK
  PROVE  Read \in Configs \cup {Failed} /\ InForce \in Configs
<1>1. Read \in Configs \cup {Failed}
  BY LoadType DEF LaunchTypeOK, Read
<1> QED
  BY <1>1, DefaultType DEF InForce

-----------------------------------------------------------------------------
(* A step that writes the file.                                            *)
LEMMA WrittenType ==
  ASSUME LaunchTypeOK, NEW f \in Files, Written(f)
  PROVE  /\ file' \in Files /\ held' \in BOOLEAN
         /\ changed' \in [Programs -> BOOLEAN]
         /\ written' \subseteq {g \in Edits \cup {Saved} : g.sound}
         /\ UNCHANGED program
<1>1. f # Absent /\ f.sound => f \in {g \in Edits \cup {Saved} : g.sound}
  BY DEF Files, Torn
<1> QED
  BY <1>1 DEF LaunchTypeOK, Written

LEMMA LaunchInitType == LaunchInit => LaunchTypeOK
<1>1. Edits \cup {Absent} \subseteq Files
  BY DEF Files
<1> QED
  BY <1>1 DEF LaunchInit, LaunchTypeOK

LEMMA LaunchNextType == LaunchTypeOK /\ [LaunchNext]_launchVars => LaunchTypeOK'
<1> SUFFICES ASSUME LaunchTypeOK, [LaunchNext]_launchVars
             PROVE  LaunchTypeOK'
  OBVIOUS
<1>1. CASE SaveOpens
  <2>1. Torn \in Files /\ Torn # Absent
    BY LaunchOK DEF LaunchOK, Files
  <2> QED
    BY <1>1, <2>1, WrittenType DEF SaveOpens, Written, LaunchTypeOK, program
<1>2. CASE SaveWrites
  <2>1. PICK f \in {Saved, Torn} : Written(f)
    BY <1>2 DEF SaveWrites
  <2>2. f \in Files
    BY DEF Files
  <2> QED
    BY <1>2, <2>1, <2>2, WrittenType DEF SaveWrites, LaunchTypeOK, program
<1>3. CASE SaveDies
  BY <1>3 DEF SaveDies, LaunchTypeOK, program
<1>4. CASE Edit
  <2>1. PICK f \in (Edits \cup {Absent}) \ {file} : (saving => f # Absent) /\ Written(f)
    BY <1>4 DEF Edit
  <2>2. f \in Files
    BY DEF Files
  <2>3. saving' => file' # Absent /\ ~held'
    BY <1>4, <2>1 DEF Edit, Written
  <2> QED
    BY <1>4, <2>1, <2>2, <2>3, WrittenType DEF Edit, LaunchTypeOK, program
<1>5. CASE Hold
  BY <1>5 DEF Hold, LaunchTypeOK, program
<1>6. CASE Release
  BY <1>6 DEF Release, LaunchTypeOK, program
<1>7. ASSUME NEW p \in Programs, StartInTerminal(p)
      PROVE  LaunchTypeOK'
  BY <1>7, ReadType, ConfigsReal DEF StartInTerminal, LaunchTypeOK
<1>8. ASSUME NEW p \in Programs, StartAsService(p)
      PROVE  LaunchTypeOK'
  BY <1>8 DEF StartAsService, LaunchTypeOK
<1>9. ASSUME NEW p \in Programs, Run(p)
      PROVE  LaunchTypeOK'
  BY <1>9, ReadType, ConfigsReal DEF Run, LaunchTypeOK
<1>10. ASSUME NEW p \in Programs, End(p)
      PROVE  LaunchTypeOK'
  BY <1>10 DEF End, LaunchTypeOK
<1>11. CASE UNCHANGED launchVars
  BY <1>11 DEF launchVars, program, LaunchTypeOK
<1> QED
  BY <1>1, <1>2, <1>3, <1>4, <1>5, <1>6, <1>7, <1>8, <1>9, <1>10, <1>11 DEF LaunchNext

(* The state of the start keeps its types; a file being saved is there and *)
(* nobody else holds it.                                                   *)
THEOREM LaunchTypes == LaunchSpec => []LaunchTypeOK
  BY LaunchInitType, LaunchNextType, PTL DEF LaunchSpec

-----------------------------------------------------------------------------
(* The invariant behind it: a sound file has been noted as written; a      *)
(* program that has printed and saw no change would read the same again.   *)
SoundNoted == file # Absent /\ file.sound => file \in written

PrintedHolds ==
  \A p \in Programs :
    /\ stage[p] \in {"off", "run"} => shown[p] = None
    /\ stage[p] = "printed" /\ ~changed[p] => (held => file = Absent) /\ shown[p] = Load(file)

LaunchInv == SoundNoted /\ PrintedHolds /\ ConfigInForce

LEMMA LaunchInitInv == LaunchInit => LaunchInv
  BY DEF LaunchInit, LaunchInv, SoundNoted, PrintedHolds, ConfigInForce, NeverPart, AsPrinted

LEMMA WrittenInv ==
  ASSUME LaunchTypeOK, LaunchInv, NEW f \in Files, Written(f)
  PROVE  LaunchInv'
<1> USE DEF LaunchInv, ConfigInForce
<1>1. written \subseteq written'
  BY DEF Written
<1>2. SoundNoted'
  BY DEF Written, SoundNoted
<1>3. PrintedHolds'
  BY DEF Written, PrintedHolds, program
<1>4. NeverPart'
  BY <1>1 DEF Written, NeverPart, program
<1>5. AsPrinted'
  BY DEF Written, AsPrinted, program
<1> QED
  BY <1>2, <1>3, <1>4, <1>5

(* What run reads is nobody's part.                                        *)
LEMMA InForceWhole ==
  ASSUME LaunchTypeOK, SoundNoted
  PROVE  InForce \in {Default} \cup {Overlay(f) : f \in written}
<1>1. CASE Read = Failed
  BY <1>1 DEF InForce
<1>2. CASE Read # Failed
  <2>1. Read = Load(file) /\ file \in Files
    BY <1>2 DEF Read, LaunchTypeOK
  <2>2. CASE file = Absent
    BY <1>2, <2>1, <2>2 DEF InForce, Load
  <2>3. CASE file # Absent
    <3>1. file.sound /\ Load(file) = Overlay(file)
      BY <1>2, <2>1, <2>3, SoundLoad
    <3> QED
      BY <1>2, <2>1, <2>3, <3>1 DEF InForce, SoundNoted
  <2> QED
    BY <2>2, <2>3
<1> QED
  BY <1>1, <1>2

LEMMA LaunchNextInv == LaunchTypeOK /\ LaunchInv /\ [LaunchNext]_launchVars => LaunchInv'
<1> SUFFICES ASSUME LaunchTypeOK, LaunchInv, [LaunchNext]_launchVars
             PROVE  LaunchInv'
  OBVIOUS
<1>1. CASE SaveOpens
  BY <1>1, WrittenInv DEF SaveOpens, Files
<1>2. CASE SaveWrites
  BY <1>2, WrittenInv DEF SaveWrites, Files
<1>3. CASE SaveDies \/ UNCHANGED launchVars
  BY <1>3 DEF SaveDies, launchVars, program, LaunchInv, SoundNoted, PrintedHolds,
     ConfigInForce, NeverPart, AsPrinted, Load
<1>4. CASE Edit
  BY <1>4, WrittenInv DEF Edit, Files
<1>5. CASE Hold \/ Release
  <2> USE DEF LaunchInv, ConfigInForce
  <2>1. SoundNoted' /\ NeverPart'
    BY <1>5 DEF Hold, Release, program, SoundNoted, NeverPart
  <2>2. CASE Hold
    BY <2>1, <2>2 DEF Hold, program, PrintedHolds, AsPrinted
  <2>3. CASE Release
    BY <2>1, <2>3 DEF Release, program, PrintedHolds, AsPrinted, Load
  <2> QED
    BY <1>5, <2>2, <2>3
<1>6. ASSUME NEW p \in Programs, StartInTerminal(p)
      PROVE  LaunchInv'
  <2> USE <1>6 DEF StartInTerminal, LaunchInv, ConfigInForce
  <2>1. Read = Load(file)
    BY DEF Read
  <2>2. SoundNoted' /\ NeverPart'
    BY DEF SoundNoted, NeverPart
  <2>3. PrintedHolds'
    <3>1. held => file = Absent
      BY DEF Read
    <3>2. Load(file)' = Load(file)
      BY DEF Load
    <3> QED
      BY <2>1, <3>1, <3>2 DEF LaunchTypeOK, PrintedHolds
  <2>4. AsPrinted'
    BY DEF LaunchTypeOK, AsPrinted
  <2> QED
    BY <2>2, <2>3, <2>4
<1>7. ASSUME NEW p \in Programs, StartAsService(p)
      PROVE  LaunchInv'
  BY <1>7 DEF StartAsService, LaunchTypeOK, LaunchInv, SoundNoted, PrintedHolds,
     ConfigInForce, NeverPart, AsPrinted, Load
<1>8. ASSUME NEW p \in Programs, Run(p)
      PROVE  LaunchInv'
  <2>1. InForce \in {Default} \cup {Overlay(f) : f \in written}
    BY InForceWhole DEF LaunchInv
  <2>2. NeverPart'
    BY <1>8, <2>1 DEF Run, LaunchTypeOK, LaunchInv, ConfigInForce, NeverPart
  <2>3. ASSUME shown[p] # None, ~changed[p]
        PROVE  InForce = shown[p]
    <3>1. shown[p] = Load(file) /\ (held => file = Absent)
      BY <1>8, <2>3 DEF Run, LaunchInv, PrintedHolds
    <3>2. shown[p] # Failed
      BY <2>3 DEF LaunchTypeOK, Configs
    <3> QED
      BY <3>1, <3>2 DEF InForce, Read
  <2>4. AsPrinted'
    BY <1>8, <2>3 DEF Run, LaunchTypeOK, LaunchInv, ConfigInForce, AsPrinted
  <2>5. SoundNoted' /\ PrintedHolds'
    BY <1>8 DEF Run, LaunchTypeOK, LaunchInv, SoundNoted, PrintedHolds, Load
  <2> QED
    BY <2>2, <2>4, <2>5 DEF LaunchInv, ConfigInForce
<1>9. ASSUME NEW p \in Programs, End(p)
      PROVE  LaunchInv'
  BY <1>9 DEF End, LaunchTypeOK, LaunchInv, SoundNoted, PrintedHolds,
     ConfigInForce, NeverPart, AsPrinted, Load
<1> QED
  BY <1>1, <1>2, <1>3, <1>4, <1>5, <1>6, <1>7, <1>8, <1>9 DEF LaunchNext

(* Saves in progress, crashes, slips and files held open notwithstanding,  *)
(* the monitor runs with a whole configuration, in a terminal with the one *)
(* it printed if nobody touched the file since.                            *)
THEOREM MeantConfiguration == LaunchSpec => []ConfigInForce
<1>1. LaunchTypeOK /\ LaunchInv /\ [LaunchNext]_launchVars => LaunchInv'
  BY LaunchNextInv
<1>2. LaunchInv => ConfigInForce
  BY DEF LaunchInv
<1> QED
  BY <1>1, <1>2, LaunchInitInv, LaunchTypes, PTL DEF LaunchSpec

-----------------------------------------------------------------------------
(* The database.  Where the polls stand: what is yet to poll may, what has *)
(* polled did.                                                             *)
PollInv ==
  /\ pc \in {"schema", "alter", "poll"} => poll < MaxPolls
  /\ pc \in {"record", "snapshot", "begin", "insert"} => poll \in Polls

Typed == TypeOK /\ PollInv

LEMMA InitTypes == Init => Typed
<1> USE StoreOK DEF StoreOK
<1> SUFFICES ASSUME Init
             PROVE  Typed
  OBVIOUS
<1>1. columns \subseteq Columns
  BY DEF Init, Columns
<1>2. step \in 1..NumColumns + 1 /\ poll \in 0..MaxPolls
  BY DEF Init
<1> QED
  BY <1>1, <1>2 DEF Init, Typed, TypeOK, PollInv

-----------------------------------------------------------------------------
(* A step of Open, a poll or a report keeps the types.                     *)
LEMMA OpenTypes ==
  ASSUME Typed, Start \/ CreateSchema \/ SchemaFails \/ Alter \/ AlterFails \/ Opened
  PROVE  Typed'
<1> USE StoreOK DEF StoreOK, Typed, TypeOK, PollInv, disk, run, web
<1>1. CASE Start
  BY <1>1 DEF Start
<1>2. CASE CreateSchema
  BY <1>2 DEF CreateSchema
<1>3. CASE SchemaFails
  BY <1>3 DEF SchemaFails
<1>4. CASE Alter
  <2>1. step \in Columns /\ step' \in 1..NumColumns + 1
    BY <1>4 DEF Alter, Columns
  <2> QED
    BY <1>4, <2>1 DEF Alter
<1>5. CASE AlterFails
  <2>1. step' \in 1..NumColumns + 1 /\ hidden' \in BOOLEAN
    BY <1>5 DEF AlterFails
  <2> QED
    BY <1>5, <2>1 DEF AlterFails
<1>6. CASE Opened
  BY <1>6 DEF Opened
<1> QED
  BY <1>1, <1>2, <1>3, <1>4, <1>5, <1>6

LEMMA RecordTypes ==
  ASSUME Typed, Poll \/ Record \/ RecordFails \/ Timer \/ Close \/ CloseStop
  PROVE  Typed'
<1> USE StoreOK DEF StoreOK, Typed, TypeOK, PollInv, disk, run, web
<1>1. CASE Poll
  <2>1. poll' \in Polls
    BY <1>1 DEF Poll, Polls
  <2> QED
    BY <1>1, <2>1 DEF Poll, Polls
<1>2. CASE Record
  BY <1>2 DEF Record
<1>3. CASE RecordFails
  BY <1>3 DEF RecordFails
<1>4. CASE Timer
  BY <1>4 DEF Timer
<1>5. CASE Close
  BY <1>5 DEF Close
<1>6. CASE CloseStop
  BY <1>6 DEF CloseStop
<1> QED
  BY <1>1, <1>2, <1>3, <1>4, <1>5, <1>6

LEMMA SnapshotTypes ==
  ASSUME Typed, Snapshot \/ Begin \/ BeginFails \/ Insert \/ Rollback \/ Commit
  PROVE  Typed'
<1> USE DEF Typed, TypeOK, PollInv, disk, run, web
<1>1. CASE Snapshot
  <2>1. listed' \in [Polls -> SUBSET Procs] /\ batch' \subseteq Procs
    BY <1>1 DEF Snapshot
  <2>2. pc' \in {"wait", "begin"}
    BY <1>1 DEF Snapshot
  <2> QED
    BY <1>1, <2>1, <2>2 DEF Snapshot
<1>2. CASE Begin
  BY <1>2 DEF Begin
<1>3. CASE BeginFails
  BY <1>3 DEF BeginFails
<1>4. CASE Insert
  <2>1. PICK p \in batch : inserted' = inserted \cup {<<poll, p>>}
    BY <1>4 DEF Insert
  <2>2. <<poll, p>> \in Rows
    BY <1>4 DEF Insert, Rows
  <2> QED
    BY <1>4, <2>1, <2>2 DEF Insert
<1>5. CASE Rollback
  BY <1>5 DEF Rollback
<1>6. CASE Commit
  BY <1>6 DEF Commit
<1> QED
  BY <1>1, <1>2, <1>3, <1>4, <1>5, <1>6

LEMMA RequestTypes ==
  ASSUME Typed, NEW r \in Requests, Ask(r) \/ Request(r)
  PROVE  Typed'
<1> USE DEF Typed, TypeOK, PollInv, disk, run
<1>1. CASE Ask(r)
  BY <1>1 DEF Ask
<1>2. CASE Query(r)
  BY <1>2 DEF Query
<1>3. CASE QueryRefused(r)
  BY <1>3 DEF QueryRefused
<1>4. CASE RowsClosed(r)
  BY <1>4 DEF RowsClosed
<1> QED
  BY <1>1, <1>2, <1>3, <1>4 DEF Request

LEMMA GoneTypes ==
  ASSUME Typed, Gone
  PROVE  Typed'
<1>1. step' \in 1..NumColumns + 1
  BY StoreOK DEF StoreOK, Gone
<1>2. rpc' \in [Requests -> {"idle", "waiting", "reading"}] /\ seen' \in [Requests -> SUBSET Rows]
  BY DEF Gone
<1> QED
  BY <1>1, <1>2 DEF Gone, Typed, TypeOK, PollInv, disk

LEMMA NextTypes == Typed /\ [Next]_vars => Typed'
<1> SUFFICES ASSUME Typed, [Next]_vars
             PROVE  Typed'
  OBVIOUS
<1>1. CASE UNCHANGED vars
  BY <1>1 DEF vars, disk, run, web, Typed, TypeOK, PollInv
<1> QED
  BY <1>1, OpenTypes, RecordTypes, SnapshotTypes, RequestTypes, GoneTypes
     DEF Next, Program, OutOfPolls

(* Database, program and requests keep their types.                        *)
THEOREM StoreTypes == Spec => []TypeOK
<1>1. Typed => TypeOK
  BY DEF Typed
<1> QED
  BY <1>1, InitTypes, NextTypes, PTL DEF Spec

-----------------------------------------------------------------------------
(* The migrations Open has passed are in the table, unless one was hidden; *)
(* every run begins with the first.                                        *)
SchemaInv ==
  /\ pc \in {"down", "schema"} => step = 1
  /\ pc = "alter" /\ ~hidden => \A k \in Columns : k < step => k \in columns
  /\ SchemaComplete

LEMMA InitSchema == Init => SchemaInv
  BY DEF Init, SchemaInv, SchemaComplete, Storing

LEMMA NextSchema == Typed /\ SchemaInv /\ [Next]_vars => SchemaInv'
<1> SUFFICES ASSUME Typed, SchemaInv, [Next]_vars
             PROVE  SchemaInv'
  OBVIOUS
<1> USE StoreOK DEF StoreOK, Typed, TypeOK, SchemaInv, SchemaComplete, Storing, Columns
<1>1. CASE Start \/ SchemaFails
  BY <1>1 DEF Start, SchemaFails, disk
<1>2. CASE CreateSchema
  BY <1>2 DEF CreateSchema
<1>3. CASE Alter
  BY <1>3 DEF Alter
<1>4. CASE AlterFails
  <2>1. ~hidden' => ~hidden /\ step \in columns
    BY <1>4 DEF AlterFails
  <2> QED
    BY <1>4, <2>1 DEF AlterFails, disk
<1>5. CASE Opened
  <2>1. ~hidden => Columns \subseteq columns
    BY <1>5 DEF Opened
  <2> QED
    BY <1>5, <2>1 DEF Opened, disk
<1>6. CASE Poll \/ Record \/ RecordFails \/ Timer \/ Close
  BY <1>6 DEF Poll, Record, RecordFails, Timer, Close, disk
<1>7. CASE Snapshot
  <2>1. pc' \in {"wait", "begin"}
    BY <1>7 DEF Snapshot
  <2> QED
    BY <1>7, <2>1 DEF Snapshot, disk
<1>8. CASE Begin \/ BeginFails \/ Insert \/ Rollback \/ Commit
  BY <1>8 DEF Begin, BeginFails, Insert, Rollback, Commit, disk
<1>9. CASE CloseStop \/ UNCHANGED vars
  BY <1>9 DEF CloseStop, vars, disk, run
<1>10. CASE Gone
  BY <1>10 DEF Gone
<1>11. ASSUME NEW r \in Requests, Ask(r) \/ Request(r)
       PROVE  SchemaInv'
  BY <1>11 DEF Ask, Request, Query, QueryRefused, RowsClosed, disk, run
<1> QED
  BY <1>1, <1>2, <1>3, <1>4, <1>5, <1>6, <1>7, <1>8, <1>9, <1>10, <1>11
     DEF Next, Program, OutOfPolls

(* From a database of any release, after any number of crashes between two *)
(* migrations, whoever stores a reading finds every column.                *)
THEOREM EverySchemaCompleted == Spec => []SchemaComplete
<1>1. SchemaInv => SchemaComplete
  BY DEF SchemaInv
<1> QED
  BY <1>1, InitTypes, NextTypes, InitSchema, NextSchema, PTL DEF Spec

-----------------------------------------------------------------------------
(* The transaction holds rows of the poll's snapshot, the disk has none of *)
(* them before the commit and none of later polls, and a report has only   *)
(* rows that are on disk.                                                  *)
BatchInv ==
  /\ pc \in {"begin", "insert"} => listed[poll] = batch
  /\ inserted # {} => pc = "insert" /\ inserted \subseteq BatchRows(poll, batch)

FutureInv ==
  \A row \in rows :
    /\ row[1] <= poll
    /\ row[1] = poll => pc \notin {"record", "snapshot", "begin", "insert"}

SeenInv == \A r \in Requests : seen[r] \subseteq rows

TransactionInv == BatchInv /\ FutureInv /\ SeenInv /\ SnapshotsWhole

LEMMA InitTransaction == Init => TransactionInv
<1> SUFFICES ASSUME Init
             PROVE  TransactionInv
  OBVIOUS
<1>1. Whole(rows) /\ \A r \in Requests : Whole(seen[r])
  BY DEF Init, Whole
<1> QED
  BY <1>1 DEF Init, TransactionInv, BatchInv, FutureInv, SeenInv, SnapshotsWhole

(* A step that touches neither disk nor snapshot nor transaction.          *)
LEMMA QuietTransaction ==
  ASSUME Typed, TransactionInv,
         UNCHANGED <<rows, poll, batch, inserted, listed, seen>>,
         inserted # {} => pc' = pc,
         pc' \in {"begin", "insert"} => pc \in {"begin", "insert"},
         pc' \in {"record", "snapshot"} => pc \in {"record", "snapshot"}
  PROVE  TransactionInv'
<1>1. BatchInv' /\ FutureInv' /\ SeenInv'
  BY DEF TransactionInv, BatchInv, FutureInv, SeenInv
<1>2. SnapshotsWhole'
  BY DEF TransactionInv, SnapshotsWhole, Whole
<1> QED
  BY <1>1, <1>2 DEF TransactionInv

(* The snapshot of a poll of which nothing is stored yet may be anything.  *)
LEMMA NothingStored ==
  ASSUME Typed, TransactionInv, poll \in Polls, NEW stored \in SUBSET rows,
         pc \in {"record", "snapshot", "begin", "insert"}
  PROVE  stored \cap BatchRows(poll, Procs) = {}
  BY DEF TransactionInv, FutureInv, BatchRows

LEMMA SnapshotTransaction ==
  ASSUME Typed, TransactionInv, Snapshot
  PROVE  TransactionInv'
<1>1. poll \in Polls /\ listed' = [listed EXCEPT ![poll] = batch'] /\ rows' = rows /\ seen' = seen
  BY DEF Typed, PollInv, Snapshot, disk, web
<1>2. ASSUME NEW stored \in SUBSET rows, Whole(stored)
      PROVE  Whole(stored)'
  <2> SUFFICES ASSUME NEW n \in Polls
               PROVE  stored \cap BatchRows(n, Procs) \in {{}, BatchRows(n, listed'[n])}
    BY DEF Whole
  <2>1. CASE n = poll
    BY <1>1, <2>1, NothingStored DEF Snapshot
  <2>2. CASE n # poll
    BY <1>1, <1>2, <2>2 DEF Typed, TypeOK, Whole
  <2> QED
    BY <2>1, <2>2
<1>3. BatchInv' /\ FutureInv' /\ SeenInv'
  <2>1. listed'[poll] = batch' /\ poll' = poll /\ inserted' = inserted
    BY <1>1 DEF Snapshot, Typed, TypeOK
  <2>2. inserted = {}
    BY DEF Snapshot, TransactionInv, BatchInv
  <2> QED
    BY <1>1, <2>1, <2>2 DEF Snapshot, TransactionInv, BatchInv, FutureInv, SeenInv
<1> QED
  BY <1>1, <1>2, <1>3 DEF TransactionInv, SnapshotsWhole, SeenInv

LEMMA PollTransaction ==
  ASSUME Typed, TransactionInv, Poll
  PROVE  TransactionInv'
<1>1. poll' = poll + 1 /\ poll \in Nat
  BY StoreOK DEF StoreOK, Poll, Typed, TypeOK
<1>2. inserted = {}
  BY DEF Poll, TransactionInv, BatchInv
<1>3. \A row \in rows : row[1] \in Nat
  BY DEF Typed, TypeOK, Rows, Polls
<1>4. BatchInv' /\ FutureInv' /\ SeenInv'
  BY <1>1, <1>2, <1>3 DEF Poll, disk, web, TransactionInv, BatchInv, FutureInv, SeenInv
<1>5. SnapshotsWhole'
  BY DEF Poll, disk, web, TransactionInv, SnapshotsWhole, Whole
<1> QED
  BY <1>4, <1>5 DEF TransactionInv

LEMMA CommitTransaction ==
  ASSUME Typed, TransactionInv, Commit
  PROVE  TransactionInv'
<1> USE DEF Commit, web, TransactionInv
<1>1. rows' = rows \cup BatchRows(poll, batch) /\ seen' = seen /\ listed' = listed
  OBVIOUS
<1>2. poll \in Polls /\ poll' = poll /\ inserted' = {} /\ pc' = "wait"
  BY DEF Typed, PollInv
<1>3. BatchInv' /\ FutureInv' /\ SeenInv'
  BY <1>1, <1>2 DEF BatchInv, FutureInv, SeenInv, BatchRows, Polls
<1>4. ASSUME NEW n \in Polls
      PROVE  rows' \cap BatchRows(n, Procs) \in {{}, BatchRows(n, listed[n])}
  <2>1. CASE n = poll
    <3>1. rows \cap BatchRows(poll, Procs) = {}
      BY <1>2, NothingStored
    <3>2. listed[poll] = batch /\ BatchRows(poll, batch) \subseteq BatchRows(poll, Procs)
      BY DEF BatchInv, BatchRows, Typed, TypeOK
    <3> QED
      BY <1>1, <2>1, <3>1, <3>2
  <2>2. CASE n # poll
    <3>1. BatchRows(poll, batch) \cap BatchRows(n, Procs) = {}
      BY <2>2 DEF BatchRows
    <3> QED
      BY <1>1, <3>1 DEF SnapshotsWhole, Whole
  <2> QED
    BY <2>1, <2>2
<1>5. SnapshotsWhole'
  BY <1>1, <1>4 DEF SnapshotsWhole, Whole
<1> QED
  BY <1>3, <1>5

LEMMA NextTransaction == Typed /\ TransactionInv /\ [Next]_vars => TransactionInv'
<1> SUFFICES ASSUME Typed, TransactionInv, [Next]_vars
             PROVE  TransactionInv'
  OBVIOUS
<1>1. CASE Start \/ CreateSchema \/ SchemaFails \/ Alter \/ AlterFails \/ Opened
  BY <1>1, QuietTransaction DEF Start, CreateSchema, SchemaFails, Alter, AlterFails, Opened,
     disk, web, TransactionInv, BatchInv
<1>2. CASE Record \/ RecordFails \/ Timer \/ Close \/ CloseStop
  BY <1>2, QuietTransaction DEF Record, RecordFails, Timer, Close, CloseStop,
     disk, run, web, TransactionInv, BatchInv
<1>3. CASE Begin \/ BeginFails
  BY <1>3, QuietTransaction DEF Begin, BeginFails, disk, web, TransactionInv, BatchInv
<1>4. CASE Insert
  <2>1. inserted' \subseteq BatchRows(poll, batch)
    BY <1>4 DEF Insert, BatchRows, TransactionInv, BatchInv
  <2>2. SnapshotsWhole'
    BY <1>4 DEF Insert, disk, web, TransactionInv, SnapshotsWhole, Whole
  <2> QED
    BY <1>4, <2>1, <2>2 DEF Insert, disk, web, TransactionInv, BatchInv, FutureInv, SeenInv
<1>5. CASE Rollback
  <2>1. SnapshotsWhole'
    BY <1>5 DEF Rollback, disk, web, TransactionInv, SnapshotsWhole, Whole
  <2> QED
    BY <1>5, <2>1 DEF Rollback, disk, web, TransactionInv, BatchInv, FutureInv, SeenInv
<1>6. CASE Gone
  <2>1. \A n \in Polls : {} \cap BatchRows(n, Procs) = {}
    OBVIOUS
  <2>2. SnapshotsWhole'
    BY <1>6, <2>1 DEF Gone, disk, TransactionInv, SnapshotsWhole, Whole
  <2> QED
    BY <1>6, <2>2 DEF Gone, disk, TransactionInv, BatchInv, FutureInv, SeenInv
<1>7. ASSUME NEW r \in Requests, Query(r)
      PROVE  TransactionInv'
  <2>1. \A q \in Requests : seen'[q] = rows \/ seen'[q] = seen[q]
    BY <1>7 DEF Query, Typed, TypeOK
  <2>2. SnapshotsWhole'
    BY <1>7, <2>1 DEF Query, disk, TransactionInv, SnapshotsWhole, Whole
  <2> QED
    BY <1>7, <2>1, <2>2 DEF Query, disk, run, TransactionInv, BatchInv, FutureInv, SeenInv
<1>8. ASSUME NEW r \in Requests, Ask(r) \/ QueryRefused(r) \/ RowsClosed(r)
      PROVE  TransactionInv'
  BY <1>8, QuietTransaction DEF Ask, QueryRefused, RowsClosed, disk, run
<1>9. CASE UNCHANGED vars
  BY <1>9, QuietTransaction DEF vars, disk, run, web
<1> QED
  BY <1>1, <1>2, <1>3, <1>4, <1>5, <1>6, <1>7, <1>8, <1>9,
     SnapshotTransaction, PollTransaction, CommitTransaction
     DEF Next, Program, Request, OutOfPolls

(* Whichever insert failed, wherever the program crashed and whoever read  *)
(* meanwhile: of a process snapshot all is stored and shown, or nothing.   *)
THEOREM SnapshotsStayWhole == Spec => []SnapshotsWhole
<1>1. TransactionInv => SnapshotsWhole
  BY DEF TransactionInv
<1> QED
  BY <1>1, InitTypes, NextTypes, InitTransaction, NextTransaction, PTL DEF Spec
=============================================================================
