------------------------------ MODULE Reports ------------------------------
(***************************************************************************)
(* What the queries of storage/storage.go make of the two tables.  Each is *)
(* one SQL statement on one snapshot of them, an operator here; the tables *)
(* grow by Record and RecordProcesses while the clock goes on, and is set  *)
(* back at times.                                                          *)
(*                                                                         *)
(* A row is known by its id, its place in its table.  SQL leaves the order *)
(* of equal keys open, so a query is the set of the answers it may give,   *)
(* each a sequence of ids or of rows.  Rounding and the columns no other   *)
(* report shows are left out.                                              *)
(***************************************************************************)
EXTENDS Integers, SequencesExt

CONSTANTS
  Percents,    \* percentages readings may have, -1 when unknown
  Capacities,  \* [full, designed] of GetCapacity: zeros on error, else designed > 0
  Batches,     \* sequences of [name, cpu] a poll may record
  DayLen, HourLen,   \* a day and an hour, in units of the clock
  Offset,      \* local time is that much ahead of UTC
  PerHour,     \* readings per hour PowerHistory reckons with, 60 in the code
  MaxPoints,   \* points PowerHistory aims at, 500 in the code
  Spans,       \* the days, hours and row counts asked for
  MaxRows, MaxNow    \* bounds on the tables and the clock

ASSUME ReportsOK ==
  /\ Percents \subseteq -1..100
  /\ Capacities \subseteq {cap \in [full : Nat, designed : Nat] :
                            cap.designed = 0 => cap.full = 0}
  /\ Batches \subseteq Seq([name : STRING, cpu : Nat])
  /\ DayLen \in Nat \ {0} /\ HourLen \in Nat \ {0} /\ Offset \in Nat
  /\ PerHour \in Nat /\ MaxPoints \in Nat \ {0}
  /\ Spans \subseteq Nat \ {0} /\ MaxRows \in Nat /\ MaxNow \in Nat

VARIABLES
  readings,  \* the table of readings
  procs,     \* the table proc_snapshots
  now        \* time.Now().Unix()

vars == <<readings, procs, now>>

Init == readings = <<>> /\ procs = <<>> /\ now \in 0..MaxNow

Room == MaxRows - Len(readings) - Len(procs)

RecordByte(pct, cap) ==   \* mistaken: the percentage is stored as a byte
  /\ Room > 0
  /\ readings' = Append(readings,
       [ts |-> now, percent |-> pct % 256, full |-> cap.full, designed |-> cap.designed])
  /\ UNCHANGED <<procs, now>>

Record(pct, cap) ==
  /\ Room > 0
  /\ readings' = Append(readings,
       [ts |-> now, percent |-> pct, full |-> cap.full, designed |-> cap.designed])
  /\ UNCHANGED <<procs, now>>

(* All rows of a snapshot get the time at its beginning; several processes *)
(* may have one name.                                                      *)
RecordProcesses(batch) ==
  /\ Room >= Len(batch)
  /\ procs' = procs \o
       [k \in DOMAIN batch |-> [ts |-> now, name |-> batch[k].name, cpu |-> batch[k].cpu]]
  /\ UNCHANGED <<readings, now>>

Tick == now < MaxNow /\ now' = now + 1 /\ UNCHANGED <<readings, procs>>
SetBack == now > 0 /\ now' = now - 1 /\ UNCHANGED <<readings, procs>>

Next ==
  \/ \E pct \in Percents, cap \in Capacities : Record(pct, cap)
  \/ \E batch \in Batches : RecordProcesses(batch)
  \/ Tick \/ SetBack

Spec == Init /\ [][Next]_vars

-----------------------------------------------------------------------------
(* The pieces of the queries.                                              *)
Ids == DOMAIN readings
TS(i) == readings[i].ts
Since(t) == {i \in Ids : TS(i) >= t}
Cutoff(span, unit) == now - span * unit

UTC(t) == t \div DayLen              \* date(ts, 'unixepoch')
Date(t) == (t + Offset) \div DayLen  \* date(ts, 'unixepoch', 'localtime')
Dates(ids) == {Date(TS(i)) : i \in ids}
OnDay(d) == {i \in Ids : Date(TS(i)) = d}

Earliest(ids) == {i \in ids : \A j \in ids : TS(j) >= TS(i)}   \* ORDER BY ts ... rn = 1
Latest(ids) == {i \in ids : \A j \in ids : TS(j) <= TS(i)}     \* ORDER BY ts DESC ... rn = 1

(* ORDER BY the key.                                                       *)
InOrderOf(ids, Key(_)) ==
  {s \in SetToSeqs(ids) : \A i, j \in DOMAIN s : i < j => Key(s[i]) <= Key(s[j])}
Sorted(ids) == InOrderOf(ids, TS)

-----------------------------------------------------------------------------
AvailableDatesUTC == {UTC(TS(i)) : i \in Ids}   \* mistaken: 'localtime' forgotten
AvailableDates == Dates(Ids)

DailyReadings(date) == Sorted(OnDay(date))

(* The days with a reading in the window, each with all its readings; the  *)
(* capacities of a day are those of its last reading in the window.        *)
DailyRow(d, i) ==
  [date |-> d, readings |-> Cardinality(OnDay(d)),
   min |-> Min({readings[j].percent : j \in OnDay(d)}),
   max |-> Max({readings[j].percent : j \in OnDay(d)}),
   full |-> readings[i].full, designed |-> readings[i].designed]

DailyStatsFirst(days) ==   \* mistaken: the first reading of the day, not the last
  LET since == Since(Cutoff(days, DayLen))
  IN UNION {{DailyRow(d, i) : i \in Earliest(OnDay(d) \cap since)} : d \in Dates(since)}

DailyStats(days) ==
  LET since == Since(Cutoff(days, DayLen))
  IN UNION {{DailyRow(d, i) : i \in Latest(OnDay(d) \cap since)} : d \in Dates(since)}

(* Readings with a capacity whose time stamp is the last of such a day.    *)
Capable == {i \in Ids : readings[i].designed > 0}

CapacityHistory(days) ==
  LET since == Capable \cap Since(Cutoff(days, DayLen))
      last == UNION {{TS(i) : i \in Latest(since \cap OnDay(d))} : d \in Dates(since)}
  IN Sorted({i \in Capable : TS(i) \in last})

(* Every stride-th row of the window, by the row number modulo the stride. *)
Stride(hours) == Max({1, (hours * PerHour) \div MaxPoints})

SampleAtZero(s, stride) ==   \* mistaken: the remainder 0 instead of 1
  LET at == {rn \in DOMAIN s : rn % stride = 0}
  IN [k \in 1..Cardinality(at) |-> s[k * stride]]

Sample(s, stride) ==
  LET at == {rn \in DOMAIN s : rn % stride = 1}
  IN [k \in 1..Cardinality(at) |-> s[(k - 1) * stride + 1]]

PowerHistory(hours) ==
  {Sample(s, Stride(hours)) : s \in Sorted(Since(Cutoff(hours, HourLen)))}

(* ORDER BY ts DESC LIMIT n, turned around by the loop after it.           *)
Limit(s, n) == SubSeq(s, 1, Min({n, Len(s)}))
RecentOldest(n) == {Limit(s, n) : s \in Sorted(Ids)}   \* mistaken: DESC forgotten
RecentReadings(n) == {Reverse(Limit(Reverse(s), n)) : s \in Sorted(Ids)}

(* The rows of the window by name, GROUP BY name, the highest average of   *)
(* cpu first.                                                              *)
ProcTS(p) == procs[p].ts
ProcSince(t) == {p \in DOMAIN procs : ProcTS(p) >= t}
Named(ids, name) == {p \in ids : procs[p].name = name}
Total(ids) == MapThenSumSet(LAMBDA p : procs[p].cpu, ids)
OutranksBySum(ids, other) == Total(ids) > Total(other)   \* mistaken: SUM for AVG
Outranks(ids, other) ==
  Total(ids) * Cardinality(other) > Total(other) * Cardinality(ids)

TopProcesses(hours, limit) ==
  LET since == ProcSince(Cutoff(hours, HourLen))
      names == {procs[p].name : p \in since}
      row == [name \in names |-> [name |-> name, samples |-> Cardinality(Named(since, name))]]
      ranked == {s \in SetToSeqs(names) : \A i, j \in DOMAIN s :
                   i < j => ~Outranks(Named(since, s[j]), Named(since, s[i]))}
  IN {[k \in DOMAIN Limit(s, limit) |-> row[s[k]]] : s \in ranked}

ProcessTimeline(name, hours) ==
  InOrderOf(Named(ProcSince(Cutoff(hours, HourLen)), name), ProcTS)

GetSummary ==
  [total |-> Len(readings),
   full |-> {readings[i].full : i \in Latest({j \in Ids : readings[j].full > 0})},
   designed |-> {readings[i].designed : i \in Latest(Capable)},
   first |-> IF Ids = {} THEN {} ELSE {Date(Min({TS(i) : i \in Ids}))},
   last |-> IF Ids = {} THEN {} ELSE {Date(Max({TS(i) : i \in Ids}))}]

-----------------------------------------------------------------------------
(* Types of the tables and the clock.                                      *)
TypeOK ==
  /\ readings \in Seq([ts : 0..MaxNow, percent : -1..100, full : Nat, designed : Nat])
  /\ procs \in Seq([ts : 0..MaxNow, name : STRING, cpu : Nat])
  /\ now \in 0..MaxNow

(* The export: going through the available dates gives every reading once, *)
(* no date is offered in vain, and the summary counts and spans the same,  *)
(* also where the local day differs from the UTC day (storage.go:182-441). *)
ExportComplete ==
  /\ \A d \in AvailableDates : \A s \in DailyReadings(d) : s # <<>>
  /\ \A i \in Ids :
       Cardinality({d \in AvailableDates : \E s \in DailyReadings(d) : i \in ToSet(s)}) = 1
  /\ GetSummary.first \cup GetSummary.last \subseteq AvailableDates

(* On a day: the daily table counts what the export of the day holds, also *)
(* for the day the window cuts through, and the capacity it shows is a     *)
(* point of the capacity chart; the summary shows the chart's last point,  *)
(* its full capacity if that is known.                                     *)
DaysAgree ==
  \A days \in Spans :
    /\ \A row \in DailyStats(days) :
         /\ \A s \in DailyReadings(row.date) : row.readings = Len(s)
         /\ row.designed > 0 =>
              \A s \in CapacityHistory(days) :
                \E i \in ToSet(s) : Date(TS(i)) = row.date /\ readings[i].full = row.full
    /\ \A s \in CapacityHistory(days) : s # <<>> =>
         /\ readings[Last(s)].full > 0 => readings[Last(s)].full \in GetSummary.full
         /\ readings[Last(s)].designed \in GetSummary.designed

(* On the processes: a row of the table opens a timeline of as many points *)
(* as it counts samples, and a process the limit leaves out never used     *)
(* more in all its samples than one that is shown.                         *)
ProcessesAgree ==
  \A hours, limit \in Spans : \A rows \in TopProcesses(hours, limit) :
    LET shown == {row.name : row \in ToSet(rows)}
        since == ProcSince(Cutoff(hours, HourLen))
    IN /\ \A row \in ToSet(rows) : \A s \in ProcessTimeline(row.name, hours) :
            Len(s) = row.samples
       /\ \A p \in since : procs[p].name \notin shown =>
            /\ Cardinality(shown) = limit
            /\ \A name \in shown : \E q \in Named(since, name), r \in Named(since, procs[p].name) :
                 procs[q].cpu >= procs[r].cpu

(* On the end: the sparkline starts from the last readings, oldest first;  *)
(* nothing stored is newer than what it leaves out, also when the clock    *)
(* was set back between them.                                              *)
RecentAreLast ==
  \A n \in Spans : \A s \in RecentReadings(n) :
    /\ Len(s) = Min({n, Len(readings)})
    /\ \A i, j \in DOMAIN s : i < j => TS(s[i]) <= TS(s[j])
    /\ \A i \in Ids \ ToSet(s) : \A j \in ToSet(s) : TS(i) <= TS(j)

(* What one report shows, no other contradicts (storage.go:182-465).       *)
ReportsAgree == DaysAgree /\ ProcessesAgree /\ RecentAreLast

(* With a stride above 1 the power chart begins with the oldest reading of *)
(* the window, stays in it, and is thinned evenly.                         *)
PowerSampled ==
  \A hours \in {h \in Spans : Stride(h) > 1} :
    LET window == Since(Cutoff(hours, HourLen))
    IN \A s \in PowerHistory(hours) :
         /\ ToSet(s) \subseteq window
         /\ window # {} => s # <<>> /\ Head(s) \in Earliest(window)
         /\ Cardinality(window) - Len(s) * Stride(hours) \in 1 - Stride(hours)..0

-----------------------------------------------------------------------------
(* storage.go:285: "returns voltage, rate and capacity readings for the    *)
(* last `hours` hours": a window with readings gives some.                 *)
PowerShown ==
  \A hours \in Spans :
    Since(Cutoff(hours, HourLen)) # {} => \A s \in PowerHistory(hours) : s # <<>>
=============================================================================
