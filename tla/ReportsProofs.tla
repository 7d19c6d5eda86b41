--------------------------- MODULE ReportsProofs ---------------------------
(***************************************************************************)
(* Proofs about Reports.tla for any tables, whatever the clock did: the    *)
(* export is complete, the reports agree and the power chart is thinned    *)
(* evenly.                                                                 *)
(***************************************************************************)
EXTENDS Reports, FiniteSetTheorems, SequenceTheorems, TLAPS

(* Sets of numbers.  Facts about all finite sets and all sums below are    *)
(* proved by a smallest counterexample, which LeastOf provides.            *)
LEMMA LeastBelow ==
  ASSUME NEW R, IsWellFoundedOn(R, Nat),
         \A m, n \in Nat : n < m => <<n, m>> \in R,
         NEW T \in SUBSET Nat, T # {}
  PROVE  \E m \in T : \A n \in T : m <= n
<1>1. PICK m \in T : \A n \in T : <<n, m>> \notin R
  BY WFMin
<1>2. \A n \in T : ~(n < m)
  BY <1>1
<1> QED
  BY <1>2

LEMMA LeastOf ==
  ASSUME NEW T \in SUBSET Nat, T # {}
  PROVE  \E m \in T : \A n \in T : m <= n
<1>1. PICK R : IsWellFoundedOn(R, Nat) /\ \A m, n \in Nat : n < m => <<n, m>> \in R
  <2> DEFINE R == OpToRel(<, Nat)
  <2>1. IsWellFoundedOn(R, Nat)
    BY NatLessThanWellFounded
  <2>2. \A m, n \in Nat : n < m => <<n, m>> \in R
    BY DEF OpToRel
  <2> HIDE DEF R
  <2> QED
    BY <2>1, <2>2
<1> QED
  BY <1>1, LeastBelow

(* Below a bound there is also a greatest.                                 *)
LEMMA GreatestOf ==
  ASSUME NEW n \in Nat, NEW T \in SUBSET (0..n), T # {}
  PROVE  \E m \in T : \A k \in T : k <= m
<1> DEFINE U == {n - k : k \in T}
<1>1. U \in SUBSET Nat /\ U # {}
  OBVIOUS
<1>2. PICK u \in U : \A v \in U : u <= v
  BY <1>1, LeastOf
<1>3. PICK m \in T : u = n - m
  BY <1>2
<1>4. ASSUME NEW k \in T
      PROVE  k <= m
  <2>1. n - k \in U
    OBVIOUS
  <2>2. n - m <= n - k
    BY <1>2, <1>3, <2>1
  <2> QED
    BY <2>2
<1> QED
  BY <1>4

LEMMA MinMax ==
  ASSUME NEW n \in Nat, NEW T \in SUBSET (0..n), T # {}
  PROVE  /\ Min(T) \in T /\ \A k \in T : Min(T) <= k
         /\ Max(T) \in T /\ \A k \in T : k <= Max(T)
<1>1. \E m \in T : \A k \in T : m <= k
  BY LeastOf
<1>2. \E m \in T : \A k \in T : m >= k
  <2>1. PICK m \in T : \A k \in T : k <= m
    BY GreatestOf
  <2>2. \A k \in T : m >= k
    BY <2>1
  <2> QED
    BY <2>2
<1>3. Min(T) \in T /\ \A k \in T : Min(T) <= k
  BY <1>1 DEF Min
<1>4. Max(T) \in T /\ \A k \in T : Max(T) >= k
  BY <1>2 DEF Max
<1> QED
  BY <1>3, <1>4

-----------------------------------------------------------------------------
LEMMA Interval ==
  ASSUME NEW n \in Nat
  PROVE  IsFiniteSet(1..n) /\ Cardinality(1..n) = n
  BY FS_Interval

(* A sequence that has each element of a set once.                         *)
LEMMA Arranged ==
  ASSUME NEW S, IsFiniteSet(S), NEW s \in SetToSeqs(S)
  PROVE  /\ Cardinality(S) \in Nat /\ Len(s) = Cardinality(S)
         /\ DOMAIN s = 1..Len(s) /\ s \in Seq(S)
         /\ ToSet(s) = S
         /\ \A i, j \in DOMAIN s : s[i] = s[j] => i = j
<1> DEFINE n == Cardinality(S)
<1>1. n \in Nat
  BY FS_CardinalityType
<1> HIDE DEF n
<1>2. s \in [1..n -> S] /\ \A i, j \in 1..n : i # j => s[i] # s[j]
  BY DEF SetToSeqs, n
<1>3. Len(s) = n /\ DOMAIN s = 1..n /\ s \in Seq(S)
  BY <1>1, <1>2
<1>4. s \in Injection(1..n, S)
  BY <1>2 DEF Injection, IsInjective
<1>5. IsFiniteSet(1..n) /\ Cardinality(1..n) = n
  BY <1>1, Interval
<1>6. s \in Surjection(1..n, S)
  BY <1>4, <1>5, FS_Injection DEF n
<1>7. ToSet(s) = S
  BY <1>2, <1>3, <1>6 DEF Surjection, ToSet
<1> QED
  BY <1>1, <1>2, <1>3, <1>7 DEF n

(* In the order of some key: the set ordered without an element that comes *)
(* last, then that element.                                                *)
Ordered(s, key) == \A i, j \in DOMAIN s : i < j => key[s[i]] <= key[s[j]]

LEMMA OneMore ==
  ASSUME NEW S, IsFiniteSet(S), NEW key, \A y \in S : key[y] \in Int,
         NEW x \in S, \A y \in S : key[y] <= key[x],
         NEW s \in SetToSeqs(S \ {x}), Ordered(s, key)
  PROVE  \E t \in SetToSeqs(S) : Ordered(t, key)
<1> DEFINE n == Cardinality(S)
<1>1. n \in Nat /\ IsFiniteSet(S \ {x}) /\ Cardinality(S \ {x}) = n - 1
  BY FS_CardinalityType, FS_RemoveElement
<1>2. n - 1 \in Nat /\ Len(s) = n - 1 /\ DOMAIN s = 1..(n - 1)
      /\ s \in Seq(S \ {x}) /\ \A i, j \in DOMAIN s : s[i] = s[j] => i = j
  BY <1>1, Arranged
<1> HIDE DEF n
<1> DEFINE t == [k \in 1..n |-> IF k = n THEN x ELSE s[k]]
<1>3. \A k \in 1..n : k # n => k \in DOMAIN s /\ s[k] \in S \ {x}
  BY <1>1, <1>2
<1>4. t \in [1..n -> S] /\ \A i, j \in 1..n : i # j => t[i] # t[j]
  BY <1>2, <1>3
<1>5. t \in SetToSeqs(S)
  BY <1>4 DEF SetToSeqs, n
<1>6. ASSUME NEW i \in 1..n, NEW j \in 1..n, i < j
      PROVE  key[t[i]] <= key[t[j]]
  <2>1. i # n /\ t[i] = s[i] /\ i \in DOMAIN s /\ s[i] \in S
    BY <1>1, <1>3, <1>6
  <2>2. CASE j = n
    BY <2>1, <2>2
  <2>3. CASE j # n
    BY <1>3, <1>6, <2>1, <2>3 DEF Ordered
  <2> QED
    BY <2>2, <2>3
<1>7. Ordered(t, key)
  BY <1>6 DEF Ordered
<1> QED
  BY <1>5, <1>7

LEMMA SomeOrder ==
  ASSUME NEW S, IsFiniteSet(S), NEW b \in Nat, NEW key, \A x \in S : key[x] \in 0..b
  PROVE  \E s \in SetToSeqs(S) : Ordered(s, key)
<1> DEFINE Bad == {T \in SUBSET S : ~\E s \in SetToSeqs(T) : Ordered(s, key)}
           N == {Cardinality(T) : T \in Bad}
<1> SUFFICES ASSUME Bad # {}
             PROVE  FALSE
  OBVIOUS
<1>1. \A T \in SUBSET S : IsFiniteSet(T) /\ Cardinality(T) \in Nat
  BY FS_Subset, FS_CardinalityType
<1>2. N \in SUBSET Nat /\ N # {}
  BY <1>1
<1>3. PICK T \in Bad : \A U \in Bad : Cardinality(T) <= Cardinality(U)
  <2>1. PICK m \in N : \A k \in N : m <= k
    BY <1>2, LeastOf
  <2> QED
    BY <2>1
<1>4. T # {}
  <2> SUFFICES ASSUME T = {}
               PROVE  FALSE
    OBVIOUS
  <2>1. Cardinality({}) = 0
    BY FS_EmptySet
  <2>2. <<>> \in SetToSeqs({})
    BY <2>1 DEF SetToSeqs
  <2>3. Ordered(<<>>, key)
    BY DEF Ordered
  <2> QED
    BY <2>2, <2>3
<1>5. PICK x \in T : \A y \in T : key[y] <= key[x]
  <2> DEFINE K == {key[y] : y \in T}
  <2>1. K \in SUBSET (0..b) /\ K # {}
    BY <1>4
  <2>2. PICK m \in K : \A k \in K : k <= m
    BY <2>1, GreatestOf
  <2> QED
    BY <2>2
<1>6. Cardinality(T \ {x}) = Cardinality(T) - 1
  BY <1>1, FS_RemoveElement
<1>7. T \ {x} \notin Bad
  BY <1>1, <1>3, <1>6
<1>8. PICK s \in SetToSeqs(T \ {x}) : Ordered(s, key)
  BY <1>7
<1>9. \E t \in SetToSeqs(T) : Ordered(t, key)
  BY <1>1, <1>5, <1>8, OneMore
<1> QED
  BY <1>9

-----------------------------------------------------------------------------
(* Types.  A reading whose full capacity is known has a designed one.      *)
CapacitiesKept == \A i \in Ids : readings[i].designed = 0 => readings[i].full = 0

ReportsInv == TypeOK /\ CapacitiesKept

LEMMA InitInv == Init => ReportsInv
  BY DEF Init, ReportsInv, TypeOK, CapacitiesKept, Ids

LEMMA RecordInv ==
  ASSUME ReportsInv, NEW pct \in Percents, NEW cap \in Capacities, Record(pct, cap)
  PROVE  ReportsInv'
<1> DEFINE Row == [ts : 0..MaxNow, percent : -1..100, full : Nat, designed : Nat]
           row == [ts |-> now, percent |-> pct, full |-> cap.full, designed |-> cap.designed]
<1>1. cap \in [full : Nat, designed : Nat] /\ (cap.designed = 0 => cap.full = 0)
  BY ReportsOK DEF ReportsOK
<1>2. row \in Row
  BY <1>1, ReportsOK DEF ReportsOK, ReportsInv, TypeOK
<1>3. readings \in Seq(Row) /\ readings' = Append(readings, row)
  BY DEF ReportsInv, TypeOK, Record
<1>4. row.designed = cap.designed /\ row.full = cap.full
  OBVIOUS
<1> HIDE DEF Row, row
<1>5. /\ readings' \in Seq(Row) /\ Len(readings') = Len(readings) + 1
      /\ \A i \in 1..Len(readings) : readings'[i] = readings[i]
      /\ readings'[Len(readings) + 1] = row
  BY <1>2, <1>3, AppendProperties
<1>6. TypeOK'
  BY <1>5 DEF ReportsInv, TypeOK, Record, Row
<1>7. DOMAIN readings = 1..Len(readings) /\ DOMAIN readings' = 1..Len(readings) + 1
      /\ Len(readings) \in Nat
  BY <1>3, <1>5
<1>8. ASSUME NEW i \in DOMAIN readings', readings'[i].designed = 0
      PROVE  readings'[i].full = 0
  <2>1. CASE i = Len(readings) + 1
    <3>1. readings'[i] = row
      BY <1>5, <2>1
    <3>2. row.designed = 0
      BY <1>8, <3>1
    <3> QED
      BY <1>1, <1>4, <3>1, <3>2
  <2>2. CASE i # Len(readings) + 1
    <3>1. i \in DOMAIN readings /\ readings'[i] = readings[i]
      BY <1>5, <1>7, <2>2
    <3> QED
      BY <1>8, <3>1 DEF ReportsInv, CapacitiesKept, Ids
  <2> QED
    BY <2>1, <2>2
<1> QED
  BY <1>6, <1>8 DEF ReportsInv, CapacitiesKept, Ids

LEMMA ProcessesInv ==
  ASSUME ReportsInv, NEW batch \in Batches, RecordProcesses(batch)
  PROVE  ReportsInv'
<1> DEFINE Row == [ts : 0..MaxNow, name : STRING, cpu : Nat]
           rows == [k \in DOMAIN batch |->
                     [ts |-> now, name |-> batch[k].name, cpu |-> batch[k].cpu]]
           Use == [name : STRING, cpu : Nat]
<1>1. batch \in Seq(Use)
  BY ReportsOK DEF ReportsOK
<1>2. DOMAIN batch = 1..Len(batch) /\ Len(batch) \in Nat
      /\ \A k \in DOMAIN batch : batch[k] \in Use
  <2> HIDE DEF Use
  <2> QED
    BY <1>1, LenProperties, ElementOfSeq
<1>3. rows \in Seq(Row)
  <2>1. \A k \in 1..Len(batch) :
          [ts |-> now, name |-> batch[k].name, cpu |-> batch[k].cpu] \in Row
    BY <1>2 DEF ReportsInv, TypeOK
  <2> QED
    BY <1>2, <2>1
<1>4. procs \in Seq(Row) /\ procs' = procs \o rows
  BY DEF ReportsInv, TypeOK, RecordProcesses
<1> HIDE DEF Row, rows
<1>5. procs' \in Seq(Row)
  BY <1>3, <1>4, ConcatProperties
<1>6. TypeOK'
  BY <1>5 DEF ReportsInv, TypeOK, RecordProcesses, Row
<1> QED
  BY <1>6 DEF ReportsInv, CapacitiesKept, Ids, RecordProcesses

LEMMA NextInv == ReportsInv /\ [Next]_vars => ReportsInv'
<1> SUFFICES ASSUME ReportsInv, [Next]_vars
             PROVE  ReportsInv'
  OBVIOUS
<1>1. ASSUME NEW pct \in Percents, NEW cap \in Capacities, Record(pct, cap)
      PROVE  ReportsInv'
  BY <1>1, RecordInv
<1>2. ASSUME NEW batch \in Batches, RecordProcesses(batch)
      PROVE  ReportsInv'
  BY <1>2, ProcessesInv
<1>3. CASE Tick \/ SetBack
  BY <1>3, ReportsOK DEF ReportsOK, Tick, SetBack, ReportsInv, TypeOK, CapacitiesKept, Ids
<1>4. CASE UNCHANGED vars
  BY <1>4 DEF vars, ReportsInv, TypeOK, CapacitiesKept, Ids
<1> QED
  BY <1>1, <1>2, <1>3, <1>4 DEF Next

(* Both hold of any tables that Record and RecordProcesses fill.           *)
THEOREM ReportsKeepInv == Spec => []ReportsInv
  BY InitInv, NextInv, PTL DEF Spec

(* The tables and the clock keep their types.                              *)
THEOREM ReportsTypes == Spec => []TypeOK
<1>1. ReportsInv => TypeOK
  BY DEF ReportsInv
<1> QED
  BY <1>1, ReportsKeepInv, PTL

-----------------------------------------------------------------------------
(* Ordered by their time stamps.                                           *)
LEMMA Tables ==
  ASSUME TypeOK
  PROVE  /\ IsFiniteSet(Ids) /\ Ids = 1..Len(readings) /\ Cardinality(Ids) = Len(readings)
         /\ Len(readings) \in Nat
         /\ \A i \in Ids : TS(i) \in 0..MaxNow /\ readings[i].full \in Nat
                           /\ readings[i].designed \in Nat
<1> DEFINE Row == [ts : 0..MaxNow, percent : -1..100, full : Nat, designed : Nat]
<1>1. Len(readings) \in Nat /\ Ids = 1..Len(readings) /\ \A i \in Ids : readings[i] \in Row
  <2>1. readings \in Seq(Row)
    BY DEF TypeOK
  <2> HIDE DEF Row
  <2> QED
    BY <2>1, LenProperties, ElementOfSeq DEF Ids
<1>2. IsFiniteSet(Ids) /\ Cardinality(Ids) = Len(readings)
  <2>1. IsFiniteSet(1..Len(readings)) /\ Cardinality(1..Len(readings)) = Len(readings)
    BY <1>1, Interval
  <2> QED
    BY <1>1, <2>1
<1> QED
  BY <1>1, <1>2 DEF TS

LEMMA SortedReadings ==
  ASSUME TypeOK, NEW ids \in SUBSET Ids
  PROVE  /\ IsFiniteSet(ids) /\ Sorted(ids) # {}
         /\ \A s \in Sorted(ids) :
              /\ Len(s) = Cardinality(ids) /\ Len(s) \in Nat
              /\ DOMAIN s = 1..Len(s) /\ s \in Seq(ids) /\ ToSet(s) = ids
              /\ \A i, j \in DOMAIN s : i < j => TS(s[i]) <= TS(s[j])
<1>1. IsFiniteSet(ids)
  BY Tables, FS_Subset
<1>2. Sorted(ids) # {}
  <2> DEFINE key == [i \in Ids |-> TS(i)]
  <2>1. \A i \in ids : key[i] \in 0..MaxNow
    BY Tables
  <2>2. PICK s \in SetToSeqs(ids) : Ordered(s, key)
    BY <1>1, <2>1, SomeOrder, ReportsOK DEF ReportsOK
  <2>3. \A i \in DOMAIN s : s[i] \in ids
    BY <1>1, <2>2, Arranged, ElementOfSeq
  <2>4. s \in Sorted(ids)
    BY <2>2, <2>3 DEF Ordered, Sorted, InOrderOf
  <2> QED
    BY <2>4
<1>3. ASSUME NEW s \in Sorted(ids)
      PROVE  /\ s \in SetToSeqs(ids)
             /\ \A i, j \in DOMAIN s : i < j => TS(s[i]) <= TS(s[j])
  BY DEF Sorted, InOrderOf
<1> QED
  BY <1>1, <1>2, <1>3, Arranged

(* A set of readings has an earliest and a latest.                         *)
LEMMA LatestThere ==
  ASSUME TypeOK, NEW ids \in SUBSET Ids, ids # {}
  PROVE  \E i \in ids : i \in Latest(ids)
<1> DEFINE T == {TS(i) : i \in ids}
<1>1. T \in SUBSET (0..MaxNow) /\ T # {} /\ MaxNow \in Nat
  BY Tables, ReportsOK DEF ReportsOK
<1>2. PICK m \in T : \A k \in T : k <= m
  BY <1>1, GreatestOf
<1>3. PICK i \in ids : m = TS(i)
  BY <1>2
<1>4. \A j \in ids : TS(j) <= TS(i)
  BY <1>2, <1>3
<1> QED
  BY <1>4 DEF Latest

-----------------------------------------------------------------------------
(* The export.                                                             *)
LEMMA Exported ==
  ASSUME TypeOK
  PROVE  ExportComplete
<1>1. \A d : OnDay(d) \in SUBSET Ids
  BY DEF OnDay
<1>2. ASSUME NEW d \in AvailableDates, NEW s \in DailyReadings(d)
      PROVE  s # <<>>
  <2>1. PICK i \in Ids : d = Date(TS(i))
    BY DEF AvailableDates, Dates
  <2>2. i \in OnDay(d)
    BY <2>1 DEF OnDay
  <2>3. ToSet(s) = OnDay(d)
    BY <1>1, SortedReadings DEF DailyReadings
  <2> QED
    BY <2>2, <2>3 DEF ToSet
<1>3. ASSUME NEW i \in Ids
      PROVE  Cardinality({d \in AvailableDates :
                            \E s \in DailyReadings(d) : i \in ToSet(s)}) = 1
  <2>1. Date(TS(i)) \in AvailableDates /\ i \in OnDay(Date(TS(i)))
    BY DEF AvailableDates, Dates, OnDay
  <2>2. \E s \in DailyReadings(Date(TS(i))) : i \in ToSet(s)
    BY <1>1, <2>1, SortedReadings DEF DailyReadings
  <2>3. ASSUME NEW d \in AvailableDates, NEW s \in DailyReadings(d), i \in ToSet(s)
        PROVE  d = Date(TS(i))
    <3>1. i \in OnDay(d)
      BY <1>1, <2>3, SortedReadings DEF DailyReadings
    <3> QED
      BY <3>1 DEF OnDay
  <2>4. {d \in AvailableDates : \E s \in DailyReadings(d) : i \in ToSet(s)} = {Date(TS(i))}
    BY <2>1, <2>2, <2>3
  <2> QED
    BY <2>4, FS_Singleton
<1>4. GetSummary.first \cup GetSummary.last \subseteq AvailableDates
  <2>1. CASE Ids = {}
    BY <2>1 DEF GetSummary
  <2>2. CASE Ids # {}
    <3> DEFINE T == {TS(i) : i \in Ids}
    <3>1. T \in SUBSET (0..MaxNow) /\ T # {} /\ MaxNow \in Nat
      BY <2>2, Tables, ReportsOK DEF ReportsOK
    <3>2. Min(T) \in T /\ Max(T) \in T
      BY <3>1, MinMax
    <3>3. GetSummary.first = {Date(Min(T))} /\ GetSummary.last = {Date(Max(T))}
      BY <2>2 DEF GetSummary
    <3> HIDE DEF T
    <3>4. \A t \in T : Date(t) \in AvailableDates
      BY DEF T, AvailableDates, Dates
    <3> QED
      BY <3>2, <3>3, <3>4
  <2> QED
    BY <2>1, <2>2
<1> QED
  BY <1>2, <1>3, <1>4 DEF ExportComplete

(* Going through the dates offered gives every reading just once, and the  *)
(* summary's first and last date are among them.                           *)
THEOREM NothingUnexported == Spec => []ExportComplete
<1>1. TypeOK => ExportComplete
  BY Exported
<1> QED
  BY <1>1, ReportsTypes, PTL

-----------------------------------------------------------------------------
(* The days.                                                               *)
LEMMA ChartIds ==
  ASSUME TypeOK, NEW days
  PROVE  \E ids \in SUBSET Capable :
           /\ CapacityHistory(days) = Sorted(ids)
           /\ \A i \in ids : TS(i) >= Cutoff(days, DayLen)
           /\ \A d \in Int : \A i \in Capable \cap Since(Cutoff(days, DayLen)) :
                i \in Latest(Capable \cap Since(Cutoff(days, DayLen)) \cap OnDay(d)) => i \in ids
<1> DEFINE since == Capable \cap Since(Cutoff(days, DayLen))
           last == UNION {{TS(i) : i \in Latest(since \cap OnDay(d))} : d \in Dates(since)}
           ids == {i \in Capable : TS(i) \in last}
<1>1. CapacityHistory(days) = Sorted(ids)
  BY DEF CapacityHistory
<1>2. ASSUME NEW i \in ids
      PROVE  TS(i) >= Cutoff(days, DayLen)
  <2>1. PICK d \in Dates(since) : TS(i) \in {TS(j) : j \in Latest(since \cap OnDay(d))}
    OBVIOUS
  <2>2. PICK j \in Latest(since \cap OnDay(d)) : TS(i) = TS(j)
    BY <2>1
  <2> QED
    BY <2>2 DEF Latest, Since
<1>3. ASSUME NEW d \in Int, NEW i \in since, i \in Latest(since \cap OnDay(d))
      PROVE  i \in ids
  <2>1. d = Date(TS(i)) /\ d \in Dates(since)
    BY <1>3 DEF Latest, OnDay, Dates
  <2>2. TS(i) \in {TS(j) : j \in Latest(since \cap OnDay(d))}
    BY <1>3
  <2>3. TS(i) \in last
    BY <2>1, <2>2, Zenon
  <2> QED
    BY <2>3
<1>4. ids \in SUBSET Capable
  OBVIOUS
<1> HIDE DEF ids, last
<1> QED
  BY <1>1, <1>2, <1>3, <1>4

(* A row of the daily table.                                               *)
LEMMA DayShown ==
  ASSUME TypeOK, NEW days, NEW row \in DailyStats(days)
  PROVE  /\ \A s \in DailyReadings(row.date) : row.readings = Len(s)
         /\ row.designed > 0 =>
              \A s \in CapacityHistory(days) :
                \E i \in ToSet(s) : Date(TS(i)) = row.date /\ readings[i].full = row.full
<1> DEFINE since == Since(Cutoff(days, DayLen))
<1>1. PICK d \in Dates(since) : \E i \in Latest(OnDay(d) \cap since) : row = DailyRow(d, i)
  BY DEF DailyStats
<1>2. PICK i \in Latest(OnDay(d) \cap since) : row = DailyRow(d, i)
  BY <1>1
<1>3. row.date = d /\ row.readings = Cardinality(OnDay(d))
      /\ row.full = readings[i].full /\ row.designed = readings[i].designed
  BY <1>2 DEF DailyRow
<1>4. \A s \in DailyReadings(d) : Len(s) = Cardinality(OnDay(d))
  BY SortedReadings DEF DailyReadings, OnDay
<1>5. ASSUME row.designed > 0, NEW s \in CapacityHistory(days)
      PROVE  \E j \in ToSet(s) : Date(TS(j)) = row.date /\ readings[j].full = row.full
  <2>1. i \in Ids /\ i \in since /\ i \in OnDay(d) /\ Date(TS(i)) = d /\ d \in Int
    BY <1>2, Tables, ReportsOK DEF ReportsOK, Latest, OnDay, Since, Date
  <2>2. i \in Capable \cap since
    BY <1>3, <1>5, <2>1 DEF Capable
  <2>3. i \in Latest(Capable \cap since \cap OnDay(d))
    BY <1>2, <2>1, <2>2 DEF Latest
  <2>4. PICK ids \in SUBSET Capable :
          /\ CapacityHistory(days) = Sorted(ids)
          /\ \A e \in Int : \A j \in Capable \cap since :
               j \in Latest(Capable \cap since \cap OnDay(e)) => j \in ids
    BY ChartIds
  <2>5. i \in ids
    BY <2>1, <2>2, <2>3, <2>4
  <2>6. ToSet(s) = ids
    BY <1>5, <2>4, SortedReadings DEF Capable
  <2> QED
    BY <1>3, <2>1, <2>5, <2>6
<1> QED
  BY <1>3, <1>4, <1>5

(* The last point of the capacity chart is a latest reading of all.        *)
LEMMA ChartEnd ==
  ASSUME TypeOK, NEW days \in Spans, NEW s \in CapacityHistory(days), s # <<>>
  PROVE  Last(s) \in Latest(Capable)
<1> DEFINE since == Capable \cap Since(Cutoff(days, DayLen))
<1>1. PICK ids \in SUBSET Capable :
        /\ CapacityHistory(days) = Sorted(ids)
        /\ \A i \in ids : TS(i) >= Cutoff(days, DayLen)
        /\ \A d \in Int : \A i \in since : i \in Latest(since \cap OnDay(d)) => i \in ids
  BY ChartIds
<1>2. ids \in SUBSET Ids
  BY DEF Capable
<1>3. /\ Len(s) \in Nat /\ DOMAIN s = 1..Len(s) /\ s \in Seq(ids) /\ ToSet(s) = ids
      /\ \A i, j \in DOMAIN s : i < j => TS(s[i]) <= TS(s[j])
  BY <1>1, <1>2, SortedReadings
<1>4. Len(s) \in DOMAIN s
  BY <1>3, EmptySeq
<1>5. Last(s) \in ids
  BY <1>3, <1>4 DEF Last, ToSet
<1>6. ASSUME NEW i \in ids
      PROVE  TS(i) <= TS(Last(s))
  <2>1. PICK k \in DOMAIN s : i = s[k]
    BY <1>3 DEF ToSet
  <2>2. TS(i) \in Int
    BY <1>2, Tables
  <2>3. CASE k = Len(s)
    BY <2>1, <2>2, <2>3 DEF Last
  <2>4. CASE k # Len(s)
    <3>1. k < Len(s)
      BY <1>3, <2>4
    <3> QED
      BY <1>3, <1>4, <2>1, <3>1 DEF Last
  <2> QED
    BY <2>3, <2>4
<1>7. ASSUME NEW j \in Capable
      PROVE  TS(j) <= TS(Last(s))
  <2>1. j \in Ids /\ TS(j) \in Int /\ TS(Last(s)) \in Int /\ Cutoff(days, DayLen) \in Int
    BY <1>2, <1>5, Tables, ReportsOK DEF ReportsOK, Capable, Cutoff, TypeOK
  <2>2. CASE j \notin since
    <3>1. ~(TS(j) >= Cutoff(days, DayLen))
      BY <2>1, <2>2 DEF Since
    <3>2. TS(Last(s)) >= Cutoff(days, DayLen)
      BY <1>1, <1>5
    <3> QED
      BY <2>1, <3>1, <3>2
  <2>3. CASE j \in since
    <3> DEFINE d == Date(TS(j))
               day == since \cap OnDay(d)
    <3>1. d \in Int /\ j \in day /\ day \in SUBSET Ids
      BY <2>1, <2>3, ReportsOK DEF ReportsOK, Date, OnDay
    <3>2. PICK m \in day : m \in Latest(day)
      BY <3>1, LatestThere
    <3>3. TS(j) <= TS(m) /\ m \in since
      BY <3>1, <3>2 DEF Latest
    <3>4. m \in ids
      BY <1>1, <3>1, <3>2, <3>3
    <3>5. TS(m) <= TS(Last(s)) /\ TS(m) \in Int
      BY <1>2, <1>6, <3>4, Tables
    <3> HIDE DEF d, day
    <3> QED
      BY <2>1, <3>3, <3>5
  <2> QED
    BY <2>2, <2>3
<1> QED
  BY <1>1, <1>5, <1>7 DEF Latest

LEMMA DaysDoAgree ==
  ASSUME ReportsInv
  PROVE  DaysAgree
<1>1. TypeOK
  BY DEF ReportsInv
<1>2. ASSUME NEW days \in Spans, NEW s \in CapacityHistory(days), s # <<>>
      PROVE  /\ readings[Last(s)].full > 0 => readings[Last(s)].full \in GetSummary.full
             /\ readings[Last(s)].designed \in GetSummary.designed
  <2>1. Last(s) \in Latest(Capable)
    BY <1>1, <1>2, ChartEnd
  <2>2. readings[Last(s)].designed \in GetSummary.designed
    BY <2>1 DEF GetSummary
  <2>3. ASSUME readings[Last(s)].full > 0
        PROVE  readings[Last(s)].full \in GetSummary.full
    <3> DEFINE known == {j \in Ids : readings[j].full > 0}
    <3>1. known \subseteq Capable
      <4> SUFFICES ASSUME NEW j \in Ids, readings[j].full > 0
                   PROVE  readings[j].designed > 0
        BY DEF Capable
      <4>1. readings[j].designed \in Nat /\ readings[j].designed # 0
        BY <1>1, Tables DEF ReportsInv, CapacitiesKept
      <4> QED
        BY <4>1
    <3>2. Last(s) \in known
      BY <2>1, <2>3 DEF Latest, Capable
    <3>3. Last(s) \in Latest(known)
      BY <2>1, <3>1, <3>2 DEF Latest
    <3> QED
      BY <3>3 DEF GetSummary
  <2> QED
    BY <2>2, <2>3
<1> QED
  BY <1>1, <1>2, DayShown DEF DaysAgree

-----------------------------------------------------------------------------
(* The end of the table.                                                   *)
LEMMA RecentRows ==
  ASSUME TypeOK, NEW n \in Nat, NEW t \in Sorted(Ids)
  PROVE  LET s == Reverse(Limit(Reverse(t), n))
             m == Min({n, Len(t)})
         IN  /\ m \in 0..Len(t) /\ Len(s) = m /\ DOMAIN s = 1..m
             /\ \A k \in 1..m : s[k] = t[Len(t) - m + k]
<1> DEFINE l == Len(t)
           m == Min({n, Len(t)})
           r == Reverse(t)
<1>1. l \in Nat
  BY SortedReadings
<1>2. m \in 0..l
  <2>1. {n, l} \in SUBSET (0..n + l) /\ n + l \in Nat
    BY <1>1
  <2>2. m \in {n, l} /\ m <= l
    BY <2>1, MinMax
  <2> QED
    BY <1>1, <2>2
<1>3. Len(r) = l /\ \A k \in 1..l : r[k] = t[l - k + 1]
  BY <1>1 DEF Reverse
<1>4. Limit(r, n) = SubSeq(r, 1, m)
  BY <1>3 DEF Limit
<1> DEFINE u == SubSeq(r, 1, m)
<1>5. Len(u) = m /\ \A k \in 1..m : u[k] = r[k]
  <2>1. \A k \in 1..m : r[k] \in {r[j] : j \in 1..m}
    OBVIOUS
  <2> HIDE DEF r, m
  <2> QED
    BY <1>2, <2>1, SubSeqProperties
<1> HIDE DEF l, m, r, u
<1>6. Len(Reverse(u)) = m /\ DOMAIN Reverse(u) = 1..m
      /\ \A k \in 1..m : Reverse(u)[k] = u[m - k + 1]
  BY <1>1, <1>2, <1>5 DEF Reverse
<1>7. ASSUME NEW k \in 1..m
      PROVE  Reverse(u)[k] = t[l - m + k]
  <2>1. m - k + 1 \in 1..m /\ m - k + 1 \in 1..l /\ l - (m - k + 1) + 1 = l - m + k
    BY <1>1, <1>2
  <2>2. u[m - k + 1] = r[m - k + 1] /\ r[m - k + 1] = t[l - (m - k + 1) + 1]
    BY <1>3, <1>5, <2>1
  <2> QED
    BY <1>6, <2>1, <2>2
<1> QED
  BY <1>2, <1>4, <1>6, <1>7 DEF l, m, r, u

LEMMA RecentDoEnd ==
  ASSUME TypeOK
  PROVE  RecentAreLast
<1> SUFFICES ASSUME NEW n \in Spans, NEW s \in RecentReadings(n)
             PROVE  /\ Len(s) = Min({n, Len(readings)})
                    /\ \A i, j \in DOMAIN s : i < j => TS(s[i]) <= TS(s[j])
                    /\ \A i \in Ids \ ToSet(s) : \A j \in ToSet(s) : TS(i) <= TS(j)
  BY DEF RecentAreLast
<1>1. PICK t \in Sorted(Ids) : s = Reverse(Limit(Reverse(t), n))
  BY DEF RecentReadings
<1> DEFINE l == Len(t)
           m == Min({n, Len(t)})
<1>2. /\ l \in Nat /\ DOMAIN t = 1..l /\ ToSet(t) = Ids
      /\ \A i, j \in DOMAIN t : i < j => TS(t[i]) <= TS(t[j])
      /\ l = Len(readings)
  BY Tables, SortedReadings
<1>3. n \in Nat
  BY ReportsOK DEF ReportsOK
<1>4. /\ m \in 0..l /\ Len(s) = m /\ DOMAIN s = 1..m
      /\ \A k \in 1..m : s[k] = t[l - m + k]
  BY <1>1, <1>3, RecentRows
<1>5. Len(s) = Min({n, Len(readings)})
  BY <1>2, <1>4
<1> HIDE DEF l, m
<1>6. \A k \in 1..m : l - m + k \in DOMAIN t
  BY <1>2, <1>4
<1>7. ASSUME NEW i \in DOMAIN s, NEW j \in DOMAIN s, i < j
      PROVE  TS(s[i]) <= TS(s[j])
  <2>1. i \in 1..m /\ j \in 1..m /\ l - m + i < l - m + j
    BY <1>2, <1>4, <1>7
  <2> QED
    BY <1>2, <1>4, <1>6, <2>1
<1>8. ASSUME NEW i \in Ids \ ToSet(s), NEW j \in ToSet(s)
      PROVE  TS(i) <= TS(j)
  <2>1. PICK a \in DOMAIN t : i = t[a]
    BY <1>2 DEF ToSet
  <2>2. PICK k \in 1..m : j = t[l - m + k]
    BY <1>4 DEF ToSet
  <2>3. a <= l - m
    <3> SUFFICES ASSUME a > l - m
                 PROVE  FALSE
      BY <1>2, <1>4
    <3>1. a - (l - m) \in 1..m /\ l - m + (a - (l - m)) = a
      BY <1>2, <1>4
    <3>2. s[a - (l - m)] = i /\ a - (l - m) \in DOMAIN s
      BY <1>4, <2>1, <3>1
    <3> QED
      BY <3>2 DEF ToSet
  <2>4. a < l - m + k
    BY <1>2, <1>4, <2>3
  <2> QED
    BY <1>2, <1>6, <2>1, <2>2, <2>4
<1> QED
  BY <1>5, <1>7, <1>8

-----------------------------------------------------------------------------
(* The power chart.  Division with remainder.                              *)
LEMMA Division ==
  ASSUME NEW a \in Nat, NEW b \in Nat \ {0}
  PROVE  /\ a \div b \in Nat /\ a % b \in 0..b-1
         /\ a = b * (a \div b) + (a % b)
  OBVIOUS

LEMMA Multiples ==
  ASSUME NEW b \in Nat \ {0}, NEW j \in Int, NEW k \in Int, j < k
  PROVE  j * b + b <= k * b
<1>1. k - j - 1 \in Nat /\ (k - j - 1) * b \in Nat
  OBVIOUS
<1>2. (k - j - 1) * b = k * b - j * b - b
  OBVIOUS
<1>3. j * b \in Int /\ k * b \in Int
  OBVIOUS
<1> QED
  BY <1>1, <1>2, <1>3

LEMMA ProductMonotone ==
  ASSUME NEW a \in Nat, NEW b \in Nat, NEW c \in Nat, a >= b
  PROVE  a * c >= b * c
<1>1. (a - b) * c \in Nat /\ (a - b) * c = a * c - b * c
  OBVIOUS
<1>2. a * c \in Int /\ b * c \in Int
  OBVIOUS
<1> QED
  BY <1>1, <1>2

LEMMA FirstOfStride ==
  ASSUME NEW st \in Nat \ {0}, st > 1, NEW q \in Nat
  PROVE  (q * st + 1) % st = 1
<1> DEFINE a == q * st + 1
           d == a \div st
<1>1. a \in Nat /\ q * st \in Nat
  OBVIOUS
<1>2. d \in Nat /\ a % st \in 0..st-1 /\ a = st * d + (a % st)
  BY <1>1, Division
<1>3. st * d = d * st /\ d * st \in Nat
  BY <1>2
<1> HIDE DEF d
<1>4. ~(d < q)
  <2> SUFFICES ASSUME d < q
               PROVE  FALSE
    OBVIOUS
  <2>1. d * st + st <= q * st
    BY <1>2, Multiples
  <2> QED
    BY <1>1, <1>2, <1>3, <2>1
<1>5. ~(q < d)
  <2> SUFFICES ASSUME q < d
               PROVE  FALSE
    OBVIOUS
  <2>1. q * st + st <= d * st
    BY <1>2, Multiples
  <2> QED
    BY <1>1, <1>2, <1>3, <2>1
<1>6. d = q
  BY <1>2, <1>4, <1>5
<1> QED
  BY <1>1, <1>2, <1>3, <1>6

(* So many rows does the chart take of n.                                  *)
LEMMA Thinned ==
  ASSUME NEW n \in Nat, NEW st \in Nat \ {0}, st > 1
  PROVE  LET at == {rn \in 1..n : rn % st = 1}
         IN  /\ Cardinality(at) \in Nat
             /\ n - Cardinality(at) * st \in 1 - st..0
             /\ \A k \in 1..Cardinality(at) : (k - 1) * st + 1 \in 1..n
<1> DEFINE at == {rn \in 1..n : rn % st = 1}
           a == n + st - 1
           c == a \div st
           f == [k \in 1..c |-> (k - 1) * st + 1]
<1>1. a \in Nat
  OBVIOUS
<1>2. c \in Nat /\ a % st \in 0..st-1 /\ a = st * c + (a % st)
  BY <1>1, Division
<1>3. st * c = c * st /\ c * st \in Nat
  BY <1>2
<1>4. n - c * st \in 1 - st..0
  BY <1>2, <1>3
<1> HIDE DEF c
<1>5. ASSUME NEW k \in 1..c
      PROVE  (k - 1) * st + 1 \in at
  <2>1. k - 1 \in Nat /\ (k - 1) * st \in Nat
    BY <1>2
  <2>2. (k - 1) * st + st <= c * st
    BY <1>2, Multiples
  <2>3. (k - 1) * st + 1 <= n
    BY <1>2, <1>3, <2>1, <2>2
  <2>4. ((k - 1) * st + 1) % st = 1
    BY <2>1, FirstOfStride
  <2> QED
    BY <2>1, <2>3, <2>4
<1>6. f \in [1..c -> at]
  BY <1>5
<1>7. ASSUME NEW j \in 1..c, NEW k \in 1..c, f[j] = f[k]
      PROVE  j = k
  <2>1. \A i1, i2 \in 1..c : i1 < i2 => (i1 - 1) * st + st <= (i2 - 1) * st
    BY <1>2, Multiples
  <2>2. (j - 1) * st = (k - 1) * st /\ (j - 1) * st \in Int
    BY <1>2, <1>7
  <2>3. ~(j < k) /\ ~(k < j)
    BY <2>1, <2>2
  <2> QED
    BY <1>2, <2>3
<1>8. ASSUME NEW rn \in at
      PROVE  \E k \in 1..c : f[k] = rn
  <2> DEFINE q == rn \div st
  <2>1. rn \in Nat /\ rn % st = 1 /\ rn <= n
    OBVIOUS
  <2>2. q \in Nat /\ rn = st * q + 1 /\ st * q = q * st /\ q * st \in Nat
    BY <2>1, Division
  <2> HIDE DEF q
  <2>3. q < c
    <3> SUFFICES ASSUME c <= q
                 PROVE  FALSE
      BY <1>2, <2>2
    <3>1. c * st <= q * st
      <4>1. CASE c = q
        BY <1>3, <4>1
      <4>2. CASE c < q
        <5>1. c * st + st <= q * st
          BY <1>2, <2>2, <4>2, Multiples
        <5> QED
          BY <1>3, <2>2, <5>1
      <4> QED
        BY <1>2, <2>2, <4>1, <4>2
    <3> QED
      BY <1>3, <1>4, <2>1, <2>2, <3>1
  <2>4. q + 1 \in 1..c /\ q + 1 - 1 = q
    BY <1>2, <2>2, <2>3
  <2>5. f[q + 1] = rn
    BY <2>2, <2>4
  <2> QED
    BY <2>4, <2>5
<1> HIDE DEF f, at
<1>9. f \in Bijection(1..c, at)
  BY <1>6, <1>7, <1>8 DEF Bijection, Injection, Surjection, IsInjective
<1>10. Cardinality(at) = c
  <2>1. ExistsBijection(1..c, at)
    BY <1>9 DEF ExistsBijection
  <2> QED
    BY <1>2, <2>1, FS_CountingElements
<1>11. \A k \in 1..c : (k - 1) * st + 1 \in 1..n
  BY <1>5 DEF at
<1> QED
  BY <1>2, <1>4, <1>10, <1>11 DEF at

LEMMA StrideType ==
  ASSUME NEW hours \in Spans
  PROVE  Stride(hours) \in Nat \ {0}
<1> DEFINE x == (hours * PerHour) \div MaxPoints
<1>1. hours \in Nat /\ PerHour \in Nat /\ MaxPoints \in Nat \ {0}
  BY ReportsOK DEF ReportsOK
<1>2. hours * PerHour \in Nat
  BY <1>1
<1>3. x \in Nat
  BY <1>1, <1>2, Division
<1> HIDE DEF x
<1>4. {1, x} \in SUBSET (0..x + 1) /\ x + 1 \in Nat
  BY <1>3
<1>5. Max({1, x}) \in {1, x} /\ 1 <= Max({1, x})
  BY <1>4, MinMax
<1> QED
  BY <1>3, <1>5 DEF Stride, x

LEMMA PowerDoesThin ==
  ASSUME TypeOK
  PROVE  PowerSampled
<1> SUFFICES ASSUME NEW hours \in Spans, Stride(hours) > 1,
                    NEW s \in PowerHistory(hours)
             PROVE  LET window == Since(Cutoff(hours, HourLen))
                    IN  /\ ToSet(s) \subseteq window
                        /\ window # {} => s # <<>> /\ Head(s) \in Earliest(window)
                        /\ Cardinality(window) - Len(s) * Stride(hours) \in 1 - Stride(hours)..0
  BY DEF PowerSampled
<1> DEFINE window == Since(Cutoff(hours, HourLen))
           st == Stride(hours)
<1>1. st \in Nat \ {0} /\ st > 1
  BY StrideType
<1>2. window \in SUBSET Ids
  BY DEF Since
<1>3. PICK t \in Sorted(window) : s = Sample(t, st)
  BY DEF PowerHistory
<1> DEFINE n == Len(t)
           at == {rn \in 1..n : rn % st = 1}
           c == Cardinality(at)
<1> HIDE DEF window, st
<1>4. /\ n \in Nat /\ DOMAIN t = 1..n /\ ToSet(t) = window /\ n = Cardinality(window)
      /\ \A i, j \in DOMAIN t : i < j => TS(t[i]) <= TS(t[j])
  BY <1>2, <1>3, SortedReadings
<1> HIDE DEF n
<1>5. c \in Nat /\ n - c * st \in 1 - st..0 /\ \A k \in 1..c : (k - 1) * st + 1 \in 1..n
  BY <1>1, <1>4, Thinned
<1>6. s = [k \in 1..c |-> t[(k - 1) * st + 1]]
  BY <1>3, <1>4 DEF Sample
<1> HIDE DEF c
<1>7. Len(s) = c /\ DOMAIN s = 1..c
  BY <1>5, <1>6
<1>8. ToSet(s) \subseteq window
  BY <1>4, <1>5, <1>6, <1>7 DEF ToSet
<1>9. ASSUME window # {}
      PROVE  s # <<>> /\ Head(s) \in Earliest(window)
  <2>1. n > 0
    BY <1>4, <1>9 DEF ToSet
  <2>2. c # 0
    <3> SUFFICES ASSUME c = 0
                 PROVE  FALSE
      OBVIOUS
    <3>1. c * st = 0
      BY <1>1
    <3> QED
      BY <1>4, <1>5, <2>1, <3>1
  <2>3. 1 \in 1..c /\ (1 - 1) * st + 1 = 1
    BY <1>1, <1>5, <2>2
  <2>4. s # <<>> /\ Head(s) = t[1]
    BY <1>6, <1>7, <2>3
  <2>5. 1 \in DOMAIN t /\ t[1] \in window
    BY <1>4, <2>1 DEF ToSet
  <2>6. ASSUME NEW i \in window
        PROVE  TS(i) >= TS(t[1])
    <3>1. PICK k \in DOMAIN t : i = t[k]
      BY <1>4 DEF ToSet
    <3>2. TS(i) \in Int /\ TS(t[1]) \in Int
      BY <1>2, <2>5, Tables
    <3>3. k = 1 \/ 1 < k
      BY <1>4
    <3> QED
      BY <1>4, <2>5, <3>1, <3>2, <3>3
  <2> QED
    BY <2>4, <2>5, <2>6 DEF Earliest
<1>10. Cardinality(window) - Len(s) * st \in 1 - st..0
  BY <1>4, <1>5, <1>7
<1> QED
  BY <1>8, <1>9, <1>10 DEF window, st

(* A power chart that leaves readings out begins with the oldest reading   *)
(* of its window, stays in the window and takes one in Stride.             *)
THEOREM ChartThinned == Spec => []PowerSampled
<1>1. TypeOK => PowerSampled
  BY PowerDoesThin
<1> QED
  BY <1>1, ReportsTypes, PTL

-----------------------------------------------------------------------------
(* The table of processes.                                                 *)
LEMMA ProcTable ==
  ASSUME TypeOK
  PROVE  /\ IsFiniteSet(DOMAIN procs)
         /\ \A p \in DOMAIN procs : procs[p].cpu \in Nat
<1> DEFINE Row == [ts : 0..MaxNow, name : STRING, cpu : Nat]
<1>1. procs \in Seq(Row)
  BY DEF TypeOK
<1>2. Len(procs) \in Nat /\ DOMAIN procs = 1..Len(procs) /\ \A p \in DOMAIN procs : procs[p] \in Row
  <2> HIDE DEF Row
  <2> QED
    BY <1>1, LenProperties, ElementOfSeq
<1>3. IsFiniteSet(1..Len(procs))
  BY <1>2, Interval
<1> QED
  BY <1>2, <1>3

(* The processes.  Total is a recursive function on the subsets of a set:  *)
(* there is one, shown for subsets of ever more elements.                  *)
Some(s) == CHOOSE x \in s : TRUE

SumStep(f, s) == IF s = {} THEN 0 ELSE procs[Some(s)].cpu + f[s \ {Some(s)}]

Sums(f, S) == f = [s \in SUBSET S |-> SumStep(f, s)]

UpTo(n, S) == {s \in SUBSET S : Cardinality(s) <= n}

SumsUpTo(f, n, S) ==
  /\ f \in [UpTo(n, S) -> Nat]
  /\ \A s \in UpTo(n, S) : f[s] = SumStep(f, s)

LEMMA Shrunk ==
  ASSUME NEW s, IsFiniteSet(s), s # {}
  PROVE  /\ Some(s) \in s /\ IsFiniteSet(s \ {Some(s)})
         /\ Cardinality(s) \in Nat /\ Cardinality(s) > 0
         /\ Cardinality(s \ {Some(s)}) = Cardinality(s) - 1
<1>1. Some(s) \in s
  BY DEF Some
<1>2. Cardinality(s) \in Nat /\ Cardinality(s) # 0
  BY FS_CardinalityType, FS_EmptySet
<1> QED
  BY <1>1, <1>2, FS_RemoveElement

LEMMA SumsGrow ==
  ASSUME TypeOK, NEW S \in SUBSET DOMAIN procs, IsFiniteSet(S),
         NEW n \in Nat, NEW g, n = 0 \/ SumsUpTo(g, n - 1, S)
  PROVE  \E f : SumsUpTo(f, n, S)
<1> DEFINE f == [s \in UpTo(n, S) |-> SumStep(g, s)]
<1>1. \A s \in SUBSET S : IsFiniteSet(s) /\ Cardinality(s) \in Nat
  BY FS_Subset, FS_CardinalityType
<1>2. \A p \in S : procs[p].cpu \in Nat
  BY ProcTable
<1>3. ASSUME NEW s \in UpTo(n, S), s # {}
      PROVE  n # 0 /\ Some(s) \in S /\ s \ {Some(s)} \in UpTo(n - 1, S)
  BY <1>1, <1>3, Shrunk DEF UpTo
<1>4. ASSUME NEW s \in UpTo(n, S)
      PROVE  SumStep(g, s) \in Nat
  <2>1. CASE s = {}
    BY <2>1 DEF SumStep
  <2>2. CASE s # {}
    <3>1. SumStep(g, s) = procs[Some(s)].cpu + g[s \ {Some(s)}]
      BY <2>2 DEF SumStep
    <3>2. g[s \ {Some(s)}] \in Nat
      BY <1>3, <2>2 DEF SumsUpTo
    <3>3. procs[Some(s)].cpu \in Nat
      BY <1>2, <1>3, <2>2
    <3> QED
      BY <3>1, <3>2, <3>3
  <2> QED
    BY <2>1, <2>2
<1>5. f \in [UpTo(n, S) -> Nat]
  BY <1>4
<1>6. ASSUME NEW s \in UpTo(n, S)
      PROVE  f[s] = SumStep(f, s)
  <2>1. CASE s = {}
    BY <2>1 DEF SumStep
  <2>2. CASE s # {}
    <3> DEFINE r == s \ {Some(s)}
    <3>1. n # 0 /\ r \in UpTo(n - 1, S) /\ SumsUpTo(g, n - 1, S)
      BY <1>3, <2>2
    <3>2. r \in UpTo(n, S)
      BY <1>1, <3>1 DEF UpTo
    <3>3. f[r] = SumStep(g, r) /\ g[r] = SumStep(g, r)
      BY <3>1, <3>2 DEF SumsUpTo
    <3>4. SumStep(g, s) = procs[Some(s)].cpu + g[r] /\ SumStep(f, s) = procs[Some(s)].cpu + f[r]
      BY <2>2 DEF SumStep
    <3>5. f[s] = SumStep(g, s)
      OBVIOUS
    <3> HIDE DEF f, r
    <3> QED
      BY <3>3, <3>4, <3>5
  <2> QED
    BY <2>1, <2>2
<1> HIDE DEF f
<1>7. SumsUpTo(f, n, S)
  BY <1>5, <1>6 DEF SumsUpTo
<1> QED
  BY <1>7

LEMMA SumsThere ==
  ASSUME TypeOK, NEW S \in SUBSET DOMAIN procs, IsFiniteSet(S)
  PROVE  \E f : Sums(f, S)
<1> DEFINE N == {n \in Nat : ~\E f : SumsUpTo(f, n, S)}
<1>1. N = {}
  <2> SUFFICES ASSUME N # {}
               PROVE  FALSE
    OBVIOUS
  <2>1. PICK n \in N : \A k \in N : n <= k
    BY LeastOf
  <2>2. \E g : n = 0 \/ SumsUpTo(g, n - 1, S)
    <3>1. CASE n # 0
      <4>1. n - 1 \in Nat /\ n - 1 \notin N
        BY <2>1, <3>1
      <4> QED
        BY <4>1
    <3> QED
      BY <3>1
  <2>3. \E f : SumsUpTo(f, n, S)
    BY <2>2, SumsGrow
  <2> QED
    BY <2>3
<1> DEFINE c == Cardinality(S)
<1>2. c \in Nat /\ \A s \in SUBSET S : Cardinality(s) <= c
  BY FS_CardinalityType, FS_Subset
<1>3. PICK f : SumsUpTo(f, c, S)
  BY <1>1, <1>2
<1>4. UpTo(c, S) = SUBSET S
  BY <1>2 DEF UpTo
<1>5. f = [s \in SUBSET S |-> SumStep(f, s)]
  BY <1>3, <1>4 DEF SumsUpTo
<1> QED
  BY <1>5 DEF Sums

LEMMA TotalOf ==
  ASSUME TypeOK, NEW S \in SUBSET DOMAIN procs, IsFiniteSet(S)
  PROVE  \E f : Sums(f, S) /\ Total(S) = f[S]
<1> DEFINE F == CHOOSE f : Sums(f, S)
<1>1. Sums(F, S)
  BY SumsThere
<1>2. Total(S) = F[S]
  BY DEF Total, MapThenSumSet, MapThenFoldSet, Sums, SumStep, Some
<1> QED
  BY <1>1, <1>2

(* An average lies between the bounds of what is averaged.                 *)
LEMMA TotalBounds ==
  ASSUME TypeOK, NEW S \in SUBSET DOMAIN procs, IsFiniteSet(S), NEW c \in Nat
  PROVE  /\ Total(S) \in Nat
         /\ (\A p \in S : procs[p].cpu >= c) => Total(S) >= c * Cardinality(S)
         /\ (\A p \in S : procs[p].cpu <= c) => Total(S) <= c * Cardinality(S)
<1>1. PICK f : Sums(f, S) /\ Total(S) = f[S]
  BY TotalOf
<1> DEFINE Bounded(s) ==
             /\ f[s] \in Nat
             /\ (\A p \in S : procs[p].cpu >= c) => f[s] >= c * Cardinality(s)
             /\ (\A p \in S : procs[p].cpu <= c) => f[s] <= c * Cardinality(s)
           Bad == {s \in SUBSET S : ~Bounded(s)}
           N == {Cardinality(s) : s \in Bad}
<1>2. \A s \in SUBSET S : IsFiniteSet(s) /\ Cardinality(s) \in Nat /\ f[s] = SumStep(f, s)
  BY <1>1, FS_Subset, FS_CardinalityType DEF Sums
<1>3. \A p \in S : procs[p].cpu \in Nat
  BY ProcTable
<1> HIDE DEF Bounded
<1>4. ASSUME Bad # {}
      PROVE  FALSE
  <2>1. N \in SUBSET Nat /\ N # {}
    BY <1>2, <1>4
  <2>2. PICK s \in Bad : \A r \in Bad : Cardinality(s) <= Cardinality(r)
    <3>1. PICK m \in N : \A k \in N : m <= k
      BY <2>1, LeastOf
    <3> QED
      BY <3>1
  <2>3. CASE s = {}
    <3>1. Cardinality(s) = 0 /\ f[s] = 0
      BY <1>2, <2>3, FS_EmptySet DEF SumStep
    <3> QED
      BY <3>1 DEF Bounded
  <2>4. CASE s # {}
    <3> DEFINE r == s \ {Some(s)}
               x == procs[Some(s)].cpu
               m == Cardinality(r)
    <3>1. /\ Some(s) \in s /\ r \in SUBSET S
          /\ Cardinality(r) = Cardinality(s) - 1 /\ Cardinality(s) \in Nat
      BY <1>2, <2>4, Shrunk
    <3>2. r \notin Bad
      BY <2>2, <3>1
    <3>3. /\ f[r] \in Nat
          /\ (\A p \in S : procs[p].cpu >= c) => f[r] >= c * m
          /\ (\A p \in S : procs[p].cpu <= c) => f[r] <= c * m
      BY <3>1, <3>2 DEF Bounded
    <3>4. f[s] = x + f[r]
      BY <1>2, <2>4 DEF SumStep
    <3>5. x \in Nat
      BY <1>3, <3>1
    <3>6. (\A p \in S : procs[p].cpu >= c) => x >= c
      BY <3>1
    <3>7. (\A p \in S : procs[p].cpu <= c) => x <= c
      BY <3>1
    <3>8. m \in Nat /\ Cardinality(s) = m + 1
      BY <1>2, <3>1
    <3> HIDE DEF m, x, r
    <3>9. c * Cardinality(s) = c * m + c /\ c * m \in Nat
      BY <3>8
    <3>10. Bounded(s)
      BY <3>3, <3>4, <3>5, <3>6, <3>7, <3>9 DEF Bounded
    <3> QED
      BY <3>10
  <2> QED
    BY <2>3, <2>4
<1>5. Bounded(S)
  BY <1>4
<1> QED
  BY <1>1, <1>5 DEF Bounded

(* If each of some processes used less in each sample than each of the     *)
(* others, its average is less.                                            *)
LEMMA LessIsOutranked ==
  ASSUME TypeOK,
         NEW A \in SUBSET DOMAIN procs, IsFiniteSet(A), A # {},
         NEW B \in SUBSET DOMAIN procs, IsFiniteSet(B), B # {},
         \A q \in A, r \in B : procs[q].cpu < procs[r].cpu
  PROVE  Outranks(B, A)
<1>1. \A p \in DOMAIN procs : procs[p].cpu \in Nat
  BY ProcTable
<1>2. PICK m \in Nat : /\ \E r \in B : m = procs[r].cpu
                       /\ \A r \in B : m <= procs[r].cpu
  <2> DEFINE T == {procs[r].cpu : r \in B}
  <2>1. T \in SUBSET Nat /\ T # {}
    BY <1>1
  <2>2. PICK m \in T : \A k \in T : m <= k
    BY <2>1, LeastOf
  <2> QED
    BY <2>1, <2>2
<1>3. m - 1 \in Nat /\ \A q \in A : procs[q].cpu <= m - 1
  <2>1. \A q \in A : procs[q].cpu < m /\ procs[q].cpu \in Nat
    BY <1>1, <1>2
  <2> QED
    BY <2>1
<1> DEFINE a == Cardinality(A)
           b == Cardinality(B)
<1>4. a \in Nat /\ a > 0 /\ b \in Nat /\ b > 0
  BY FS_CardinalityType, FS_EmptySet
<1>5. Total(A) \in Nat /\ Total(A) <= (m - 1) * a
  BY <1>3, TotalBounds
<1>6. Total(B) \in Nat /\ Total(B) >= m * b
  <2>1. \A r \in B : procs[r].cpu >= m
    BY <1>1, <1>2
  <2> QED
    BY <2>1, TotalBounds
<1> HIDE DEF a, b
<1>7. Total(B) * a >= (m * b) * a
  BY <1>4, <1>6, ProductMonotone
<1>8. ((m - 1) * a) * b >= Total(A) * b
  BY <1>3, <1>4, <1>5, ProductMonotone
<1>9. (m * b) * a = ((m - 1) * a) * b + a * b /\ a * b > 0
  BY <1>4
<1>10. Total(B) * a \in Nat /\ Total(A) * b \in Nat /\ (m * b) * a \in Nat
       /\ ((m - 1) * a) * b \in Nat /\ a * b \in Nat
  BY <1>3, <1>4, <1>5, <1>6
<1>11. Total(B) * a > Total(A) * b
  BY <1>7, <1>8, <1>9, <1>10
<1> QED
  BY <1>11 DEF Outranks, a, b

(* A row of the table of processes and its timeline.                       *)
LEMMA TimelineLength ==
  ASSUME TypeOK, NEW hours, NEW name, NEW s \in ProcessTimeline(name, hours)
  PROVE  Len(s) = Cardinality(Named(ProcSince(Cutoff(hours, HourLen)), name))
<1> DEFINE ids == Named(ProcSince(Cutoff(hours, HourLen)), name)
<1>1. IsFiniteSet(ids)
  <2>1. ids \in SUBSET DOMAIN procs
    BY DEF Named, ProcSince
  <2> QED
    BY <2>1, ProcTable, FS_Subset
<1>2. s \in SetToSeqs(ids)
  BY DEF ProcessTimeline, InOrderOf
<1> QED
  BY <1>1, <1>2, Arranged

(* The names a limit leaves, and those it leaves out.                      *)
LEMMA Limited ==
  ASSUME NEW S, IsFiniteSet(S), NEW s \in SetToSeqs(S), NEW limit \in Nat
  PROVE  LET u == Limit(s, limit)
             shown == {u[k] : k \in DOMAIN u}
         IN  /\ DOMAIN u \subseteq DOMAIN s
             /\ \A k \in DOMAIN u : u[k] = s[k]
             /\ \A name \in S \ shown :
                  /\ Cardinality(shown) = limit
                  /\ \E j \in DOMAIN s : s[j] = name /\ \A k \in DOMAIN u : k < j
<1> DEFINE n == Len(s)
           m == Min({limit, n})
           u == Limit(s, limit)
           shown == {u[k] : k \in DOMAIN u}
<1>1. /\ n \in Nat /\ DOMAIN s = 1..n /\ ToSet(s) = S
      /\ \A i, j \in DOMAIN s : s[i] = s[j] => i = j
  BY Arranged
<1>2. u = SubSeq(s, 1, m)
  BY DEF Limit
<1> HIDE DEF n
<1>3. m \in 0..n /\ (m = limit \/ m = n)
  <2>1. {limit, n} \in SUBSET (0..limit + n) /\ limit + n \in Nat
    BY <1>1
  <2>2. m \in {limit, n} /\ m <= n
    BY <2>1, MinMax
  <2> QED
    BY <1>1, <2>2
<1> HIDE DEF m
<1>4. u \in Seq(S) /\ Len(u) = m /\ DOMAIN u = 1..m /\ \A k \in 1..m : u[k] = s[k]
  <2>1. \A k \in 1..m : s[k] \in S
    BY <1>1, <1>3 DEF ToSet
  <2>2. u \in Seq(S) /\ Len(u) = m /\ \A k \in 1..m : u[k] = s[k]
    BY <1>2, <1>3, <2>1, SubSeqProperties
  <2> QED
    BY <2>2, LenProperties
<1> HIDE DEF u
<1>5. DOMAIN u \subseteq DOMAIN s
  BY <1>1, <1>3, <1>4
<1>6. ASSUME NEW name \in S \ shown
      PROVE  /\ Cardinality(shown) = limit
             /\ \E j \in DOMAIN s : s[j] = name /\ \A k \in DOMAIN u : k < j
  <2>1. PICK j \in DOMAIN s : s[j] = name
    BY <1>1 DEF ToSet
  <2>2. m < j
    <3> SUFFICES ASSUME j <= m
                 PROVE  FALSE
      BY <1>1, <1>3
    <3>1. j \in 1..m
      BY <1>1, <1>3
    <3> QED
      BY <1>4, <2>1, <3>1
  <2>3. m = limit
    BY <1>1, <1>3, <2>2
  <2>4. u \in Bijection(1..m, shown)
    <3>1. u \in [1..m -> shown]
      BY <1>4
    <3>2. \A i, k \in 1..m : u[i] = u[k] => i = k
      BY <1>1, <1>3, <1>4
    <3> QED
      BY <1>4, <3>1, <3>2 DEF Bijection, Injection, Surjection, IsInjective
  <2>5. Cardinality(shown) = m
    BY <1>3, <2>4, FS_CountingElements DEF ExistsBijection
  <2> QED
    BY <1>1, <1>3, <1>4, <2>1, <2>2, <2>3, <2>5
<1> QED
  BY <1>4, <1>5, <1>6 DEF u

LEMMA ProcessesDoAgree ==
  ASSUME TypeOK
  PROVE  ProcessesAgree
<1> SUFFICES ASSUME NEW hours \in Spans, NEW limit \in Spans,
                    NEW rows \in TopProcesses(hours, limit)
             PROVE  LET shown == {row.name : row \in ToSet(rows)}
                        since == ProcSince(Cutoff(hours, HourLen))
                    IN /\ \A row \in ToSet(rows) : \A s \in ProcessTimeline(row.name, hours) :
                            Len(s) = row.samples
                       /\ \A p \in since : procs[p].name \notin shown =>
                            /\ Cardinality(shown) = limit
                            /\ \A name \in shown :
                                 \E q \in Named(since, name), r \in Named(since, procs[p].name) :
                                   procs[q].cpu >= procs[r].cpu
  BY DEF ProcessesAgree
<1> DEFINE shown == {row.name : row \in ToSet(rows)}
           since == ProcSince(Cutoff(hours, HourLen))
           names == {procs[p].name : p \in since}
           row(name) == [name |-> name, samples |-> Cardinality(Named(since, name))]
<1>1. PICK s \in SetToSeqs(names) :
        /\ \A i, j \in DOMAIN s :
             i < j => ~Outranks(Named(since, s[j]), Named(since, s[i]))
        /\ rows = [k \in DOMAIN Limit(s, limit) |-> [name \in names |-> row(name)][s[k]]]
  BY DEF TopProcesses
<1>2. since \in SUBSET DOMAIN procs /\ IsFiniteSet(since)
  <2>1. since \in SUBSET DOMAIN procs
    BY DEF ProcSince
  <2> QED
    BY <2>1, ProcTable, FS_Subset
<1>3. IsFiniteSet(names)
  <2> DEFINE f == [p \in since |-> procs[p].name]
  <2>1. f \in Surjection(since, names)
    BY DEF Surjection
  <2> QED
    BY <1>2, <2>1, FS_Surjection
<1>4. limit \in Nat
  BY ReportsOK DEF ReportsOK
<1> DEFINE u == Limit(s, limit)
           left == {u[k] : k \in DOMAIN u}
<1> HIDE DEF since, names
<1>5. /\ DOMAIN u \subseteq DOMAIN s
      /\ \A k \in DOMAIN u : u[k] = s[k]
      /\ \A name \in names \ left :
           /\ Cardinality(left) = limit
           /\ \E j \in DOMAIN s : s[j] = name /\ \A k \in DOMAIN u : k < j
  BY <1>3, <1>4, Limited
<1>6. DOMAIN s \subseteq Int /\ \A k \in DOMAIN s : s[k] \in names
  BY <1>3, Arranged, ElementOfSeq
<1> HIDE DEF u
<1>7. DOMAIN rows = DOMAIN u /\ \A k \in DOMAIN u : rows[k] = row(s[k])
  BY <1>1, <1>5, <1>6 DEF u
<1>8. shown = left
  BY <1>5, <1>7 DEF ToSet
<1>9. \A r \in ToSet(rows) : \A line \in ProcessTimeline(r.name, hours) : Len(line) = r.samples
  <2> SUFFICES ASSUME NEW r \in ToSet(rows), NEW line \in ProcessTimeline(r.name, hours)
               PROVE  Len(line) = r.samples
    OBVIOUS
  <2>1. PICK k \in DOMAIN u : r = row(s[k])
    BY <1>7 DEF ToSet
  <2>2. r.name = s[k] /\ r.samples = Cardinality(Named(since, s[k]))
    BY <2>1
  <2>3. Len(line) = Cardinality(Named(since, r.name))
    BY TimelineLength DEF since
  <2> QED
    BY <2>2, <2>3
<1>10. ASSUME NEW p \in since, procs[p].name \notin shown
       PROVE  /\ Cardinality(shown) = limit
              /\ \A name \in shown :
                   \E q \in Named(since, name), r \in Named(since, procs[p].name) :
                     procs[q].cpu >= procs[r].cpu
  <2>1. procs[p].name \in names \ left
    BY <1>8, <1>10 DEF names
  <2>2. PICK j \in DOMAIN s : s[j] = procs[p].name /\ \A k \in DOMAIN u : k < j
    BY <1>5, <2>1
  <2>3. ASSUME NEW name \in shown,
               \A q \in Named(since, name), r \in Named(since, procs[p].name) :
                 ~(procs[q].cpu >= procs[r].cpu)
        PROVE  FALSE
    <3> DEFINE A == Named(since, name)
               B == Named(since, procs[p].name)
    <3>1. PICK i \in DOMAIN u : name = s[i]
      BY <1>5, <1>8
    <3>2. ~Outranks(B, A)
      BY <1>1, <1>5, <2>2, <3>1
    <3>3. A \in SUBSET DOMAIN procs /\ B \in SUBSET DOMAIN procs
          /\ IsFiniteSet(A) /\ IsFiniteSet(B)
      <4>1. A \in SUBSET since /\ B \in SUBSET since
        BY DEF Named
      <4> QED
        BY <1>2, <4>1, FS_Subset
    <3>4. p \in B /\ A # {}
      <4>1. s[i] \in names
        BY <1>5, <1>6
      <4> QED
        BY <3>1, <4>1 DEF Named, names
    <3>5. \A q \in A, r \in B : procs[q].cpu < procs[r].cpu
      <4>1. \A q \in DOMAIN procs : procs[q].cpu \in Nat
        BY ProcTable
      <4> QED
        BY <2>3, <3>3, <4>1
    <3> HIDE DEF A, B
    <3> QED
      BY <3>2, <3>3, <3>4, <3>5, LessIsOutranked
  <2> QED
    BY <1>5, <1>8, <2>1, <2>3
<1> QED
  BY <1>9, <1>10 DEF since

(* What one report shows, no other contradicts: days, processes and the    *)
(* last readings, whatever the clock did between the readings.             *)
THEOREM NoContradiction == Spec => []ReportsAgree
<1>1. ReportsInv => ReportsAgree
  BY DaysDoAgree, ProcessesDoAgree, RecentDoEnd DEF ReportsInv, ReportsAgree
<1> QED
  BY <1>1, ReportsKeepInv, PTL

-----------------------------------------------------------------------------
(* What the power chart shows of a window, by the numbers it reckons with. *)
LEMMA StrideOf ==
  ASSUME NEW hours \in Spans
  PROVE  LET reckoned == hours * PerHour
         IN  /\ reckoned \in Nat
             /\ reckoned < 2 * MaxPoints => Stride(hours) = 1
             /\ Stride(hours) > 1 => /\ Stride(hours) * MaxPoints <= reckoned
                                     /\ reckoned < Stride(hours) * MaxPoints + MaxPoints
<1> DEFINE total == hours * PerHour
           x == total \div MaxPoints
<1>1. hours \in Nat /\ PerHour \in Nat /\ MaxPoints \in Nat \ {0}
  BY ReportsOK DEF ReportsOK
<1>2. total \in Nat
  BY <1>1
<1> HIDE DEF total
<1>3. x \in Nat /\ total % MaxPoints \in 0..MaxPoints - 1
      /\ total = MaxPoints * x + (total % MaxPoints)
  BY <1>1, <1>2, Division
<1>4. MaxPoints * x = x * MaxPoints /\ x * MaxPoints \in Nat
  BY <1>1, <1>3
<1>5. Stride(hours) = Max({1, x})
  BY DEF Stride, total
<1> HIDE DEF x
<1>6. {1, x} \in SUBSET (0..x + 1) /\ x + 1 \in Nat
  BY <1>3
<1>7. Max({1, x}) \in {1, x} /\ 1 <= Max({1, x}) /\ x <= Max({1, x})
  BY <1>6, MinMax
<1>8. x * MaxPoints <= total /\ total < x * MaxPoints + MaxPoints
  BY <1>1, <1>2, <1>3, <1>4
<1>9. ASSUME total < 2 * MaxPoints
      PROVE  Stride(hours) = 1
  <2>1. ~(1 < x)
    <3> SUFFICES ASSUME 1 < x
                 PROVE  FALSE
      OBVIOUS
    <3>1. 1 * MaxPoints + MaxPoints <= x * MaxPoints
      BY <1>1, <1>3, Multiples
    <3> QED
      BY <1>1, <1>2, <1>4, <1>8, <1>9, <3>1
  <2> QED
    BY <1>3, <1>5, <1>7, <2>1
<1>10. Stride(hours) > 1 => Stride(hours) = x
  BY <1>3, <1>5, <1>7
<1> QED
  BY <1>2, <1>8, <1>9, <1>10 DEF total

(* The condition rn % stride = 1 holds for no row if the stride is 1: the  *)
(* chart of so short a window, up to 16 hours, is empty whatever is in it  *)
(* (storage.go:303).                                                       *)
ShortChartEmpty ==
  \A hours \in Spans : hours * PerHour < 2 * MaxPoints =>
    \A s \in PowerHistory(hours) : s = <<>>

LEMMA NothingSampled ==
  ASSUME TypeOK, NEW t, NEW window \in SUBSET Ids, t \in Sorted(window)
  PROVE  Sample(t, 1) = <<>>
<1> DEFINE at == {rn \in DOMAIN t : rn % 1 = 1}
<1>1. DOMAIN t = 1..Len(t) /\ Len(t) \in Nat
  BY SortedReadings
<1>2. at = {}
  <2>1. \A rn \in Nat : rn % 1 \in 0..1 - 1
    BY Division
  <2> QED
    BY <1>1, <2>1
<1>3. Cardinality(at) = 0
  BY <1>2, FS_EmptySet
<1> HIDE DEF at
<1>4. Sample(t, 1) = [k \in 1..Cardinality(at) |-> t[(k - 1) * 1 + 1]]
  BY DEF Sample, at
<1>5. Sample(t, 1) = [k \in 1..0 |-> t[(k - 1) * 1 + 1]]
  BY <1>3, <1>4
<1> QED
  BY <1>5

THEOREM ShortChartsAreEmpty == Spec => []ShortChartEmpty
<1>1. ASSUME TypeOK, NEW hours \in Spans, hours * PerHour < 2 * MaxPoints,
             NEW s \in PowerHistory(hours)
      PROVE  s = <<>>
  <2>1. Stride(hours) = 1
    BY <1>1, StrideOf
  <2>2. PICK t \in Sorted(Since(Cutoff(hours, HourLen))) : s = Sample(t, 1)
    BY <2>1 DEF PowerHistory
  <2>3. Since(Cutoff(hours, HourLen)) \in SUBSET Ids
    BY DEF Since
  <2> QED
    BY <1>1, <2>2, <2>3, NothingSampled
<1>2. TypeOK => ShortChartEmpty
  BY <1>1 DEF ShortChartEmpty
<1> QED
  BY <1>2, ReportsTypes, PTL

(* "Max 500 points" (storage.go:286): the division that gives the stride   *)
(* rounds down, so that of a window with no more readings than reckoned    *)
(* with the chart has up to half as many points again, 750.                *)
PointsBounded ==
  \A hours \in Spans :
    /\ Stride(hours) > 1
    /\ Cardinality(Since(Cutoff(hours, HourLen))) <= hours * PerHour
    => \A s \in PowerHistory(hours) : 2 * Len(s) <= 3 * MaxPoints

LEMMA PointsArithmetic ==
  ASSUME NEW m \in Nat \ {0}, NEW q \in Nat, q > 1, NEW n \in Nat, NEW l \in Nat,
         n < q * m + m, n - l * q >= 1 - q
  PROVE  2 * l <= 3 * m
<1>1. l * q \in Nat /\ q * m \in Nat /\ (3 * m + 1) * q = 3 * (q * m) + q
  OBVIOUS
<1>2. l * q <= q * m + m + q - 2
  BY <1>1
<1> SUFFICES ASSUME 2 * l >= 3 * m + 1
             PROVE  FALSE
  BY <1>1
<1>3. (2 * l) * q >= (3 * m + 1) * q
  BY ProductMonotone
<1>4. (2 * l) * q = 2 * (l * q)
  OBVIOUS
<1>5. (m - 1) * (q - 2) \in Nat /\ (m - 1) * (q - 2) = q * m - 2 * m - q + 2
  OBVIOUS
<1> QED
  BY <1>1, <1>2, <1>3, <1>4, <1>5

THEOREM PointsAreBounded == Spec => []PointsBounded
<1>1. ASSUME TypeOK, NEW hours \in Spans, Stride(hours) > 1,
             Cardinality(Since(Cutoff(hours, HourLen))) <= hours * PerHour,
             NEW s \in PowerHistory(hours)
      PROVE  2 * Len(s) <= 3 * MaxPoints
  <2> DEFINE n == Cardinality(Since(Cutoff(hours, HourLen)))
             q == Stride(hours)
             l == Len(s)
  <2>1. q \in Nat /\ q > 1 /\ MaxPoints \in Nat \ {0}
    BY <1>1, StrideType, ReportsOK DEF ReportsOK
  <2>2. n - l * q \in 1 - q..0
    BY <1>1, PowerDoesThin DEF PowerSampled
  <2>3. hours * PerHour \in Nat /\ hours * PerHour < q * MaxPoints + MaxPoints
    BY <1>1, StrideOf
  <2>4. n \in Nat
    <3>1. Since(Cutoff(hours, HourLen)) \in SUBSET Ids
      BY DEF Since
    <3> QED
      BY <1>1, <3>1, SortedReadings, FS_CardinalityType
  <2>5. l \in Nat
    <3>1. PICK t \in Sorted(Since(Cutoff(hours, HourLen))) : s = Sample(t, q)
      BY DEF PowerHistory
    <3>2. DOMAIN t = 1..n /\ Len(t) = n
      <4>1. Since(Cutoff(hours, HourLen)) \in SUBSET Ids
        BY DEF Since
      <4> QED
        BY <1>1, <3>1, <4>1, SortedReadings
    <3> HIDE DEF n, q
    <3> DEFINE c == Cardinality({rn \in 1..n : rn % q = 1})
    <3>3. c \in Nat
      BY <2>1, <2>4, Thinned
    <3>4. s = [k \in 1..c |-> t[(k - 1) * q + 1]]
      BY <3>1, <3>2 DEF Sample
    <3> HIDE DEF c
    <3> QED
      BY <3>3, <3>4
  <2>6. n < q * MaxPoints + MaxPoints /\ n - l * q >= 1 - q
    <3> HIDE DEF q, l
    <3>1. q * MaxPoints \in Nat /\ l * q \in Nat
      BY <2>1, <2>5
    <3> QED
      BY <1>1, <2>1, <2>2, <2>3, <2>4, <3>1
  <2> HIDE DEF n, q, l
  <2>7. 2 * l <= 3 * MaxPoints
    BY <2>1, <2>4, <2>5, <2>6, PointsArithmetic
  <2> QED
    BY <2>7 DEF l
<1>2. TypeOK => PointsBounded
  BY <1>1 DEF PointsBounded
<1> QED
  BY <1>2, ReportsTypes, PTL
=============================================================================
