----------------------------- MODULE PageProofs -----------------------------
(***************************************************************************)
(* Proofs about Page.tla for any ranges, plans and bounds: its types, that *)
(* the log tab is polled exactly while it is shown, and that the download  *)
(* of all days misses none although its list changes under it.             *)
(***************************************************************************)
EXTENDS Page, SequenceTheorems, TLAPS

-----------------------------------------------------------------------------
(* Sequences.                                                              *)
LEMMA RemoveAtType ==
  ASSUME NEW S, NEW s \in Seq(S), NEW i \in DOMAIN s
  PROVE  RemoveAt(s, i) \in Seq(S)
<1>1. i \in 1..Len(s) /\ Len(s) \in Nat
  BY LenProperties
<1>2. SubSeq(s, 1, i - 1) \in Seq(S) /\ SubSeq(s, i + 1, Len(s)) \in Seq(S)
  <2>1. \A j \in 1..i - 1 : s[j] \in S
    BY <1>1, ElementOfSeq
  <2>2. \A j \in i + 1..Len(s) : s[j] \in S
    BY <1>1, ElementOfSeq
  <2> QED
    BY <1>1, <2>1, <2>2, SubSeqProperties
<1> QED
  BY <1>2, ConcatProperties DEF RemoveAt

(* The list of a database with n days counts down to the first.            *)
LEMMA AvailableDatesType ==
  ASSUME NEW n \in Nat
  PROVE  /\ AvailableDates(n) \in Seq(1..n) /\ Len(AvailableDates(n)) = n
         /\ DOMAIN AvailableDates(n) = 1..n
         /\ \A k \in 1..n : AvailableDates(n)[k] = n + 1 - k
<1>1. AvailableDates(n) \in [1..n -> 1..n]
  BY DEF AvailableDates
<1> QED
  BY <1>1 DEF AvailableDates

Points == {"row", "live"}

LEMMA PushHistoryType ==
  ASSUME NEW points \in Seq(Points), history \in Seq(Points)
  PROVE  PushHistory(points) \in Seq(Points) /\ Len(PushHistory(points)) <= MaxPts
<1> DEFINE all == history \o points
<1>1. all \in Seq(Points) /\ Len(all) \in Nat /\ MaxPts \in Nat \ {0}
  BY ConcatProperties, LenProperties, PageOK DEF PageOK
<1> HIDE DEF all
<1>2. PushHistory(points) =
        IF Len(all) > MaxPts THEN SubSeq(all, Len(all) - MaxPts + 1, Len(all)) ELSE all
  BY DEF PushHistory, all
<1>3. CASE Len(all) > MaxPts
  <2>1. \A j \in Len(all) - MaxPts + 1..Len(all) : all[j] \in Points
    BY <1>1, <1>3, ElementOfSeq
  <2>2. Len(all) - MaxPts + 1 \in Int /\ Len(all) - (Len(all) - MaxPts + 1) + 1 = MaxPts
    BY <1>1
  <2> QED
    BY <1>1, <1>2, <1>3, <2>1, <2>2, SubSeqProperties
<1>4. CASE Len(all) <= MaxPts
  BY <1>1, <1>2, <1>4
<1> QED
  BY <1>1, <1>3, <1>4

-----------------------------------------------------------------------------
(* A list of dates that counts down is one of days there are.              *)
LEMMA DatesType ==
  ASSUME TypeOK, NEW i \in DOMAIN dates, NEW n \in dates[i]..days
  PROVE  n \in Nat /\ AvailableDates(n) \in Seq(1..days)
<1>1. dates[i] \in 0..days /\ days \in Nat
  BY PageOK, ElementOfSeq, LenProperties DEF PageOK, TypeOK
<1>2. n \in Nat /\ 1..n \subseteq 1..days
  BY <1>1
<1>3. AvailableDates(n) \in Seq(1..n)
  BY <1>2, AvailableDatesType
<1> QED
  BY <1>2, <1>3, SeqMonotonic

LEMMA InitType == Init => TypeOK
<1> SUFFICES ASSUME Init
             PROVE  TypeOK
  OBVIOUS
<1>1. power \in Seq(Hours) /\ hours \in Hours /\ shown \in Hours \cup {0}
  BY PageOK DEF PageOK, Init
<1>2. dates \in Seq(0..days) /\ exportDates \in Seq(1..days) /\ days \in 0..MaxDays
  BY DEF Init
<1>3. history \in Seq({"row", "live"}) /\ Len(history) <= MaxPts
  BY PageOK DEF PageOK, Init
<1>4. moves \in 0..MaxMoves /\ timers \subseteq 1..logTimer /\ logTimer \in Nat /\ walk \in Nat
  BY PageOK DEF PageOK, Init
<1> QED
  BY <1>1, <1>2, <1>3, <1>4 DEF Init, TypeOK

LEMMA LoadType ==
  ASSUME TypeOK
  PROVE  /\ \A range \in Hours : LoadPower(range) => power' \in Seq(Hours)
         /\ LoadExportDates => dates' \in Seq(0..days)
<1>1. days \in 0..days /\ dates \in Seq(0..days) /\ power \in Seq(Hours)
  BY PageOK DEF PageOK, TypeOK
<1>2. Append(dates, days) \in Seq(0..days)
  BY <1>1, AppendProperties
<1>3. \A range \in Hours : Append(power, range) \in Seq(Hours)
  BY <1>1, AppendProperties
<1> QED
  BY <1>2, <1>3 DEF LoadPower, LoadExportDates

LEMMA ChartTypes ==
  ASSUME TypeOK,
         \/ AutoRefresh \/ PowerAnswer
         \/ \E i \in DOMAIN power : PowerRefused(i)
         \/ \E range \in Hours : SetHours(range)
  PROVE  TypeOK'
<1> USE PageOK DEF PageOK, TypeOK, Free, Move, tabs, export, feed
<1>1. CASE AutoRefresh
  BY <1>1, LoadType DEF AutoRefresh
<1>2. CASE \E i \in DOMAIN power : PowerAnswered(i) \/ PowerRefused(i)
  <2>1. PICK i \in DOMAIN power : PowerAnswered(i) \/ PowerRefused(i)
    BY <1>2
  <2>2. power[i] \in Hours /\ RemoveAt(power, i) \in Seq(Hours)
    BY <2>1, RemoveAtType, ElementOfSeq, LenProperties
  <2>3. power' \in Seq(Hours) /\ shown' \in Hours \cup {0}
    BY <2>1, <2>2 DEF PowerAnswered, PowerRefused
  <2>4. moves' \in 0..MaxMoves
    <3>1. \/ moves' = moves
          \/ moves < MaxMoves /\ moves' = moves + 1
      BY <2>1 DEF PowerAnswered, PowerRefused
    <3> QED
      BY <3>1
  <2>5. UNCHANGED <<plan, tabs, hours, export, feed>>
    BY <2>1 DEF PowerAnswered, PowerRefused
  <2> QED
    BY <2>3, <2>4, <2>5
<1>3. ASSUME NEW range \in Hours, SetHours(range)
      PROVE  TypeOK'
  BY <1>3, LoadType DEF SetHours
<1> QED
  BY <1>1, <1>2, <1>3 DEF PowerAnswer

LEMMA ExportTypes ==
  ASSUME TypeOK,
         \/ DatesAnswer \/ RefreshDates \/ NewDay \/ WalkBegin \/ WalkOn \/ WalkEnd
         \/ \E i \in DOMAIN dates : DatesRefused(i)
  PROVE  TypeOK'
<1> USE PageOK DEF PageOK, TypeOK, Free, Move, tabs, chart, feed
<1>1. CASE \E i \in DOMAIN dates : DatesAnswered(i) \/ DatesRefused(i)
  <2>1. PICK i \in DOMAIN dates, list \in Seq(1..days) :
          /\ Listed(i, list)
          /\ moves' \in 0..MaxMoves /\ UNCHANGED plan
    <3>1. PICK i \in DOMAIN dates : DatesAnswered(i) \/ DatesRefused(i)
      BY <1>1
    <3>2. CASE DatesAnswered(i)
      BY <3>2, DatesType DEF DatesAnswered
    <3>3. CASE DatesRefused(i)
      <4>1. <<>> \in Seq(1..days)
        OBVIOUS
      <4>2. PICK j \in DOMAIN dates : DatesRefused(j)
        BY <3>3
      <4>3. PICK list \in {<<>>, exportDates} : Listed(j, list)
        BY <4>2 DEF DatesRefused
      <4>4. moves' \in 0..MaxMoves /\ UNCHANGED plan
        BY <4>2 DEF DatesRefused
      <4> QED
        BY <4>1, <4>3, <4>4
    <3> QED
      BY <3>1, <3>2, <3>3
  <2>2. RemoveAt(dates, i) \in Seq(0..days)
    BY RemoveAtType
  <2>3. dates' \in Seq(0..days) /\ exportDates' \in Seq(1..days) /\ whole' \in BOOLEAN
    BY <2>1, <2>2 DEF Listed
  <2> QED
    BY <2>1, <2>3 DEF Listed
<1>2. CASE RefreshDates
  BY <1>2, LoadType DEF RefreshDates
<1>3. CASE NewDay
  <2>1. days' \in 0..MaxDays /\ 0..days \subseteq 0..days' /\ 1..days \subseteq 1..days'
    BY <1>3 DEF NewDay
  <2>2. dates \in Seq(0..days') /\ exportDates \in Seq(1..days')
    BY <2>1, SeqMonotonic
  <2> QED
    BY <1>3, <2>1, <2>2 DEF NewDay
<1>4. CASE WalkBegin
  <2>1. exportDates[1] \in 1..days /\ ToSet(exportDates) \subseteq 1..days
    BY <1>4, ElementOfSeq, LenProperties, EmptySeq DEF WalkBegin, ToSet
  <2> QED
    BY <1>4, <2>1 DEF WalkBegin
<1>5. CASE WalkOn
  <2>1. exportDates[walk + 1] \in 1..days
    BY <1>5, ElementOfSeq, LenProperties DEF WalkOn, WalkOver
  <2>2. walk' = walk + 1 /\ got' = got \cup {exportDates[walk + 1]}
    BY <1>5 DEF WalkOn
  <2>3. walk' \in Nat
    BY <2>2
  <2>4. got' \subseteq 1..days
    BY <2>1, <2>2, Zenon
  <2> QED
    BY <1>5, <2>3, <2>4 DEF WalkOn
<1>6. CASE WalkEnd
  BY <1>6 DEF WalkEnd
<1> QED
  BY <1>1, <1>2, <1>3, <1>4, <1>5, <1>6 DEF DatesAnswer

LEMMA FeedTypes ==
  ASSUME TypeOK,
         \/ RecentAnswered \/ StatusAnswered \/ BootRefused
         \/ Opened \/ Message \/ Broken \/ Reconnect
  PROVE  TypeOK'
<1> USE PageOK DEF PageOK, TypeOK, Free, Move, tabs, chart, export
<1>1. history \in Seq(Points)
  BY DEF Points
<1>2. Update => history' \in Seq({"row", "live"}) /\ Len(history') <= MaxPts
  <2>1. <<"live">> \in Seq(Points)
    BY DEF Points
  <2> QED
    BY <1>1, <2>1, PushHistoryType DEF Update, Points
<1>3. CASE RecentAnswered
  <2>1. PICK n \in 0..MaxPts : history' = PushHistory([k \in 1..n |-> "row"])
    BY <1>3 DEF RecentAnswered
  <2>2. [k \in 1..n |-> "row"] \in Seq(Points)
    BY DEF Points
  <2>3. history' \in Seq({"row", "live"}) /\ Len(history') <= MaxPts
    BY <1>1, <2>1, <2>2, PushHistoryType DEF Points
  <2> QED
    BY <1>3, <2>3 DEF RecentAnswered
<1>4. CASE StatusAnswered
  BY <1>2, <1>4 DEF StatusAnswered
<1>5. CASE Message
  BY <1>2, <1>5 DEF Message
<1>6. CASE BootRefused
  BY <1>6 DEF BootRefused
<1>7. CASE Opened \/ Reconnect
  BY <1>7 DEF Opened, Reconnect
<1>8. CASE Broken
  BY <1>8 DEF Broken
<1> QED
  BY <1>3, <1>4, <1>5, <1>6, <1>7, <1>8

LEMMA SwitchTypes ==
  ASSUME TypeOK, NEW id \in Tabs, SwitchTab(id)
  PROVE  TypeOK'
<1> USE PageOK DEF PageOK, TypeOK, Move, feed
<1>1. logTimer' \in Nat /\ timers' \subseteq 1..logTimer'
  BY DEF SwitchTab, Timers
<1>2. power' \in Seq(Hours) /\ dates' \in Seq(0..days)
  BY LoadType DEF SwitchTab
<1> QED
  BY <1>1, <1>2 DEF SwitchTab, Tabs

LEMMA NextType == TypeOK /\ [Next]_vars => TypeOK'
<1> SUFFICES ASSUME TypeOK, [Next]_vars
             PROVE  TypeOK'
  OBVIOUS
<1>1. CASE UNCHANGED vars
  BY <1>1 DEF vars, tabs, chart, export, feed, TypeOK
<1> QED
  BY <1>1, ChartTypes, ExportTypes, FeedTypes, SwitchTypes DEF Next, Clicked, Refused

(* The page's variables keep their types: whatever is listed, fetched and  *)
(* downloaded are days there are, and the history ring keeps at most its   *)
(* number of points (index.html, pushHistory).                             *)
THEOREM PageTypes == Spec => []TypeOK
  BY InitType, NextType, PTL DEF Spec

-----------------------------------------------------------------------------
(* Until the log tab is clicked while it is shown, the one interval that   *)
(* runs is the last started, and it runs while the tab is shown.           *)
TimerInv ==
  /\ tab = "logs" => logTimer \in timers
  /\ ~again => timers = IF tab = "logs" THEN {logTimer} ELSE {}

LEMMA SwitchTimers ==
  ASSUME TypeOK, TimerInv, NEW id \in Tabs, SwitchTab(id)
  PROVE  TimerInv'
<1>1. tab' = id /\ timers' = Timers(id)
  BY DEF SwitchTab
<1>2. logTimer' = IF id = "logs" THEN logTimer + 1 ELSE logTimer
  BY DEF SwitchTab
<1>3. ~again' => ~again /\ ~(id = "logs" /\ tab = "logs")
  BY DEF SwitchTab, TypeOK
<1>4. CASE id = "logs"
  BY <1>1, <1>2, <1>3, <1>4 DEF Timers, TimerInv
<1>5. CASE id # "logs"
  BY <1>1, <1>2, <1>3, <1>5 DEF Timers, TimerInv
<1> QED
  BY <1>4, <1>5

LEMMA NextTimers == TypeOK /\ TimerInv /\ [Next]_vars => TimerInv'
<1> SUFFICES ASSUME TypeOK, TimerInv, [Next]_vars
             PROVE  TimerInv'
  OBVIOUS
<1>1. CASE UNCHANGED tabs
  BY <1>1 DEF tabs, TimerInv
<1>2. (\E range \in Hours : SetHours(range)) \/ AutoRefresh \/ PowerAnswer
        \/ (\E i \in DOMAIN power : PowerRefused(i)) => UNCHANGED tabs
  BY DEF SetHours, AutoRefresh, PowerAnswer, PowerAnswered, PowerRefused
<1>3. RefreshDates \/ NewDay \/ WalkBegin \/ WalkOn \/ WalkEnd \/ DatesAnswer
        \/ (\E i \in DOMAIN dates : DatesRefused(i)) => UNCHANGED tabs
  BY DEF RefreshDates, NewDay, WalkBegin, WalkOn, WalkEnd, DatesAnswer, DatesAnswered,
         DatesRefused, Listed
<1>4. RecentAnswered \/ StatusAnswered \/ BootRefused \/ Opened \/ Message \/ Broken
        \/ Reconnect \/ UNCHANGED vars => UNCHANGED tabs
  BY DEF RecentAnswered, StatusAnswered, BootRefused, Opened, Message, Broken, Reconnect, vars
<1> QED
  BY <1>1, <1>2, <1>3, <1>4, SwitchTimers DEF Next, Clicked, Refused

(* The log tab is polled while it is shown, and no interval outlives it    *)
(* unless it was clicked again (index.html, switchTab).                    *)
THEOREM LogsArePolled == Spec => []LogPolled
<1>1. Init => TimerInv
  BY DEF Init, TimerInv
<1>2. TimerInv => LogPolled
  BY DEF TimerInv, LogPolled
<1> QED
  BY <1>1, <1>2, InitType, NextType, NextTimers, PTL DEF Spec

-----------------------------------------------------------------------------
(* The list is that of a database at some moment.  While it does not       *)
(* become shorter, the walk leaves nothing behind it: as the list grows by *)
(* days in front, a turn's day is at most one below that of the turn       *)
(* before, so that all days the walk has come past were fetched.           *)
CountsDown == exportDates = AvailableDates(Len(exportDates))

NothingBehind ==
  walk > 0 /\ whole =>
    \A day \in start : day + walk > Len(exportDates) => day \in got

WalkInv == CountsDown /\ NothingBehind

LEMMA ListedWalk ==
  ASSUME TypeOK, WalkInv, NEW i \in DOMAIN dates, DatesAnswered(i) \/ DatesRefused(i)
  PROVE  WalkInv'
<1>1. PICK list : Listed(i, list) /\ list = AvailableDates(Len(list)) /\ Len(list) \in Nat
  <2>1. CASE DatesAnswered(i)
    <3>1. PICK n \in dates[i]..days : Listed(i, AvailableDates(n))
      BY <2>1 DEF DatesAnswered
    <3>2. n \in Nat /\ Len(AvailableDates(n)) = n
      BY DatesType, AvailableDatesType
    <3> QED
      BY <3>1, <3>2
  <2>2. CASE DatesRefused(i)
    <3>1. PICK list \in {<<>>, exportDates} : Listed(i, list)
      BY <2>2 DEF DatesRefused
    <3>2. <<>> = AvailableDates(0) /\ Len(<<>>) = 0
      BY DEF AvailableDates
    <3>3. exportDates = AvailableDates(Len(exportDates)) /\ Len(exportDates) \in Nat
      BY LenProperties DEF TypeOK, WalkInv, CountsDown
    <3> QED
      BY <3>1, <3>2, <3>3
  <2> QED
    BY <2>1, <2>2
<1>2. /\ exportDates' = list /\ UNCHANGED <<walk, start, got>>
      /\ whole' = (whole /\ Len(list) >= Len(exportDates))
  BY <1>1 DEF Listed
<1>3. NothingBehind'
  <2> SUFFICES ASSUME walk > 0, whole, Len(list) >= Len(exportDates),
                      NEW day \in start, day + walk > Len(list)
               PROVE  day \in got
    BY <1>2 DEF NothingBehind
  <2>1. day \in Int /\ walk \in Int /\ Len(exportDates) \in Int
    BY LenProperties, PageOK DEF PageOK, TypeOK
  <2>2. day + walk > Len(exportDates)
    BY <1>1, <2>1
  <2> QED
    BY <2>2 DEF WalkInv, NothingBehind
<1> QED
  BY <1>1, <1>2, <1>3 DEF WalkInv, CountsDown

LEMMA StepWalk ==
  ASSUME TypeOK, WalkInv, WalkBegin \/ WalkOn \/ WalkEnd
  PROVE  WalkInv' /\ (walk > 0 /\ walk' = 0 /\ whole => start \subseteq got)
<1> DEFINE n == Len(exportDates)
<1>1. /\ n \in Nat /\ walk \in Nat /\ start \subseteq Nat
      /\ DOMAIN exportDates = 1..n
      /\ \A k \in 1..n : exportDates[k] = n + 1 - k
  <2>1. n \in Nat /\ walk \in Nat /\ start \subseteq Nat
    BY LenProperties, PageOK DEF PageOK, TypeOK
  <2> QED
    BY <2>1, AvailableDatesType DEF WalkInv, CountsDown
<1>2. UNCHANGED exportDates
  BY DEF WalkBegin, WalkOn, WalkEnd
<1> HIDE DEF n
<1>3. CASE WalkBegin
  <2>1. /\ start' = ToSet(exportDates) /\ got' = {exportDates[1]} /\ walk' = 1 /\ walk = 0
        /\ exportDates # <<>>
    BY <1>3 DEF WalkBegin
  <2>2. n > 0
    BY <1>1, <2>1, EmptySeq DEF n, TypeOK
  <2>3. ASSUME NEW day \in start', day + 1 > n
        PROVE  day \in got'
    <3>1. PICK k \in 1..n : day = exportDates[k]
      BY <1>1, <2>1, <2>3 DEF ToSet
    <3>2. k = 1
      BY <1>1, <2>3, <3>1
    <3> QED
      BY <2>1, <3>1, <3>2
  <2> QED
    BY <1>2, <2>1, <2>3 DEF WalkInv, CountsDown, NothingBehind, n
<1>4. CASE WalkOn
  <2>1. /\ walk > 0 /\ walk + 1 \in 1..n /\ walk' = walk + 1
        /\ got' = got \cup {exportDates[walk + 1]} /\ UNCHANGED <<start, whole>>
    BY <1>1, <1>4 DEF WalkOn, WalkOver
  <2>2. ASSUME whole, NEW day \in start, day + (walk + 1) > n
        PROVE  day \in got'
    <3>1. CASE day + walk > n
      BY <2>1, <2>2, <3>1 DEF WalkInv, NothingBehind, n
    <3>2. CASE day + walk <= n
      <4>1. day = n + 1 - (walk + 1)
        BY <1>1, <2>2, <3>2
      <4> QED
        BY <1>1, <2>1, <4>1
    <3> QED
      BY <1>1, <3>1, <3>2
  <2>3. NothingBehind'
    BY <1>2, <2>1, <2>2 DEF NothingBehind, n
  <2> QED
    BY <1>1, <1>2, <2>1, <2>3 DEF WalkInv, CountsDown
<1>5. CASE WalkEnd
  <2>1. walk > 0 /\ walk + 1 \notin 1..n /\ walk' = 0
    BY <1>1, <1>5 DEF WalkEnd, WalkOver
  <2>2. ASSUME whole, NEW day \in start
        PROVE  day \in got
    <3>1. day \in Nat /\ day > 0
      BY <2>2, PageOK DEF PageOK, TypeOK
    <3>2. day + walk > n
      BY <1>1, <2>1, <3>1
    <3> QED
      BY <2>1, <2>2, <3>2 DEF WalkInv, NothingBehind, n
  <2> QED
    BY <1>2, <2>1, <2>2 DEF WalkInv, CountsDown, NothingBehind
<1> QED
  BY <1>3, <1>4, <1>5

LEMMA NextWalk ==
  ASSUME TypeOK, WalkInv, [Next]_vars
  PROVE  WalkInv' /\ (walk > 0 /\ walk' = 0 /\ whole => start \subseteq got)
<1>1. ASSUME UNCHANGED <<exportDates, walk, start, got, whole>>
      PROVE  WalkInv' /\ (walk > 0 /\ walk' = 0 /\ whole => start \subseteq got)
  BY <1>1 DEF WalkInv, CountsDown, NothingBehind
<1>2. UNCHANGED export => UNCHANGED <<exportDates, walk, start, got, whole>>
  BY DEF export
<1>3. (\E range \in Hours : SetHours(range)) \/ AutoRefresh \/ PowerAnswer
        \/ (\E i \in DOMAIN power : PowerRefused(i)) => UNCHANGED export
  BY DEF SetHours, AutoRefresh, PowerAnswer, PowerAnswered, PowerRefused
<1>4. RefreshDates \/ NewDay \/ (\E id \in Tabs : SwitchTab(id))
        => UNCHANGED <<exportDates, walk, start, got, whole>>
  BY DEF RefreshDates, NewDay, SwitchTab
<1>5. RecentAnswered \/ StatusAnswered \/ BootRefused \/ Opened \/ Message \/ Broken
        \/ Reconnect \/ UNCHANGED vars => UNCHANGED export
  BY DEF RecentAnswered, StatusAnswered, BootRefused, Opened, Message, Broken, Reconnect, vars
<1>6. ASSUME NEW i \in DOMAIN dates, DatesAnswered(i) \/ DatesRefused(i)
      PROVE  WalkInv' /\ UNCHANGED walk
  BY <1>6, ListedWalk DEF DatesAnswered, DatesRefused, Listed
<1>7. CASE \E i \in DOMAIN dates : DatesAnswered(i) \/ DatesRefused(i)
  <2>1. WalkInv' /\ UNCHANGED walk
    BY <1>6, <1>7
  <2> QED
    BY <2>1
<1> QED
  BY <1>1, <1>2, <1>3, <1>4, <1>5, <1>7, StepWalk DEF Next, Clicked, Refused, DatesAnswer

(* The download of all days fetches every day that was listed when it      *)
(* began, whatever days came and were listed meanwhile (index.html,        *)
(* downloadAllCSV).                                                        *)
THEOREM NoDayMissed == Spec => WalkComplete
<1>1. Init => WalkInv
  <2>1. <<>> = AvailableDates(0) /\ Len(<<>>) = 0
    BY DEF AvailableDates
  <2> QED
    BY <2>1 DEF Init, WalkInv, CountsDown, NothingBehind
<1>2. TypeOK /\ WalkInv /\ [Next]_vars => WalkInv'
  BY NextWalk
<1>3. TypeOK /\ WalkInv /\ [Next]_vars => [walk > 0 /\ walk' = 0 /\ whole => start \subseteq got]_vars
  BY NextWalk
<1> QED
  BY <1>1, <1>2, <1>3, InitType, NextType, PTL DEF Spec, WalkComplete
=============================================================================
