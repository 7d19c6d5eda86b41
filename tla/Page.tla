-------------------------------- MODULE Page --------------------------------
(***************************************************************************)
(* What the script of web/static/index.html remembers: the active tab and  *)
(* the timers it starts, the answers it waits for, the power chart, the    *)
(* list of dates with the download that walks along it, and the history    *)
(* ring with the stream that feeds it.  Everything runs in one thread; a   *)
(* click, an answer or a timer is one step, and answers arrive in any      *)
(* order.  What is drawn and forgotten (tables, gauges, log lines) is left *)
(* out.                                                                    *)
(*                                                                         *)
(* An answer carries what was asked for, or is an error object, or the     *)
(* request fails.  What the page does not control costs a move: clicks,    *)
(* errors, a broken stream, a new day.  Of these, a behaviour has those of *)
(* one plan, which keeps apart what has nothing to do with each other.     *)
(***************************************************************************)
EXTENDS Naturals, SequencesExt

CONSTANTS
  Hours,      \* the ranges the power tab offers
  Hours0,     \* the one selected at first, 24
  MaxPts,     \* points of the history ring, 60 in the code
  Plans,      \* sets of tabs and events that one behaviour may have
  MaxMoves, MaxFlight, MaxDays   \* bounds: moves, fetches of a kind in flight, days

Tabs == {"live", "power", "process", "report", "logs"}

ASSUME PageOK ==
  /\ Hours \subseteq Nat \ {0} /\ Hours0 \in Hours /\ MaxPts \in Nat \ {0}
  /\ \A plan \in Plans : plan \subseteq Tabs \cup {"hours", "walk", "day", "stream"}
  /\ MaxMoves \in Nat /\ MaxFlight \in Nat /\ MaxDays \in Nat

VARIABLES
  plan, moves,    \* the behaviour's plan, and the moves made
  tab,            \* _activeTab, which begins with the name of no tab
  timers,         \* the running intervals of loadLogs
  logTimer,       \* _logTimer, ids count up; 0 is null
  again,          \* the log tab was clicked while it was shown
  hours,          \* the selection of power-hours
  power,          \* requests of loadPower in flight
  shown,          \* the range of the chart, 0 before the first answer or after an error
  days,           \* days with readings in the database
  dates,          \* requests of loadExportDates in flight: the days there were
  exportDates,    \* _exportDates
  walk,           \* the turn downloadAllCSV is in, 0 when it does not run
  start, got,     \* the days listed when it began, and those it fetched
  whole,          \* the list has not become shorter since
  recent, status, \* the two fetches at boot: "asked" or "done"
  conn,           \* the stream: "connecting", "open", or "waiting" to connect
  history         \* the ring: stored rows and live points

tabs == <<tab, timers, logTimer, again>>
chart == <<hours, power, shown>>
export == <<days, dates, exportDates, walk, start, got, whole>>
feed == <<recent, status, conn, history>>
vars == <<plan, moves, tabs, chart, export, feed>>

Init ==
  /\ plan \in Plans /\ moves = 0
  /\ tab = "status" /\ timers = {} /\ logTimer = 0 /\ again = FALSE
  /\ hours = Hours0 /\ power = <<>> /\ shown = 0
  /\ days \in 0..MaxDays /\ dates = <<>> /\ exportDates = <<>>
  /\ walk = 0 /\ start = {} /\ got = {} /\ whole = TRUE
  /\ recent = "asked" /\ status = "asked" /\ conn = "connecting" /\ history = <<>>

Move == moves < MaxMoves /\ moves' = moves + 1 /\ UNCHANGED plan
Free == UNCHANGED <<plan, moves>>

-----------------------------------------------------------------------------
(* loadPower asks for the selected range.                                  *)
LoadPower(range) ==
  /\ Len(power) < MaxFlight
  /\ power' = Append(power, range)

PowerAnswered(i) ==
  /\ shown' = power[i]
  /\ power' = RemoveAt(power, i)
  /\ Free /\ UNCHANGED <<tabs, hours, export, feed>>

(* An error object is drawn as no points, a failed fetch is not drawn.     *)
PowerRefused(i) ==
  /\ Move
  /\ shown' \in {0, shown}
  /\ power' = RemoveAt(power, i)
  /\ UNCHANGED <<tabs, hours, export, feed>>

SetHours(range) ==
  /\ "hours" \in plan /\ tab = "power" /\ range # hours
  /\ Move
  /\ hours' = range
  /\ LoadPower(range)
  /\ UNCHANGED <<tabs, shown, export, feed>>

AutoRefreshDefault ==   \* mistaken: asks for the first selection
  /\ tab = "power"
  /\ LoadPower(Hours0)
  /\ Free /\ UNCHANGED <<tabs, hours, shown, export, feed>>

(* The interval of 60 seconds, or the button that does the same.           *)
AutoRefresh ==
  /\ tab = "power"
  /\ LoadPower(hours)
  /\ Free /\ UNCHANGED <<tabs, hours, shown, export, feed>>

-----------------------------------------------------------------------------
(* The dates, newest first.  An answer has the days of some moment between *)
(* question and answer.                                                    *)
LoadExportDates ==
  /\ Len(dates) < MaxFlight
  /\ dates' = Append(dates, days)

AvailableDates(n) == [k \in 1..n |-> n + 1 - k]

Listed(i, list) ==
  /\ exportDates' = list
  /\ dates' = RemoveAt(dates, i)
  /\ whole' = (whole /\ Len(list) >= Len(exportDates))
  /\ UNCHANGED <<tabs, chart, days, walk, start, got, feed>>

DatesAnswered(i) == Free /\ \E n \in dates[i]..days : Listed(i, AvailableDates(n))

(* An error object empties the list, a failed fetch leaves it.             *)
DatesRefused(i) == Move /\ \E list \in {<<>>, exportDates} : Listed(i, list)

RefreshDates ==
  /\ tab = "report" /\ Move
  /\ LoadExportDates
  /\ UNCHANGED <<tabs, chart, days, exportDates, walk, start, got, whole, feed>>

NewDay ==
  /\ "day" \in plan /\ days < MaxDays
  /\ Move
  /\ days' = days + 1
  /\ UNCHANGED <<tabs, chart, dates, exportDates, walk, start, got, whole, feed>>

(* downloadAllCSV.  Between two turns it waits 600 ms, after which it goes *)
(* on with the list and the length of that moment.                         *)
WalkBegin ==
  /\ "walk" \in plan /\ tab = "report" /\ walk = 0 /\ exportDates # <<>>
  /\ Move
  /\ walk' = 1
  /\ start' = ToSet(exportDates) /\ got' = {exportDates[1]} /\ whole' = TRUE
  /\ UNCHANGED <<tabs, chart, days, dates, exportDates, feed>>

WalkOverAsBegun ==   \* mistaken: the length is read once, at the start
  walk + 1 \notin DOMAIN exportDates \/ walk + 1 > Cardinality(start)

WalkOver == walk + 1 \notin DOMAIN exportDates

WalkOn ==
  /\ walk > 0 /\ ~WalkOver
  /\ walk' = walk + 1
  /\ got' = got \cup {exportDates[walk + 1]}
  /\ Free /\ UNCHANGED <<tabs, chart, days, dates, exportDates, start, whole, feed>>

WalkEnd ==
  /\ walk > 0 /\ WalkOver
  /\ walk' = 0
  /\ Free /\ UNCHANGED <<tabs, chart, days, dates, exportDates, start, got, whole, feed>>

-----------------------------------------------------------------------------
TimersKept(id) ==   \* mistaken: no clearInterval
  IF id = "logs" THEN timers \cup {logTimer + 1} ELSE timers

(* setInterval gives a new id, clearInterval of an old one does nothing.   *)
Timers(id) ==
  IF id = "logs" THEN timers \cup {logTimer + 1} ELSE timers \ {logTimer}

SwitchTab(id) ==
  /\ id \in plan /\ Move
  /\ tab' = id
  /\ timers' = Timers(id)
  /\ logTimer' = IF id = "logs" THEN logTimer + 1 ELSE logTimer
  /\ again' = (again \/ (id = "logs" /\ tab = "logs"))
  /\ IF id = "power" THEN LoadPower(hours) ELSE UNCHANGED power
  /\ IF id = "report" THEN LoadExportDates ELSE UNCHANGED dates
  /\ UNCHANGED <<hours, shown, days, exportDates, walk, start, got, whole, feed>>

-----------------------------------------------------------------------------
HistoryAll(points) == history \o points   \* mistaken: no shift
HistoryFirst(points) ==   \* mistaken: a full ring takes no more
  SubSeq(history \o points, 1, Min({MaxPts, Len(history) + Len(points)}))

(* pushHistory for one point after the other.                              *)
PushHistory(points) ==
  LET all == history \o points
  IN IF Len(all) > MaxPts THEN SubSeq(all, Len(all) - MaxPts + 1, Len(all)) ELSE all

Update == history' = PushHistory(<<"live">>)

(* Boot: the stored rows, the status and the stream are asked for at once. *)
RecentAnswered ==
  /\ "stream" \in plan /\ recent = "asked"
  /\ recent' = "done"
  /\ \E n \in 0..MaxPts : history' = PushHistory([k \in 1..n |-> "row"])
  /\ Free /\ UNCHANGED <<tabs, chart, export, status, conn>>

StatusAnswered ==
  /\ "stream" \in plan /\ status = "asked"
  /\ status' = "done"
  /\ Update
  /\ Free /\ UNCHANGED <<tabs, chart, export, recent, conn>>

BootRefused ==
  /\ "stream" \in plan /\ Move
  /\ \/ recent = "asked" /\ recent' = "done" /\ UNCHANGED status
     \/ status = "asked" /\ status' = "done" /\ UNCHANGED recent
  /\ UNCHANGED <<tabs, chart, export, conn, history>>

(* connect with the handlers of its EventSource.                           *)
Opened ==
  /\ "stream" \in plan /\ conn = "connecting"
  /\ conn' = "open"
  /\ Free /\ UNCHANGED <<tabs, chart, export, recent, status, history>>

Message ==
  /\ conn = "open"
  /\ Update
  /\ Free /\ UNCHANGED <<tabs, chart, export, recent, status, conn>>

Broken ==
  /\ "stream" \in plan /\ conn \in {"connecting", "open"}
  /\ Move
  /\ conn' = "waiting"
  /\ UNCHANGED <<tabs, chart, export, recent, status, history>>

Reconnect ==
  /\ conn = "waiting"
  /\ conn' = "connecting"
  /\ Free /\ UNCHANGED <<tabs, chart, export, recent, status, history>>

-----------------------------------------------------------------------------
Clicked ==
  \/ \E id \in Tabs : SwitchTab(id)
  \/ \E range \in Hours : SetHours(range)
  \/ RefreshDates \/ WalkBegin
PowerAnswer == \E i \in DOMAIN power : PowerAnswered(i)
DatesAnswer == \E i \in DOMAIN dates : DatesAnswered(i)
Refused ==
  \/ \E i \in DOMAIN power : PowerRefused(i)
  \/ \E i \in DOMAIN dates : DatesRefused(i)
  \/ BootRefused

Next ==
  \/ Clicked \/ AutoRefresh \/ PowerAnswer \/ DatesAnswer \/ Refused \/ NewDay
  \/ WalkOn \/ WalkEnd
  \/ RecentAnswered \/ StatusAnswered \/ Opened \/ Message \/ Broken \/ Reconnect

(* Timers fire, the server answers in the end, and an open stream brings a *)
(* reading with every poll.  Nothing makes the user click.                 *)
Fairness ==
  /\ WF_vars(AutoRefresh) /\ WF_vars(PowerAnswer) /\ WF_vars(DatesAnswer)
  /\ WF_vars(WalkOn) /\ WF_vars(WalkEnd)
  /\ WF_vars(RecentAnswered) /\ WF_vars(StatusAnswered)
  /\ WF_vars(Opened) /\ WF_vars(Message) /\ WF_vars(Reconnect)

Spec == Init /\ [][Next]_vars /\ Fairness

-----------------------------------------------------------------------------
(* Types; the ring keeps at most its number of points.                     *)
TypeOK ==
  /\ plan \in Plans /\ moves \in 0..MaxMoves
  /\ tab \in Tabs \cup {"status"} /\ again \in BOOLEAN
  /\ logTimer \in Nat /\ timers \subseteq 1..logTimer
  /\ hours \in Hours /\ power \in Seq(Hours) /\ shown \in Hours \cup {0}
  /\ days \in 0..MaxDays /\ dates \in Seq(0..days) /\ exportDates \in Seq(1..days)
  /\ walk \in Nat /\ start \subseteq 1..days /\ got \subseteq 1..days /\ whole \in BOOLEAN
  /\ {recent, status} \subseteq {"asked", "done"}
  /\ conn \in {"connecting", "open", "waiting"}
  /\ history \in Seq({"row", "live"}) /\ Len(history) <= MaxPts

(* The log tab is polled while it is shown, and not when it is left -      *)
(* unless it was clicked while it was shown, which forgets a timer.        *)
LogPolled ==
  /\ tab = "logs" => logTimer \in timers
  /\ tab # "logs" /\ ~again => timers = {}

(* index.html:507: while the power tab is shown its chart comes to be that *)
(* of the selection, whatever answers were late, failed or were errors.    *)
PowerSettles ==
  \A range \in Hours :
    <>[](tab = "power" /\ hours = range) => <>[](shown = range)

(* The points of the ring are in the order of time.                        *)
InOrder ==
  \A i, j \in DOMAIN history : i < j => ~(history[i] = "live" /\ history[j] = "row")

(* Whatever came first at boot, and however often the stream broke, in the *)
(* end the page is connected and its history in order.                     *)
HistoryHeals == "stream" \in plan => <>[](conn = "open" /\ InOrder)

(* The download of all days fetches every day that was listed when it      *)
(* began, also when new days came and the list was refreshed meanwhile;    *)
(* an error or an answer overtaken by a newer one makes the list shorter.  *)
WalkComplete == [][walk > 0 /\ walk' = 0 /\ whole => start \subseteq got]_vars
=============================================================================
