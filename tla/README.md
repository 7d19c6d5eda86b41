# Verification of notebook_bat

notebook_bat is a battery monitor for Windows laptops: a Go program that polls
the battery, notifies the user, records readings in SQLite and serves a live
dashboard. This directory holds TLA+ models of it, the TLC configurations that
check them on small instances, and proofs that TLAPS checks.

Contents: [Inventory](#inventory) · [Modules](#modules) ·
[Runs](#runs-and-bounds) · [Fairness](#fairness) · [Findings](#findings) ·
[Proofs](#proofs) · [Left out](#what-is-left-out) · [Plan](#plan)

## Inventory

| Component | Source | State | Operations |
|---|---|---|---|
| Polling loop | `monitor/monitor.go` | last percentage and power line, three latches (`warnSent`, `criticalSent`, `fullSent`), charge baseline (`lastCapMWh`, `lastCapTime`) | `Run`, `nextInterval`, `process` |
| Power status | `battery/battery.go` | none | `Get` |
| Battery data sources | `battery/capacity.go`, `battery/wmi.go` | capacity cache of 10 minutes | `GetCapacity`, `GetRateInfo` |
| Notifications | `notifier/notifier.go` | none (PowerShell, fire and forget) | `Send` and five messages |
| Live dashboard | `web/server.go` | latest reading under `mu`, client channels under `clientMu` | `Push`, `handleStream`, `handleStatus`, `Start`, report handlers |
| Log buffer | `logbuf/logbuf.go` | the last 500 lines under a lock | `Write`, `Lines` |
| CPU sampler | `sysmon/sysmon.go` | baseline per PID | `Top` |
| Database | `storage/storage.go` | two tables, one connection | `Open`, `Record`, `RecordProcesses`, `Close`, nine queries |
| Configuration | `config/config.go` | a file | `Load`, `Save`, `Default` |
| Program, service | `main.go` | context, stop channel | `Start`, `Stop`, `run`, `--init`, `--status` |
| Browser page | `web/static/index.html` | active tab, timers, history ring, export list | `update`, `switchTab`, loaders, `connect` |
| Installer | `install.ps1`, `uninstall.ps1`, `installer/` | none at run time | one-shot scripts |

How they meet. One goroutine runs the polling loop. Each poll calls `Get`,
`GetCapacity` and `GetRateInfo`, then `Push` (shared with the HTTP handlers
through two locks and the client channels), `Record` and, after `Top`,
`RecordProcesses` (sharing the single database connection with the report
handlers), then decides on notifications. Both loggers write into one log buffer
which the log tab reads. Cancelling the context closes `stop`, which the loop
sees in its select, and shuts the listener down.

What is hard, and what makes each part correct:

* **Polling loop.** Five pieces of remembered state, an "unknown" of -1, any
  order of plugging and readings. The user is told what stands, once; estimates
  have the direction of the charge; closing `stop` ends the loop.
* **Data sources.** Three sources, each of which knows part, lies by sentinel or
  fails, read at different moments. The rate of the merged answer is that of the
  first source that knows, no later source replaces what an earlier one knew, and
  next to nothing that was known is missing; the cache is never older than its
  life.
* **Dashboard.** A push meets connecting, stalled and vanished tabs. No torn
  reading, nothing lost between snapshot and stream; the stream takes a tab back
  at most once, right behind its snapshot; the loop is never held up.
* **Log buffer.** Concurrent writers and readers of a slice that is cut. Every
  answer is the window of one moment.
* **Sampler.** Processes end and PIDs are reused between and during calls. Usage
  is what was used since the last call.
* **Database.** Failures and crashes at every statement, one connection.
  Snapshots are whole, every release's schema is completed, everyone is served.
* **Configuration, start.** A terminal loads the file twice, a service once,
  anybody may write it in between. What runs is a whole configuration, in a
  terminal the one it printed.
* **Page.** One thread, but answers come in any order, timers are started by
  clicks, and a download walks a list that is replaced under it. The log's timer
  is stopped however its tab is left, unless the tab was clicked again while it
  was shown, which forgets the first timer (`index.html:502`); the chart comes to
  be that of the selection, the download misses no day, the stream is connected
  again.
* **Queries.** Local days, windows that cut through them, clocks set back. The
  reports agree with each other and lose nothing.

The full list of hazards, each at its line and with the properties that watch
it, is in `PROJECT.json`.

## Modules

| Module | Models | Correspondence |
|---|---|---|
| `Monitor` | `monitor.go`, `battery.Get` | variables have the names of `state`; `PollReading` is one turn of `Run` with `process`; `Timer` and `Stopped` are the cases of the select |
| `MonitorHistory` | history variables over `Monitor` | what the user was told in this power session, where the baseline came from |
| `AlertLadder` | abstract specification | three rungs: quiet, low told, critical told |
| `Dashboard` | `web/server.go` | `PushInfo`, `PushCap`, `PushRate` are the three assignments under the lock; `Offer` is the select with a default; `hpc` is where a handler is |
| `LogBuf` | `logbuf.go`, the loggers in front | `BufferLock` and `BufferTrim` are the two halves of `Write` |
| `LogWindow` | abstract specification | a log that grows, answers that are its last lines |
| `Sources` | `capacity.go`, `wmi.go` | `GetCapacity`, then one action per question of `GetRateInfo`, then `Answer` |
| `Sampler` | `sysmon.go` | `Visit` is one turn of `Top`'s loop, `TopEnd` its end; the system moves in between |
| `Store` | `storage.go` (writing), `main.go` | one action per SQL statement that can fail; `Gone` is the end of the process, anywhere |
| `Reports` | `storage.go` (queries) | one operator per query, over both tables, giving the set of answers SQL allows |
| `Launch` | `main.go` (start), `config.go` | `SaveOpens` and `SaveWrites` are the two halves of `os.WriteFile`, `StartInTerminal` is the load that is printed, `Run` the load that counts |
| `Page` | `index.html` (script) | variables have the names of the script's; one action per click, timer, answer or refusal |

`MC*.tla` instantiate them for TLC and `*Proofs.tla` hold the theorems. The two
abstract specifications are stated from what the components promise and model no
lines of their own; `Monitor` and `LogBuf` instantiate them and the runs check
the refinement as a PROPERTY (`LadderSpec`, `WindowSpec`). Operators marked
*mistaken* are variants of the operator below them with a plausible bug; no
specification uses them, and substituting one makes TLC find the violated
property.

Abstractions. Percentages, capacities and rates are small integers, a pushed or
recorded reading is its number where only identity matters, a process row is a
pair of poll and process, time is a counter. A critical section that cannot
block is one step. Formatting, voltages (except in `Sources`), names and memory
sizes are left out because no decision depends on them.

## Runs and bounds

| Run | Question | Bounds, and why they are enough |
|---|---|---|
| `monitor` | Do latches, notifications, estimates and the end of the loop hold for every order of readings? | percentages 10, 25, 50, 97 and 255 hit each band of both level orders and "unknown"; three configurations: suppressing, repeating, levels swapped with an interval of zero; baseline ages up to 2 s, since only zero or not and the sign matter |
| `dashboard` | Is what tabs are shown whole and without gap, how far back may the stream take them, and does everybody get on? | two tabs, channels of two, three readings: the least that overflows a channel; a tab has one request at a time, of the stream or of the status; `floor` follows one of the two, `Watched`, which suffices since they are alike |
| `logbuf` | Is every answer one window? | two loggers, one with two sinks that may fail; two lines kept, three messages each |
| `sampler` | Is usage charged since the last call? | two PIDs, one reuse each, one processor, three points in time, counters of 256 values (no counter gets near them but a wrapped difference does) |
| `store` | Are snapshots whole, the schema complete, everyone served? | two polls in any number of runs, two processes, two reports, two migrations so that a crash falls between them |
| `reports` | Do the queries agree? | three readings over five units, days of two, an offset of one: readings on both sides of a local midnight that is not UTC's; strides 1, 2 and 3 |
| `sources` | Is the answer fresh, of the first source that knows, and complete? | all combinations of knowing, not knowing, giving a sentinel and failing of three sources; polls at up to four times, a cache of two |
| `launch` | Is the configuration in force one that was meant? | a service and a terminal, two keys, files that set one, both, or one beside a mistyped one, or no file: all ways in which a part could be taken for the whole |
| `page` | Does polling the log end with its tab, are charts and history put right, downloads complete? | two ranges, a ring of four points, up to three days, three fetches of a kind in flight, six moves; a move is a click, an error, a broken stream or a new day |

The runs that end in a violation are listed under [Findings](#findings).
In `page` each behaviour has the clicks and events of one plan of `MCPlans`:
charts, logs, export and stream share no state but the active tab, and a plan
goes through all of these tabs. `page` switches the deadlock check off: a page
rests when nobody clicks and the plan leaves the stream out. A move more or a
fourth fetch only repeats orders that three have already.

`OutOfPolls` in `Store` and the guard on `seq` in `Dashboard` are bounds of the
model, not of the code; they only end behaviours that would go on alike.

## Fairness

* `Monitor`: weak fairness of the poll and the timer, because a goroutine that
  can run does. Strong fairness of `Stopped`: with an interval of zero the timer
  is ready too, and Go's select chooses at random among ready cases, so one that
  is ready again and again is chosen eventually.
* `Dashboard`: the same for the monitor's goroutine and the select of
  `handleStream` (`ContextDone`). None for `Written`: a tab may stop reading at
  any time. The snapshot of `handleStream`, a few hundred bytes into the empty
  send buffer of a new connection, is taken to be written; it is the one network
  write under a lock, and if it blocked for ever so would `Push`.
* `Store`: weak fairness of the program's steps; strong fairness of those who
  wait for the connection, which `database/sql` hands to waiting requests in the
  order of their coming. None for starting, closing `stop`, asking or crashing.
* `Page`: weak fairness of what the browser and the server do by themselves.
  Timers fire, fetches are answered or refused in the end, an open stream brings
  a reading with every poll, a broken one is opened again. Nothing makes the user
  click, and answers keep no order among themselves.
* `LogBuf`, `Sampler`, `Reports`, `Sources`, `Launch` state safety only.

## Findings

* `sampler_reuse`: CPU ticks are subtracted as `uint64` before the test for a
  negative difference, so a process that inherits a PID may be listed with 100
  percent (`sysmon.go:146`).
* `reports_power`: `rn % 1 = 1` holds for no row, so the power chart of up to 16
  hours, among them the 6 hours the page offers, is empty (`storage.go:303`).
* `monitor_unplug`: an unplug first seen after a reading of unknown percentage
  is never notified (`monitor.go:182`).

Limits of what the properties say. `CriticalTold` excepts a power session that
began while the percentage was unknown (it inherits the latches of the one
before). `SinceLastCall` speaks only of processes that both calls read.
`SchemaComplete` excepts a run in which an ALTER failed on a column that was
missing, since `Open` takes every error for "already there". `RateOfFirst` is
about the rate and its source; a voltage that came without a rate is attributed
to the kernel call whoever reported it (`capacity.go:434`).
`NothingOverlooked` lets one thing be missing: a charge that only WMI knew, when
the others gave rate and voltage and WMI was not asked. `SentinelOnlyFills` says
where a sentinel may stand, not that there is none: WMI's voltage, charge and
rates (`wmi.go:106-119`) and the design capacity (`capacity.go:278`) are copied
without the test that the kernel's and the device's fields get, so if a driver
gives 0xFFFFFFFF there, it is answered and, as a capacity, cached, although
`capacity.go:139-147` says "0 = unknown". Nothing is said of quantities that come
from different moments: when the charger is pulled between two questions, flags
and rate of one answer may contradict each other until the next poll.
`BackOnce` does not say that a tab never goes back: its channel is registered
before the snapshot is taken, so the first message may repeat what the snapshot
showed, or be older. If the channel filled up while the snapshot was ahead, the
tab may stay behind until the next push (`NoGap` and `Converges` except a tab
whose channel was full at the last push). `LogPolled` excepts a
log tab that was clicked while shown; its forgotten timer polls until the page is
closed. The 100 percent of `Sampler` are those of all processors together over
the time since the baseline was taken.

## Proofs

Each `*Proofs` module extends the module it is about; `ProgramProofs` is about
two, `Launch` and `Store`, which is why the former's specification has names of
its own (`LaunchSpec`, `LaunchTypeOK`, ...). All theorems hold for every value
of the constants that satisfies the module's named assumption. Most say no more than the Go types do: levels and intervals
are any integers, the critical level may lie above the warning level
(`ConstantsOK`), a channel has room for one reading at least (`SizesOK`), sizes
and numbers are natural (`LogSizesOK`, `StoreOK`). `SourcesOK` and `LaunchOK`
keep sentinels apart from values, `PageOK` wants a default range, a ring of some
length and natural bounds. `ReportsOK` says that days, hours and spans have some
length and of the capacities what `GetCapacity` guarantees: a designed capacity,
or both zero; a full capacity of zero beside a designed one is possible, and
then the summary shows an earlier one than the chart. `SamplerOK` supposes that a counter of CPU
ticks does not run over by itself, which takes 64 bits of it tens of thousands
of years; the subtraction that wraps is modelled.

* `MonitorProofs`. `TypeCorrect`: among other things -1 never gets into the
  charge baseline. `LatchesCorrect`: `LatchInv` is inductive on its own with the
  types, one step per kind of poll, because every branch that moves a latch also
  replaces the last reading. `ImplementsLadder`: each poll is one reading of the
  ladder, everything else is `Settle` or a stutter. Of `MonitorHistory`:
  `HistoryWatches` shows that the history variables do not restrict the monitor. `NothingRepeated` needs the invariant that a note
  which stands in this session has its latch set (`ToldLatched`);
  `CriticalAlwaysTold` needs its converse for the critical latch outside masked
  sessions (`CriticalKept`). Neither property is inductive without these: a
  latch left over from nowhere would break both. `EstimatesHaveDirection` needs
  `BaseMatches`: the baseline is the charge of the reading it was taken from.
* `LogBufProofs`. `LogTypes` includes that the memory is bounded: the buffer has
  `MaxLines` lines and one more between an append and its trim; it needs that a
  logger that writes has begun a message. `ImplementsWindow` needs an invariant that looks through the lock:
  `Trim(lines)` is the window of all lines ever written (`Held`); without a writer
  the buffer has no excess (`TypeOK`). The lemma `TrimIsWindow` says that cutting
  line by line is cutting at the end. `NothingIsSkipped` needs the same
  property of all lines ever written (`WholeLog`), and that a logger's last line
  is the last message it handed to the buffer; the lemma `TrimUnbroken` says that
  cutting at the front opens no hole.
* `SourcesProofs`. `SourcesTypes`: the result holds no sentinel before WMI is
  asked. `CapacityStaysFresh` needs `CacheRead`: the cache is empty,
  with a time stamp a whole life in the past, or holds a capacity read at its
  time stamp. The three theorems about `GetRateInfo` share `MergeInv`, which
  says of the result so far what they say of the answer: it is what the sources
  asked until now say in their order (`FirstOf`), those still to come know
  nothing (`Unasked`), and a sentinel in it stands where kernel and device knew
  nothing (`Fills`). `FirstMerged` is the step of that argument.
* `DashboardProofs`. `LatestInv`: outside the three assignments the fields shown
  are those of one reading. `ClientInv`: the clients still to be visited are
  registered. `StreamInv` says of each request what the theorems say of its tab,
  with what is on the way: everything waiting is whole, in order, older than
  `seq` for a client still to be visited, and the last reading owed is the last
  of the channel, being written, or shown. `BackAtMostOnce` needs `FloorInv`:
  what is on its way to the watched tab, and what has yet to be sent to it, is not
  below the floor. `Watched` is any request, so the theorem is about each.
* `ProgramProofs`. Of the start, `LaunchTypes`: a file that `Save` has open is
  there and nobody else holds it, though another program may write to it between
  the truncation and the write (`config.go:84`). `MeantConfiguration`: a program that has
  printed, and saw no write since, would read the same again (`PrintedHolds`),
  and a sound file is one that somebody wrote (`SoundNoted`). Of the database,
  `SchemaInv`: every migration that `Open` has passed in this run
  is in the table. `TransactionInv`: nothing of a snapshot is on disk before its
  commit and reports hold rows of the disk only, so that a crash between any two
  statements leaves no part of one.
* `SamplerProofs`. `UsageSinceLastCall` needs that both baselines, the last
  call's and the one being built, agree with the history of what was read, and
  that a process which still has its PID has not used less since (`Agree`).
  `ActualUsageButForReuse` bounds the finding of `sampler_reuse`: no process is
  charged with more than it has used, unless its PID belonged to another process
  at the previous call or the reading then failed.
* `PageProofs`. `LogsArePolled` needs `TimerInv`: while the tab was not clicked
  twice, the one timer the page remembers is the only one that runs. `NoDayMissed`
  needs `WalkInv`: every list counts down from its newest day without a gap
  (`CountsDown`), so a list that only grows at the front moves the walk back over
  days it has had, and every day of the first list that lies behind the walk has
  been fetched (`NothingBehind`).
* `ReportsProofs`. The tables are arbitrary, so all but the types and
  `CapacitiesKept` is a matter of what the queries compute. `SomeOrder`: every
  set of rows can be put in the order of a key (without it a query would have no
  answer, and what is said of its answers would say nothing); `Arranged`: a
  sequence of a set's elements has just these. `DaysDoAgree` rests on `ChartEnd`:
  the chart ends with a latest of all readings that know a capacity, because what
  the window leaves out is older. `ProcessesDoAgree` rests on `TotalBounds`: a
  sum lies between the bounds of its terms, and with it an average; `SumsThere`
  shows that the recursion behind `Total` is well defined. `PowerDoesThin` rests
  on `Thinned`: one in a stride of the row numbers leaves the remainder 1. Two
  theorems go beyond the runs: `ShortChartsAreEmpty` says of every window below
  `2 * MaxPoints / PerHour` hours (16 whole hours in the code) what the finding of
  `reports_power` shows of one, and `PointsAreBounded` that the "max 500 points"
  of storage.go:286 are at most 750, the stride being rounded down, as long as the
  window has no more readings than one a minute. Facts
  about all finite sets and all sums are proved by a smallest counterexample
  (`LeastOf`), since the induction theorems of the library, which take a
  predicate as a parameter, cannot be instantiated by the provers at hand.

Every invariant and every action property that a run checks is proved. Only
model-checked are the liveness properties: `StopEndsRun`, `PushReturns`,
`GoneUnregistered`, `Converges`, `ReportsAnswered`, `StopCloses`, `PowerSettles`,
`HistoryHeals`. Liveness under fairness and ENABLED are out of the prover's reach.

## What is left out

* The Windows calls themselves: they appear as the answers they may give.
* Drawing and formatting in Go and in the page.
* The parsing of query parameters, which only defaults and passes on.
* In the page: the process table and its timeline (`index.html:796`, where the
  heading changes with the click and the graph with whichever answer comes last),
  and how answers are drawn.
* `--status` and `--service`, which read and print or hand over to Windows.
* The port that a service and a terminal both listen on (`server.go:132`): the
  second one runs without a dashboard.
* Quantities: rows are never deleted, 24 hours of readings give up to 720 points
  where `storage.go:288` aims at 500, and readings of -1 percent enter the daily
  minimum (`storage.go:221`).
* The installer and its scripts.
* Stderr of a Windows service: `LogBuf` lets sinks in front of the buffer fail
  and shows what still holds (`NoHole`); whether they do fail depends on how the
  service manager starts the program.

## Plan

1. **Done**: `Monitor` with its history and ladder, `Dashboard`, `LogBuf`,
   `Sources`, `Sampler`, `Store`, `Reports` over readings and process rows,
   `Launch`, `Page`; proofs about all of them.
2. **Model**: a composition of `Monitor` with `Sources`, so that estimates are
   checked on the rates that the merge can really give; the process table and
   timeline of the page; the shared port.
3. **Prove**: the invariants of that composition.
