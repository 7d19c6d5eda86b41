------------------------------ MODULE Monitor ------------------------------
(***************************************************************************)
(* The polling loop of monitor/monitor.go: Run reads the battery, process  *)
(* estimates the charge rate, publishes the reading and sends the          *)
(* notifications, nextInterval paces the loop.                             *)
(*                                                                         *)
(* One goroutine owns all of this state, so one poll is one step; the only *)
(* other actor is whoever closes the stop channel.  Dashboard.tla opens up *)
(* the one call of a poll that meets other goroutines, Push.               *)
(*                                                                         *)
(* Data kept: the percentage, the power line status, capacities in mWh and *)
(* ages in seconds.  Voltage, cycle count, health and log text are left    *)
(* out: no decision depends on them.                                       *)
(***************************************************************************)
EXTENDS Integers

CONSTANTS
  Configs,      \* the configurations config.Load may hand to New
  RawPercents,  \* BatteryLifePercent values the power API may report
  Rates,        \* results GetRateInfo may return
  FullCaps,     \* FullChargedCapacity values GetCapacity may return, 0 on error
  Lateness,     \* seconds by which a timer may fire late
  MaxAge        \* bound on the age of the capacity baseline, in seconds

ACOffline == 0
ACOnline  == 1
ACUnknown == 255
ACStatuses == {ACOffline, ACOnline, ACUnknown}

Config == [WarnLevel : Int, CriticalLevel : Int, FullLevel : Int,
           NormalInterval : Int, WarnInterval : Int, CriticalInterval : Int,
           NotifyOnFull : BOOLEAN, NotifyOnUnplug : BOOLEAN,
           NotifyOnPlug : BOOLEAN, SuppressRepeats : BOOLEAN]

RateInfo == [RateMW : Int, CapacityMWh : Nat, Source : {"", "hardware"}]

ASSUME ConstantsOK ==
  /\ Configs \subseteq Config
  /\ RawPercents \subseteq 0..255
  /\ Rates \subseteq RateInfo
  /\ FullCaps \subseteq Nat
  /\ Lateness \subseteq Nat
  /\ MaxAge \in Nat

VARIABLES
  cfg,            \* Monitor.cfg, never changed after New
  lastPercent,    \* state.lastPercent, -1 before the first reading
  lastACStatus,   \* state.lastACStatus
  warnSent, criticalSent, fullSent,   \* the latches of state
  lastCapMWh,     \* state.lastCapMWh, 0 when there is no baseline
  capAge,         \* seconds since state.lastCapTime
  infoPercent,    \* lastInfo.Percent, Run's last good reading
  pc,             \* "poll", "wait" or "stopped": where Run is
  stop,           \* the stop channel is closed
  notes,          \* notifications sent by the poll just finished
  published       \* what that poll gave to Push and Record

latches == <<warnSent, criticalSent, fullSent>>
observed == <<lastPercent, lastACStatus>>
baseline == <<lastCapMWh, capAge>>
vars == <<cfg, observed, latches, baseline, infoPercent, pc, stop, notes, published>>

Notes == {"low", "critical", "full", "unplugged", "plugged"}
NoReading == [Percent |-> -1, RateMW |-> 0, CapacityMWh |-> 0, Source |-> "none"]

Init ==
  /\ cfg \in Configs
  /\ lastPercent = -1 /\ lastACStatus = ACOffline
  /\ warnSent = FALSE /\ criticalSent = FALSE /\ fullSent = FALSE
  /\ lastCapMWh = 0 /\ capAge = 0
  /\ infoPercent = 0
  /\ pc = "poll" /\ stop = FALSE
  /\ notes = {} /\ published = NoReading

-----------------------------------------------------------------------------
(* battery.Get: 255 is the API's "unknown"; any other byte is passed on.   *)
Percent(raw) == IF raw = 255 THEN -1 ELSE raw

(* nextInterval: the pace follows the last good reading.                   *)
nextInterval ==
  IF infoPercent >= 0 /\ infoPercent <= cfg.CriticalLevel THEN cfg.CriticalInterval
  ELSE IF infoPercent >= 0 /\ infoPercent <= cfg.WarnLevel THEN cfg.WarnInterval
  ELSE cfg.NormalInterval

-----------------------------------------------------------------------------
(* Rate estimation.  The charge now in the battery comes from the hardware *)
(* when it reports one, else from percent x full capacity.                 *)
ChargeKindAnyPercent(pct, full, rate) ==   \* mistaken: no test for -1
  IF rate.CapacityMWh > 0 THEN "hardware" ELSE IF full > 0 THEN "percent" ELSE "none"

ChargeKind(pct, full, rate) ==
  IF rate.CapacityMWh > 0 THEN "hardware"
  ELSE IF full > 0 /\ pct >= 0 THEN "percent" ELSE "none"

ChargeNow(pct, full, rate) ==
  IF rate.CapacityMWh > 0 THEN rate.CapacityMWh ELSE (full * pct) \div 100

(* int() of a float: towards zero.                                         *)
Quotient(n, d) == IF n >= 0 THEN n \div d ELSE -((-n) \div d)

Estimates(kind, rate) ==
  kind # "none" /\ lastCapMWh > 0 /\ capAge > 0 /\ rate.RateMW = 0

RebaseHardware(kind, charge) ==   \* mistaken: the percent branch keeps an old baseline
  /\ lastCapMWh' = IF kind = "hardware" \/ (kind = "percent" /\ lastCapMWh = 0)
                   THEN charge ELSE lastCapMWh
  /\ capAge' = IF kind = "none" THEN capAge ELSE 0

Rebase(kind, charge) ==
  /\ lastCapMWh' = IF kind = "none" THEN lastCapMWh ELSE charge
  /\ capAge' = IF kind = "none" THEN capAge ELSE 0

Estimate(pct, full, rate) ==
  LET kind == ChargeKind(pct, full, rate)
      charge == ChargeNow(pct, full, rate)
  IN /\ published' =
          IF Estimates(kind, rate)
          THEN [Percent |-> pct, Source |-> "estimated", CapacityMWh |-> charge,
                RateMW |-> Quotient((charge - lastCapMWh) * 3600, capAge)]
          ELSE [Percent |-> pct, Source |-> rate.Source,
                CapacityMWh |-> rate.CapacityMWh, RateMW |-> rate.RateMW]
     /\ Rebase(kind, charge)

-----------------------------------------------------------------------------
(* Notifications.  A change of the power line re-arms every latch, but only *)
(* when the previous percentage was known.                                  *)
ACChangedOrUnknown(ac) == lastPercent < 0 \/ ac # lastACStatus   \* mistaken: -1 counts as a change
ACChanged(ac) == lastPercent >= 0 /\ ac # lastACStatus
NeverRearmed(sent, ac) == sent   \* mistaken: a change of the power line re-arms nothing
Armed(sent, ac) == sent /\ ~ACChanged(ac)
MayRepeat(sent, ac) == ~cfg.SuppressRepeats \/ ~Armed(sent, ac)

OnBattery(pct, ac) == ac = ACOffline /\ pct >= 0
IsCritical(pct, ac) == OnBattery(pct, ac) /\ pct <= cfg.CriticalLevel
IsLow(pct, ac) == OnBattery(pct, ac) /\ pct > cfg.CriticalLevel /\ pct <= cfg.WarnLevel
IsRecovered(pct, ac) == OnBattery(pct, ac) /\ pct > cfg.CriticalLevel /\ pct > cfg.WarnLevel
IsFull(pct, ac) == ac = ACOnline /\ pct >= cfg.FullLevel /\ cfg.NotifyOnFull

Sends(note, pct, ac) ==
  CASE note = "unplugged" -> ACChanged(ac) /\ ac = ACOffline /\ cfg.NotifyOnUnplug
    [] note = "plugged"   -> ACChanged(ac) /\ ac = ACOnline /\ cfg.NotifyOnPlug
    [] note = "critical"  -> IsCritical(pct, ac) /\ MayRepeat(criticalSent, ac)
    [] note = "low"       -> IsLow(pct, ac) /\ MayRepeat(warnSent, ac)
    [] note = "full"      -> IsFull(pct, ac) /\ MayRepeat(fullSent, ac)

LatchLowApart(pct, ac) ==   \* mistaken: critical does not count as low
  /\ warnSent' = (~IsRecovered(pct, ac) /\ (Armed(warnSent, ac) \/ IsLow(pct, ac)))
  /\ criticalSent' = (~IsRecovered(pct, ac) /\
       (Armed(criticalSent, ac) \/ Sends("critical", pct, ac)))

LatchLow(pct, ac) ==
  /\ warnSent' = (~IsRecovered(pct, ac) /\
       (Armed(warnSent, ac) \/ IsLow(pct, ac) \/ Sends("critical", pct, ac)))
  /\ criticalSent' = (~IsRecovered(pct, ac) /\
       (Armed(criticalSent, ac) \/ Sends("critical", pct, ac)))

LatchFullKept(pct, ac) ==   \* mistaken: not reset below the full level
  fullSent' = (IsFull(pct, ac) \/ Armed(fullSent, ac))

LatchFull(pct, ac) ==
  fullSent' = (IsFull(pct, ac) \/ (Armed(fullSent, ac) /\ pct >= cfg.FullLevel))

Alert(pct, ac) ==
  /\ notes' = {note \in Notes : Sends(note, pct, ac)}
  /\ LatchLow(pct, ac)
  /\ LatchFull(pct, ac)
  /\ lastPercent' = pct
  /\ lastACStatus' = ac

-----------------------------------------------------------------------------
(* process of a reading with a battery.  Push and Record get the same      *)
(* reading; an error of Record is logged and changes nothing here.         *)
Process(pct, ac, full, rate) ==
  /\ Estimate(pct, full, rate)
  /\ Alert(pct, ac)

(* One turn of Run up to its select.                                       *)
PollReading(raw, ac, full, rate) ==
  /\ pc = "poll"
  /\ infoPercent' = Percent(raw)
  /\ Process(Percent(raw), ac, full, rate)
  /\ pc' = "wait"
  /\ UNCHANGED <<cfg, stop>>

PollNoBattery ==
  /\ pc = "poll"
  /\ \E raw \in RawPercents : infoPercent' = Percent(raw)
  /\ pc' = "wait"
  /\ UNCHANGED <<cfg, observed, latches, baseline, stop, notes, published>>

PollError ==
  /\ pc = "poll"
  /\ pc' = "wait"
  /\ UNCHANGED <<cfg, observed, latches, baseline, infoPercent, stop, notes, published>>

(* The select: the timer, or the closed channel.  With a positive interval *)
(* a timer armed after the channel was closed never gets to fire.          *)
Grow(age, d) == IF age + d > MaxAge THEN MaxAge ELSE age + d

Timer ==
  /\ pc = "wait"
  /\ ~stop \/ nextInterval <= 0
  /\ \E late \in Lateness :
       capAge' = Grow(capAge, late + IF nextInterval > 0 THEN nextInterval ELSE 0)
  /\ pc' = "poll"
  /\ notes' = {}
  /\ published' = NoReading
  /\ UNCHANGED <<cfg, observed, latches, lastCapMWh, infoPercent, stop>>

StoppedAsleep ==   \* mistaken: the channel is looked at only in a real sleep
  /\ pc = "wait"
  /\ stop
  /\ nextInterval > 0
  /\ pc' = "stopped"
  /\ UNCHANGED <<cfg, observed, latches, baseline, infoPercent, stop, notes, published>>

Stopped ==
  /\ pc = "wait"
  /\ stop
  /\ pc' = "stopped"
  /\ UNCHANGED <<cfg, observed, latches, baseline, infoPercent, stop, notes, published>>

CloseStop ==
  /\ ~stop
  /\ stop' = TRUE
  /\ UNCHANGED <<cfg, observed, latches, baseline, infoPercent, pc, notes, published>>

Terminated ==
  /\ pc = "stopped"
  /\ stop
  /\ UNCHANGED vars

Reading ==
  \E raw \in RawPercents, ac \in ACStatuses, full \in FullCaps, rate \in Rates :
    PollReading(raw, ac, full, rate)

Poll == Reading \/ PollNoBattery \/ PollError
Next == Poll \/ Timer \/ Stopped \/ CloseStop \/ Terminated

(* A poll and the timer are always scheduled; select picks among ready     *)
(* cases at random, so a case ready again and again is taken: strong       *)
(* fairness for the closed channel.                                        *)
Fairness == WF_vars(Poll) /\ WF_vars(Timer) /\ SF_vars(Stopped)

Spec == Init /\ [][Next]_vars
FairSpec == Spec /\ Fairness

-----------------------------------------------------------------------------
(* Types of the monitor's state.                                           *)
TypeOK ==
  /\ cfg \in Config
  /\ lastPercent \in -1..255
  /\ lastACStatus \in ACStatuses
  /\ warnSent \in BOOLEAN /\ criticalSent \in BOOLEAN /\ fullSent \in BOOLEAN
  /\ lastCapMWh \in Nat /\ capAge \in 0..MaxAge
  /\ infoPercent \in -1..255
  /\ pc \in {"poll", "wait", "stopped"}
  /\ stop \in BOOLEAN
  /\ notes \subseteq Notes

(* The user who was told "critical" counts as told "low".                  *)
LatchOrder == criticalSent => warnSent

(* The full latch is set only while the battery is seen full on mains, so  *)
(* that the next charge to full is announced again.                        *)
FullLatch ==
  fullSent /\ cfg.FullLevel >= 0 =>
    lastACStatus = ACOnline /\ lastPercent >= cfg.FullLevel /\ cfg.NotifyOnFull

(* On battery the latches tell what the last reading asked for: nothing in *)
(* the critical or low band stays unannounced, and a recovered battery has *)
(* both alerts ready again.                                                *)
LowLatched ==
  /\ IsCritical(lastPercent, lastACStatus) => criticalSent /\ warnSent
  /\ IsLow(lastPercent, lastACStatus) => warnSent
  /\ IsRecovered(lastPercent, lastACStatus) => ~warnSent /\ ~criticalSent

(* The latches agree with the last reading (process, monitor.go:195-225).  *)
LatchInv == LatchOrder /\ FullLatch /\ LowLatched

-----------------------------------------------------------------------------
(* The abstract ladder this monitor implements.                            *)
Rung == IF criticalSent THEN 2 ELSE IF warnSent THEN 1 ELSE 0
Told == IF "critical" \in notes THEN 2 ELSE IF "low" \in notes THEN 1 ELSE 0

Ladder == INSTANCE AlertLadder WITH
  Powers <- ACStatuses, Discharging <- ACOffline,
  repeats <- ~cfg.SuppressRepeats, power <- lastACStatus, rung <- Rung, told <- Told

(* The latches of process, re-armed and set in five places, behave like    *)
(* the ladder: no rung is skipped, none repeated unless repeats are wanted.*)
LadderSpec == Ladder!Spec
=============================================================================
