--------------------------- MODULE MonitorProofs ---------------------------
(***************************************************************************)
(* Proofs about Monitor.tla and MonitorHistory.tla for every set of        *)
(* configurations, percentages, rates and capacities: the monitor's types, *)
(* the agreement of the latches with the last reading, and that the        *)
(* notifications follow AlertLadder; then what the user is told: nothing   *)
(* twice while it stands, the critical battery always, and estimates that  *)
(* have the direction of the charge.                                       *)
(***************************************************************************)
EXTENDS MonitorHistory, TLAPS

(* The steps of the loop that leave the last reading and the latches alone.*)
Idle == PollNoBattery \/ PollError \/ Timer \/ Stopped \/ CloseStop \/ Terminated

LEMMA NextIsReadingOrIdle == Next <=> Reading \/ Idle
  BY DEF Next, Poll, Idle

LEMMA IdleKeepsLatches ==
  ASSUME Idle \/ UNCHANGED vars
  PROVE  UNCHANGED <<cfg, observed, latches>>
  BY DEF Idle, vars, PollNoBattery, PollError, Timer, Stopped, CloseStop, Terminated

-----------------------------------------------------------------------------
(* battery.Get hands on -1 or a byte.                                      *)
LEMMA PercentRange ==
  ASSUME NEW raw \in RawPercents
  PROVE  Percent(raw) \in -1..255
  BY ConstantsOK DEF ConstantsOK, Percent

(* A charge that is used as a baseline is never negative.                  *)
LEMMA ChargeNat ==
  ASSUME NEW pct \in -1..255, NEW full \in FullCaps, NEW rate \in Rates,
         ChargeKind(pct, full, rate) # "none"
  PROVE  ChargeNow(pct, full, rate) \in Nat
<1>1. full \in Nat /\ rate.CapacityMWh \in Nat
  BY ConstantsOK DEF ConstantsOK, RateInfo
<1>2. CASE rate.CapacityMWh > 0
  BY <1>1, <1>2 DEF ChargeNow
<1>3. CASE ~(rate.CapacityMWh > 0)
  <2>1. pct \in Nat
    BY <1>3 DEF ChargeKind
  <2>2. full * pct \in Nat
    BY <1>1, <2>1
  <2>3. \A n \in Nat : n \div 100 \in Nat
    OBVIOUS
  <2> QED
    BY <1>3, <2>2, <2>3 DEF ChargeNow
<1> QED
  BY <1>2, <1>3

LEMMA InitType == Init => TypeOK
<1> SUFFICES ASSUME Init
             PROVE  TypeOK
  OBVIOUS
<1>1. cfg \in Config
  BY ConstantsOK DEF ConstantsOK, Init
<1>2. lastPercent \in -1..255 /\ infoPercent \in -1..255 /\ lastCapMWh \in Nat
  BY DEF Init
<1>3. capAge \in 0..MaxAge
  BY ConstantsOK DEF ConstantsOK, Init
<1>4. lastACStatus \in ACStatuses
  BY DEF Init, ACStatuses
<1> QED
  BY <1>1, <1>2, <1>3, <1>4 DEF Init, TypeOK

LEMMA ReadingType ==
  ASSUME TypeOK, NEW raw \in RawPercents, NEW ac \in ACStatuses,
         NEW full \in FullCaps, NEW rate \in Rates, PollReading(raw, ac, full, rate)
  PROVE  TypeOK'
<1> DEFINE pct == Percent(raw)
           kind == ChargeKind(pct, full, rate)
           charge == ChargeNow(pct, full, rate)
<1>1. pct \in -1..255
  BY PercentRange
<1>2. lastCapMWh' \in Nat
  <2>1. lastCapMWh' = IF kind = "none" THEN lastCapMWh ELSE charge
    BY DEF PollReading, Process, Estimate, Rebase
  <2>2. kind # "none" => charge \in Nat
    BY <1>1, ChargeNat
  <2> QED
    BY <2>1, <2>2 DEF TypeOK
<1>3. capAge' \in 0..MaxAge
  BY ConstantsOK DEF ConstantsOK, PollReading, Process, Estimate, Rebase, TypeOK
<1>4. warnSent' \in BOOLEAN /\ criticalSent' \in BOOLEAN /\ fullSent' \in BOOLEAN
  BY DEF PollReading, Process, Alert, LatchLow, LatchFull
<1>5. notes' \subseteq Notes
  BY DEF PollReading, Process, Alert
<1>6. lastPercent' = pct /\ lastACStatus' = ac /\ infoPercent' = pct /\ pc' = "wait"
      /\ cfg' = cfg /\ stop' = stop
  BY DEF PollReading, Process, Alert
<1> QED
  BY <1>1, <1>2, <1>3, <1>4, <1>5, <1>6 DEF TypeOK

LEMMA GrowRange ==
  ASSUME NEW age \in 0..MaxAge, NEW d \in Nat
  PROVE  Grow(age, d) \in 0..MaxAge
  BY ConstantsOK DEF ConstantsOK, Grow

LEMMA IdleType ==
  ASSUME TypeOK, Idle \/ UNCHANGED vars
  PROVE  TypeOK'
<1>1. CASE PollNoBattery
  BY <1>1, PercentRange DEF PollNoBattery, TypeOK, observed, latches, baseline
<1>2. CASE PollError
  BY <1>2 DEF PollError, TypeOK, observed, latches, baseline
<1>3. CASE Timer
  <2>1. PICK late \in Lateness :
          capAge' = Grow(capAge, late + IF nextInterval > 0 THEN nextInterval ELSE 0)
    BY <1>3 DEF Timer
  <2>2. nextInterval \in Int
    BY DEF TypeOK, Config, nextInterval
  <2>3. late + (IF nextInterval > 0 THEN nextInterval ELSE 0) \in Nat
    BY <2>2, ConstantsOK DEF ConstantsOK
  <2>4. capAge' \in 0..MaxAge
    BY <2>1, <2>3, GrowRange DEF TypeOK
  <2> QED
    BY <1>3, <2>4 DEF Timer, TypeOK, observed, latches
<1>4. CASE Stopped
  BY <1>4 DEF Stopped, TypeOK, observed, latches, baseline
<1>5. CASE CloseStop
  BY <1>5 DEF CloseStop, TypeOK, observed, latches, baseline
<1>6. CASE Terminated \/ UNCHANGED vars
  BY <1>6 DEF Terminated, vars, TypeOK, observed, latches, baseline
<1> QED
  BY <1>1, <1>2, <1>3, <1>4, <1>5, <1>6 DEF Idle

(* Every variable keeps its type, for all constants ConstantsOK allows.    *)
THEOREM TypeCorrect == Spec => []TypeOK
<1>1. ASSUME TypeOK, [Next]_vars
      PROVE  TypeOK'
  BY <1>1, ReadingType, IdleType, NextIsReadingOrIdle DEF Reading
<1> QED
  BY <1>1, InitType, PTL DEF Spec

-----------------------------------------------------------------------------
(* The latches after a reading agree with it.                              *)
LEMMA ReadingLatches ==
  ASSUME TypeOK, LatchInv, NEW raw \in RawPercents, NEW ac \in ACStatuses,
         NEW full \in FullCaps, NEW rate \in Rates, PollReading(raw, ac, full, rate)
  PROVE  LatchInv'
<1> DEFINE pct == Percent(raw)
<1>1. /\ pct \in Int /\ lastPercent \in Int
      /\ cfg.CriticalLevel \in Int /\ cfg.WarnLevel \in Int /\ cfg.FullLevel \in Int
      /\ cfg.NotifyOnFull \in BOOLEAN /\ cfg.SuppressRepeats \in BOOLEAN
      /\ fullSent \in BOOLEAN /\ warnSent \in BOOLEAN /\ criticalSent \in BOOLEAN
  BY PercentRange DEF TypeOK, Config
<1>2. lastPercent' = pct /\ lastACStatus' = ac /\ cfg' = cfg
  BY DEF PollReading, Process, Alert
<1>3. LatchLow(pct, ac) /\ LatchFull(pct, ac)
  BY DEF PollReading, Process, Alert
<1>4. LatchOrder'
  BY <1>3 DEF LatchLow, LatchOrder, LatchInv, Armed
<1>5. FullLatch'
  <2>1. fullSent' <=> IsFull(pct, ac) \/ (Armed(fullSent, ac) /\ pct >= cfg.FullLevel)
    BY <1>3 DEF LatchFull
  <2>2. ASSUME Armed(fullSent, ac), cfg.FullLevel >= 0
        PROVE  ac = ACOnline /\ cfg.NotifyOnFull
    BY <1>1, <2>2 DEF FullLatch, LatchInv, Armed, ACChanged
  <2> QED
    BY <1>1, <1>2, <2>1, <2>2 DEF FullLatch, IsFull
<1>6. LowLatched'
  <2>1. /\ IsCritical(lastPercent, lastACStatus)' <=> IsCritical(pct, ac)
        /\ IsLow(lastPercent, lastACStatus)' <=> IsLow(pct, ac)
        /\ IsRecovered(lastPercent, lastACStatus)' <=> IsRecovered(pct, ac)
    BY <1>2 DEF IsCritical, IsLow, IsRecovered, OnBattery
  <2>2. IsCritical(pct, ac) => ~IsRecovered(pct, ac) /\ ~IsLow(pct, ac)
    BY <1>1 DEF IsCritical, IsLow, IsRecovered
  <2>3. IsLow(pct, ac) => ~IsRecovered(pct, ac)
    BY <1>1 DEF IsLow, IsRecovered
  <2>4. Sends("critical", pct, ac) <=> IsCritical(pct, ac) /\ MayRepeat(criticalSent, ac)
    BY DEF Sends
  <2> QED
    BY <1>1, <1>3, <2>1, <2>2, <2>3, <2>4
       DEF LatchLow, LowLatched, Armed, MayRepeat, LatchInv, LatchOrder
<1> QED
  BY <1>4, <1>5, <1>6 DEF LatchInv

LEMMA IdleLatches ==
  ASSUME LatchInv, Idle \/ UNCHANGED vars
  PROVE  LatchInv'
  BY IdleKeepsLatches DEF LatchInv, LatchOrder, FullLatch, LowLatched, observed, latches,
     IsCritical, IsLow, IsRecovered, OnBattery

(* Nothing a reading asked to be announced is left unlatched, nothing is   *)
(* latched that the next occurrence should announce (monitor.go:195-225).  *)
THEOREM LatchesCorrect == Spec => []LatchInv
<1>1. Init => LatchInv
  BY DEF Init, LatchInv, LatchOrder, FullLatch, LowLatched, IsCritical, IsLow,
     IsRecovered, OnBattery
<1>2. ASSUME TypeOK, LatchInv, [Next]_vars
      PROVE  LatchInv'
  BY <1>2, ReadingLatches, IdleLatches, NextIsReadingOrIdle DEF Reading
<1> QED
  BY <1>1, <1>2, TypeCorrect, PTL DEF Spec
-----------------------------------------------------------------------------
(* Refinement of AlertLadder.                                              *)
LEMMA LadderInit == Init => Ladder!Init
  BY ConstantsOK DEF ConstantsOK, Init, Ladder!Init, Rung, Told, Config

LEMMA IdleSettles ==
  ASSUME Idle \/ UNCHANGED vars
  PROVE  Ladder!Settle \/ UNCHANGED Ladder!vars
<1>1. Rung' = Rung /\ UNCHANGED <<cfg, lastACStatus>>
  BY IdleKeepsLatches DEF Rung, observed, latches
<1>2. CASE Timer
  <2>1. Told' = 0
    BY <1>2 DEF Timer, Told
  <2> QED
    BY <1>1, <2>1 DEF Ladder!Settle
<1>3. CASE ~Timer
  <2>1. Told' = Told
    BY <1>3 DEF Idle, Told, vars, PollNoBattery, PollError, Stopped, CloseStop, Terminated
  <2> QED
    BY <1>1, <2>1 DEF Ladder!vars
<1> QED
  BY <1>2, <1>3

(* A reading moves the user as the ladder says, from the rung reached or,  *)
(* when the power line changed, from the ground.                           *)
LEMMA ReadingClimbs ==
  ASSUME TypeOK, LatchOrder, NEW raw \in RawPercents, NEW ac \in ACStatuses,
         NEW full \in FullCaps, NEW rate \in Rates, PollReading(raw, ac, full, rate)
  PROVE  \E band \in Ladder!Bands : Ladder!Reading(ac, band)
<1> DEFINE pct == Percent(raw)
           from == IF ACChanged(ac) THEN 0 ELSE Rung
           band == IF pct < 0 THEN -1 ELSE IF pct <= cfg.CriticalLevel THEN 2
                   ELSE IF pct <= cfg.WarnLevel THEN 1 ELSE 0
<1>1. /\ pct \in Int
      /\ cfg.CriticalLevel \in Int /\ cfg.WarnLevel \in Int
      /\ cfg.SuppressRepeats \in BOOLEAN
  BY PercentRange DEF TypeOK, Config
<1>2. lastACStatus' = ac /\ cfg' = cfg /\ LatchLow(pct, ac)
  BY DEF PollReading, Process, Alert
<1>3. \A n \in Notes : n \in notes' <=> Sends(n, pct, ac)
  BY DEF PollReading, Process, Alert
<1>4. "critical" \in notes' <=> IsCritical(pct, ac) /\ MayRepeat(criticalSent, ac)
  BY <1>3 DEF Notes, Sends
<1>5. "low" \in notes' <=> IsLow(pct, ac) /\ MayRepeat(warnSent, ac)
  BY <1>3 DEF Notes, Sends
<1>6. from \in Ladder!Starts(ac)
  BY DEF Ladder!Starts, ACChanged
<1>7. band \in Ladder!Bands
  BY DEF Ladder!Bands
<1>8. /\ from \in 0..2
      /\ Armed(criticalSent, ac) <=> from = 2
      /\ Armed(warnSent, ac) <=> from > 0
  BY DEF TypeOK, LatchOrder, Rung, Armed
<1>9. ASSUME ac = ACOffline /\ band >= 0
      PROVE  /\ Rung' = IF band = 0 THEN 0 ELSE Ladder!Highest(from, band)
             /\ Told' = IF band > 0 /\ (~cfg.SuppressRepeats \/ band > from) THEN band ELSE 0
  <2>1. OnBattery(pct, ac)
    BY <1>9, <1>1 DEF OnBattery
  <2>2. CASE band = 2
    <3>1. IsCritical(pct, ac) /\ ~IsLow(pct, ac) /\ ~IsRecovered(pct, ac)
      BY <2>1, <2>2, <1>1 DEF IsCritical, IsLow, IsRecovered
    <3>2. criticalSent' /\ warnSent'
      BY <3>1, <1>2, <1>3, <1>4 DEF LatchLow, Sends, MayRepeat, Notes, Armed, LatchOrder
    <3>3. "critical" \in notes' <=> ~cfg.SuppressRepeats \/ from < 2
      BY <3>1, <1>4, <1>8 DEF MayRepeat
    <3> QED
      BY <2>2, <3>1, <3>2, <3>3, <1>5, <1>8 DEF Rung, Told, Ladder!Highest
  <2>3. CASE band = 1
    <3>1. IsLow(pct, ac) /\ ~IsCritical(pct, ac) /\ ~IsRecovered(pct, ac)
      BY <2>1, <2>3, <1>1 DEF IsCritical, IsLow, IsRecovered
    <3>2. warnSent' /\ (criticalSent' <=> from = 2)
      BY <3>1, <1>2, <1>8 DEF LatchLow, Sends
    <3>3. "low" \in notes' <=> ~cfg.SuppressRepeats \/ from < 1
      BY <3>1, <1>5, <1>8 DEF MayRepeat
    <3> QED
      BY <2>3, <3>1, <3>2, <3>3, <1>4, <1>8 DEF Rung, Told, Ladder!Highest
  <2>4. CASE band = 0
    <3>1. IsRecovered(pct, ac) /\ ~IsCritical(pct, ac) /\ ~IsLow(pct, ac)
      BY <2>1, <2>4, <1>1 DEF IsCritical, IsLow, IsRecovered
    <3> QED
      BY <2>4, <3>1, <1>2, <1>4, <1>5 DEF LatchLow, Rung, Told
  <2>5. band \in {0, 1, 2}
    BY <1>9
  <2> HIDE DEF band
  <2> QED
    BY <2>2, <2>3, <2>4, <2>5
<1>10. ASSUME ~(ac = ACOffline /\ band >= 0)
       PROVE  Rung' = from /\ Told' = 0
  <2>1. ~OnBattery(pct, ac)
    BY <1>10, <1>1 DEF OnBattery
  <2>2. ~IsCritical(pct, ac) /\ ~IsLow(pct, ac) /\ ~IsRecovered(pct, ac)
    BY <2>1 DEF IsCritical, IsLow, IsRecovered
  <2>3. (criticalSent' <=> Armed(criticalSent, ac)) /\ (warnSent' <=> Armed(warnSent, ac))
    BY <2>2, <1>2 DEF LatchLow, Sends
  <2> QED
    BY <2>2, <2>3, <1>4, <1>5, <1>8 DEF Rung, Told
<1>11. Ladder!Reading(ac, band)
  <2> HIDE DEF from, band
  <2> QED
    BY <1>2, <1>6, <1>9, <1>10 DEF Ladder!Reading
<1> QED
  BY <1>7, <1>11

(* The monitor's low and critical notifications are a behaviour of the     *)
(* ladder: none is skipped and, unless wanted, none repeated (process,     *)
(* monitor.go:181-214).                                                    *)
THEOREM ImplementsLadder == Spec => LadderSpec
<1>1. ASSUME TypeOK, LatchInv, [Next]_vars
      PROVE  [Ladder!Next]_(Ladder!vars)
  <2>1. CASE Reading
    <3>1. PICK raw \in RawPercents, ac \in ACStatuses, full \in FullCaps, rate \in Rates :
            PollReading(raw, ac, full, rate)
      BY <2>1 DEF Reading
    <3> QED
      BY <1>1, <3>1, ReadingClimbs DEF LatchInv, Ladder!Next
  <2>2. CASE Idle \/ UNCHANGED vars
    BY <2>2, IdleSettles DEF Ladder!Next
  <2> QED
    BY <1>1, <2>1, <2>2, NextIsReadingOrIdle
<1> QED
  BY <1>1, LadderInit, TypeCorrect, LatchesCorrect, PTL DEF Spec, LadderSpec, Ladder!Spec

-----------------------------------------------------------------------------
(* What the user is told: the latches against the history of the power     *)
(* session.  A note that stands is latched, and the critical latch, if the *)
(* session did not inherit it, stands for a note.                          *)
ToldLatched ==
  /\ "critical" \in told => criticalSent
  /\ "low" \in told => warnSent
  /\ "full" \in told => fullSent

CriticalKept == criticalSent /\ ~masked => "critical" \in told

-----------------------------------------------------------------------------
(* The history only watches: every behaviour with it is one of Spec.       *)
LEMMA HStepIsStep ==
  ASSUME [HNext]_hvars
  PROVE  [Next]_vars
<1>1. CASE HNext
  BY <1>1 DEF HNext, HReading, HOther, Next, Poll, Reading
<1>2. CASE UNCHANGED hvars
  BY <1>2 DEF hvars
<1> QED
  BY <1>1, <1>2

THEOREM HistoryWatches == HSpec => Spec
<1>1. HInit => Init
  BY DEF HInit
<1> QED
  BY <1>1, HStepIsStep, PTL DEF HSpec, Spec

(* What a step that is not a reading does to the history: nothing.         *)
LEMMA OtherKeeps ==
  ASSUME HOther \/ UNCHANGED hvars
  PROVE  UNCHANGED <<cfg, observed, latches, told, masked>>
<1>1. Idle \/ UNCHANGED vars
  BY DEF HOther, Idle, hvars
<1> QED
  BY <1>1, IdleKeepsLatches DEF HOther, hvars

(* The facts of a reading the proofs below use.                            *)
LEMMA ReadingFacts ==
  ASSUME TypeOK, NEW raw \in RawPercents, NEW ac \in ACStatuses,
         NEW full \in FullCaps, NEW rate \in Rates, HReading(raw, ac, full, rate)
  PROVE  LET pct == Percent(raw) IN
         /\ pct \in Int /\ cfg' = cfg
         /\ lastPercent' = pct /\ lastACStatus' = ac
         /\ LatchLow(pct, ac) /\ LatchFull(pct, ac)
         /\ "critical" \in notes' <=> IsCritical(pct, ac) /\ MayRepeat(criticalSent, ac)
         /\ "low" \in notes' <=> IsLow(pct, ac) /\ MayRepeat(warnSent, ac)
         /\ "full" \in notes' <=> IsFull(pct, ac) /\ MayRepeat(fullSent, ac)
         /\ "critical" \in Stale <=> IsRecovered(pct, ac)
         /\ "low" \in Stale <=> IsRecovered(pct, ac)
         /\ "full" \in Stale <=> pct < cfg.FullLevel
         /\ told' = Kept \cup notes'
         /\ ac # lastACStatus => (masked' <=> lastPercent < 0)
         /\ ac = lastACStatus => masked' = masked
<1> DEFINE pct == Percent(raw)
<1>1. pct \in Int
  BY PercentRange
<1>2. cfg' = cfg /\ lastPercent' = pct /\ lastACStatus' = ac
      /\ LatchLow(pct, ac) /\ LatchFull(pct, ac)
  BY DEF HReading, PollReading, Process, Alert
<1>3. \A n \in Notes : n \in notes' <=> Sends(n, pct, ac)
  BY DEF HReading, PollReading, Process, Alert
<1>4. /\ "critical" \in notes' <=> IsCritical(pct, ac) /\ MayRepeat(criticalSent, ac)
      /\ "low" \in notes' <=> IsLow(pct, ac) /\ MayRepeat(warnSent, ac)
      /\ "full" \in notes' <=> IsFull(pct, ac) /\ MayRepeat(fullSent, ac)
  BY <1>3 DEF Notes, Sends
<1>5. /\ "critical" \in Stale <=> IsRecovered(pct, ac)
      /\ "low" \in Stale <=> IsRecovered(pct, ac)
      /\ "full" \in Stale <=> pct < cfg.FullLevel
  BY <1>2 DEF Stale
<1>6. /\ told' = Kept \cup notes'
      /\ ac # lastACStatus => (masked' <=> lastPercent < 0)
      /\ ac = lastACStatus => masked' = masked
  BY <1>2 DEF HReading, NewSession
<1> QED
  BY <1>1, <1>2, <1>4, <1>5, <1>6

(* What is kept stands in the same session and was not made stale.         *)
LEMMA KeptFacts ==
  ASSUME NEW n \in Notes
  PROVE  n \in Kept <=> n \in told /\ lastACStatus' = lastACStatus /\ n \notin Stale
  BY DEF Kept, NewSession

-----------------------------------------------------------------------------
LEMMA ReadingToldLatched ==
  ASSUME TypeOK, ToldLatched, NEW raw \in RawPercents, NEW ac \in ACStatuses,
         NEW full \in FullCaps, NEW rate \in Rates, HReading(raw, ac, full, rate)
  PROVE  ToldLatched'
<1> DEFINE pct == Percent(raw)
<1> USE ReadingFacts
<1>1. /\ pct \in Int /\ cfg.CriticalLevel \in Int /\ cfg.WarnLevel \in Int /\ cfg.FullLevel \in Int
      /\ lastACStatus' = ac
  BY DEF TypeOK, Config
<1>2. \A n \in Notes : n \in Kept => n \in told /\ ~ACChanged(ac) /\ n \notin Stale
  BY <1>1, KeptFacts DEF ACChanged
<1>3. IsCritical(pct, ac) => ~IsRecovered(pct, ac)
  BY <1>1 DEF IsCritical, IsRecovered
<1>4. IsLow(pct, ac) => ~IsRecovered(pct, ac)
  BY <1>1 DEF IsLow, IsRecovered
<1>5. "critical" \in told' => criticalSent'
  <2>1. CASE "critical" \in Kept
    BY <2>1, <1>2 DEF LatchLow, Armed, ToldLatched, Notes
  <2>2. CASE "critical" \in notes'
    BY <2>2, <1>3 DEF LatchLow, Sends
  <2> QED
    BY <2>1, <2>2
<1>6. "low" \in told' => warnSent'
  <2>1. CASE "low" \in Kept
    BY <2>1, <1>2 DEF LatchLow, Armed, ToldLatched, Notes
  <2>2. CASE "low" \in notes'
    BY <2>2, <1>4 DEF LatchLow
  <2> QED
    BY <2>1, <2>2
<1>7. "full" \in told' => fullSent'
  <2>1. CASE "full" \in Kept
    <3>1. Armed(fullSent, ac) /\ ~(pct < cfg.FullLevel)
      BY <2>1, <1>2 DEF Armed, ToldLatched, Notes
    <3>2. pct >= cfg.FullLevel
      BY <3>1, <1>1
    <3> QED
      BY <3>1, <3>2 DEF LatchFull
  <2>2. CASE "full" \in notes'
    BY <2>2 DEF LatchFull
  <2> QED
    BY <2>1, <2>2
<1> QED
  BY <1>5, <1>6, <1>7 DEF ToldLatched

LEMMA ToldLatchedInvariant == HSpec => []ToldLatched
<1>1. HInit => ToldLatched
  BY DEF HInit, ToldLatched
<1>2. ASSUME TypeOK, ToldLatched, [HNext]_hvars
      PROVE  ToldLatched'
  <2>1. CASE HOther \/ UNCHANGED hvars
    BY <1>2, <2>1, OtherKeeps DEF ToldLatched, latches
  <2> QED
    BY <1>2, <2>1, ReadingToldLatched DEF HNext
<1> QED
  BY <1>1, <1>2, HistoryWatches, TypeCorrect, PTL DEF HSpec

(* With SuppressRepeats nothing that still stands is told again            *)
(* (config.go:24, monitor.go:198-222).                                     *)
THEOREM NothingRepeated == HSpec => NoRepeat
<1>1. ASSUME TypeOK, ToldLatched, [HNext]_hvars, cfg.SuppressRepeats
      PROVE  (notes' \ notes) \cap Kept \cap {"low", "critical", "full"} = {}
  <2>1. CASE HOther \/ UNCHANGED hvars
    <3>1. notes' \subseteq notes
      BY <2>1 DEF HOther, hvars, vars, PollNoBattery, PollError, Timer, Stopped,
         CloseStop, Terminated
    <3> QED
      BY <3>1
  <2>2. ASSUME NEW raw \in RawPercents, NEW ac \in ACStatuses,
               NEW full \in FullCaps, NEW rate \in Rates, HReading(raw, ac, full, rate)
        PROVE  \A n \in {"low", "critical", "full"} : n \in Kept => n \notin notes'
    <3>1. \A n \in Notes : n \in Kept => n \in told /\ ~ACChanged(ac)
      BY <1>1, <2>2, ReadingFacts, KeptFacts DEF ACChanged
    <3>2. "low" \in Kept => "low" \notin notes'
      BY <1>1, <2>2, <3>1, ReadingFacts DEF MayRepeat, Armed, ToldLatched, Notes
    <3>3. "critical" \in Kept => "critical" \notin notes'
      BY <1>1, <2>2, <3>1, ReadingFacts DEF MayRepeat, Armed, ToldLatched, Notes
    <3>4. "full" \in Kept => "full" \notin notes'
      BY <1>1, <2>2, <3>1, ReadingFacts DEF MayRepeat, Armed, ToldLatched, Notes
    <3> QED
      BY <3>2, <3>3, <3>4
  <2> QED
    BY <1>1, <2>1, <2>2 DEF HNext
<1> QED
  BY <1>1, ToldLatchedInvariant, HistoryWatches, TypeCorrect, PTL DEF HSpec, NoRepeat

-----------------------------------------------------------------------------
LEMMA ReadingCriticalKept ==
  ASSUME TypeOK, CriticalKept, NEW raw \in RawPercents, NEW ac \in ACStatuses,
         NEW full \in FullCaps, NEW rate \in Rates, HReading(raw, ac, full, rate)
  PROVE  CriticalKept'
<1> DEFINE pct == Percent(raw)
<1> SUFFICES ASSUME criticalSent', ~masked', "critical" \notin notes'
             PROVE  "critical" \in told'
  BY ReadingFacts DEF CriticalKept
<1>1. Armed(criticalSent, ac) /\ ~IsRecovered(pct, ac)
  BY ReadingFacts DEF LatchLow, Sends
<1>2. lastPercent \in Int
  BY DEF TypeOK
<1>3. ac = lastACStatus /\ ~masked
  <2>1. ac # lastACStatus => lastPercent >= 0
    BY <1>2, ReadingFacts
  <2> QED
    BY <1>1, <2>1, ReadingFacts DEF Armed, ACChanged
<1>4. "critical" \in Kept
  BY <1>1, <1>3, ReadingFacts, KeptFacts DEF Armed, CriticalKept, Notes
<1> QED
  BY <1>4, ReadingFacts

LEMMA CriticalKeptInvariant == HSpec => []CriticalKept
<1>1. HInit => CriticalKept
  BY DEF HInit, Init, CriticalKept
<1>2. ASSUME TypeOK, CriticalKept, [HNext]_hvars
      PROVE  CriticalKept'
  <2>1. CASE HOther \/ UNCHANGED hvars
    BY <1>2, <2>1, OtherKeeps DEF CriticalKept, latches
  <2> QED
    BY <1>2, <2>1, ReadingCriticalKept DEF HNext
<1> QED
  BY <1>1, <1>2, HistoryWatches, TypeCorrect, PTL DEF HSpec

(* No critical battery goes untold in a power session that began with a    *)
(* known percentage.                                                       *)
THEOREM CriticalAlwaysTold == HSpec => []CriticalTold
<1>1. LatchInv /\ CriticalKept => CriticalTold
  BY DEF LatchInv, LowLatched, CriticalKept, CriticalTold
<1> QED
  BY <1>1, CriticalKeptInvariant, HistoryWatches, LatchesCorrect, PTL

-----------------------------------------------------------------------------
(* The baseline of the estimates is the charge of the reading behind it.   *)
BaseMatches == lastCapMWh = base.charge

LEMMA BaseMatchesInvariant == HSpec => []BaseMatches
<1>1. HInit => BaseMatches
  BY DEF HInit, Init, NoBase, BaseMatches
<1>2. ASSUME BaseMatches, [HNext]_hvars
      PROVE  BaseMatches'
  <2>1. CASE HOther \/ UNCHANGED hvars
    BY <1>2, <2>1 DEF HOther, hvars, vars, baseline, PollNoBattery, PollError, Timer, Stopped,
       CloseStop, Terminated, BaseMatches
  <2>2. ASSUME NEW raw \in RawPercents, NEW ac \in ACStatuses,
               NEW full \in FullCaps, NEW rate \in Rates, HReading(raw, ac, full, rate)
        PROVE  BaseMatches'
    BY <1>2, <2>2 DEF HReading, PollReading, Process, Estimate, Rebase, BaseMatches
  <2> QED
    BY <1>2, <2>1, <2>2 DEF HNext
<1> QED
  BY <1>1, <1>2, PTL DEF HSpec

(* A division towards zero keeps the sign.                                 *)
LEMMA QuotientSign ==
  ASSUME NEW n \in Int, NEW d \in Nat \ {0}
  PROVE  /\ n >= 0 => Quotient(n, d) >= 0
         /\ n <= 0 => Quotient(n, d) <= 0
<1>1. \A k \in Nat : k \div d \in Nat
  OBVIOUS
<1>2. CASE n >= 0
  <2>1. n = 0 => n \div d = 0
    OBVIOUS
  <2> QED
    BY <1>1, <1>2, <2>1 DEF Quotient
<1>3. CASE ~(n >= 0)
  BY <1>1, <1>3 DEF Quotient
<1> QED
  BY <1>2, <1>3

LEMMA ReadingEstimate ==
  ASSUME TypeOK, BaseMatches, NEW raw \in RawPercents, NEW ac \in ACStatuses,
         NEW full \in FullCaps, NEW rate \in Rates, HReading(raw, ac, full, rate),
         published'.Source = "estimated"
  PROVE  /\ base'.charge <= base.charge => published'.RateMW <= 0
         /\ base'.charge >= base.charge => published'.RateMW >= 0
<1> DEFINE kind == ChargeKind(Percent(raw), full, rate)
           charge == ChargeNow(Percent(raw), full, rate)
<1>1. rate.Source # "estimated"
  BY ConstantsOK DEF ConstantsOK, RateInfo
<1>2. published' = IF Estimates(kind, rate)
                   THEN [Percent |-> Percent(raw), Source |-> "estimated", CapacityMWh |-> charge,
                         RateMW |-> Quotient((charge - lastCapMWh) * 3600, capAge)]
                   ELSE [Percent |-> Percent(raw), Source |-> rate.Source,
                         CapacityMWh |-> rate.CapacityMWh, RateMW |-> rate.RateMW]
  BY DEF HReading, PollReading, Process, Estimate
<1>3. /\ Estimates(kind, rate)
      /\ published'.RateMW = Quotient((charge - lastCapMWh) * 3600, capAge)
  BY <1>1, <1>2
<1>4. kind # "none" /\ capAge \in Nat \ {0} /\ lastCapMWh \in Nat
  BY <1>3, ConstantsOK DEF ConstantsOK, Estimates, TypeOK
<1>5. charge \in Nat
  BY <1>4, PercentRange, ChargeNat
<1>6. base'.charge = charge /\ base.charge = lastCapMWh
  BY <1>4 DEF HReading, BaseMatches
<1> HIDE DEF charge
<1>7. (charge - lastCapMWh) * 3600 \in Int
      /\ (charge <= lastCapMWh => (charge - lastCapMWh) * 3600 <= 0)
      /\ (charge >= lastCapMWh => (charge - lastCapMWh) * 3600 >= 0)
  BY <1>4, <1>5
<1> QED
  BY <1>3, <1>4, <1>6, <1>7, QuotientSign

(* An estimated rate is not positive when the charge did not rise since    *)
(* the baseline, and not negative when it did not fall.                    *)
THEOREM EstimatesHaveDirection == HSpec => EstimateFollowsCharge
<1>1. ASSUME TypeOK, BaseMatches, [HNext]_hvars,
             published' # published, published'.Source = "estimated"
      PROVE  /\ base'.charge <= base.charge => published'.RateMW <= 0
             /\ base'.charge >= base.charge => published'.RateMW >= 0
  <2>1. ~(HOther \/ UNCHANGED hvars)
    BY <1>1 DEF HOther, hvars, vars, PollNoBattery, PollError, Timer, Stopped, CloseStop,
       Terminated, NoReading
  <2> QED
    BY <1>1, <2>1, ReadingEstimate DEF HNext
<1> QED
  BY <1>1, BaseMatchesInvariant, HistoryWatches, TypeCorrect, PTL DEF HSpec, EstimateFollowsCharge
=============================================================================
