------------------------------ MODULE Sources ------------------------------
(***************************************************************************)
(* The electrical data of package battery.  GetCapacity answers from its   *)
(* cache or asks the device and then WMI; GetRateInfo asks the kernel, the *)
(* device and WMI in turn and merges what they know.  Each poll calls the  *)
(* one and then the other; the charger may be plugged or pulled between    *)
(* any two of these questions, and every source fails as it likes.         *)
(*                                                                         *)
(* A report keeps the rate with its sign, the voltage, the charge and the  *)
(* direction its flags tell; a source never reports a direction the        *)
(* battery does not have, but may leave it open.  What the system does not *)
(* know it gives as a sentinel, here Unknown.  Some of the fields are      *)
(* converted, to 0, some are copied as they are.                           *)
(***************************************************************************)
EXTENDS Integers

CONSTANTS
  Powers,    \* magnitudes of a rate
  Voltages, Charges,   \* voltages and charges that may be reported
  Unknown,   \* the system's value for what it does not know
  Designs,   \* design capacities that may be reported, 0 among them
  TTL,       \* life of the cached capacity, 10 minutes in the code
  MaxClock   \* bound on the clock

ASSUME SourcesOK ==
  /\ Powers \subseteq Nat \ {0} /\ Voltages \subseteq Nat \ {0}
  /\ Charges \subseteq Nat \ {0} /\ Designs \subseteq Nat /\ 0 \in Designs
  /\ Unknown \in Nat \ ({0} \cup Powers \cup Voltages \cup Charges \cup Designs)
  /\ TTL \in Nat \ {0} /\ MaxClock \in Nat

VARIABLES
  clock,     \* monotonic time
  flow,      \* what the battery does: "charging", "discharging" or "idle"
  cached,    \* capCache.info, the design capacity it holds
  fetchAt,   \* capCache.fetchAt
  pc,        \* the question that comes next
  best,      \* GetRateInfo's result so far
  capacity,  \* the last answer of GetCapacity, with an error or without
  rate,      \* the last answer of GetRateInfo, with an error or without
  knew,      \* what each source knew at its turn, Nothing when it failed: ntErr
             \* in the code, the rest is history
  readAt     \* history: when the cached capacity was read

cache == <<cached, fetchAt, readAt>>
vars == <<clock, flow, cache, pc, best, capacity, rate, knew>>

Flows == {"charging", "discharging", "idle"}
Sources == {"ntquery", "ioctl", "wmi"}

(* What a source gives when it fails, and GetRateInfo starts from.         *)
Nothing == [rate |-> 0, voltage |-> 0, charge |-> 0, flow |-> "idle", source |-> ""]

NoCapacity == [designed |-> 0, err |-> TRUE, at |-> 0]
NoRate == [info |-> Nothing, err |-> TRUE]
NoneKnew == [s \in Sources |-> Nothing]

Init ==
  /\ clock = 0 /\ flow \in Flows
  /\ cached = 0 /\ fetchAt = -TTL /\ readAt = -TTL
  /\ pc = "capacity"
  /\ best = Nothing
  /\ capacity = NoCapacity /\ rate = NoRate /\ knew = NoneKnew

-----------------------------------------------------------------------------
(* The battery.                                                            *)
Flow ==
  /\ flow' \in Flows \ {flow}
  /\ UNCHANGED <<clock, cache, pc, best, capacity, rate, knew>>

-----------------------------------------------------------------------------
(* GetCapacity.  IOCTL and, when it brings no design capacity, WMI; only a *)
(* capacity other than 0 is cached, a sentinel too (capacity.go:278).      *)
HitSlides ==   \* mistaken: an answer from the cache renews it
  /\ clock - fetchAt < TTL
  /\ capacity' = [designed |-> cached, err |-> FALSE, at |-> readAt]
  /\ fetchAt' = clock
  /\ UNCHANGED <<cached, readAt>>

Hit ==
  /\ clock - fetchAt < TTL
  /\ capacity' = [designed |-> cached, err |-> FALSE, at |-> readAt]
  /\ UNCHANGED cache

Fetch ==
  /\ clock - fetchAt >= TTL
  /\ \E ioctl, wmi \in Designs \cup {Unknown} :
       LET designed == IF ioctl = 0 THEN wmi ELSE ioctl
       IN /\ capacity' = [designed |-> designed, err |-> designed = 0, at |-> clock]
          /\ IF designed = 0 THEN UNCHANGED cache
             ELSE cached' = designed /\ fetchAt' = clock /\ readAt' = clock

GetCapacity ==
  /\ pc = "capacity"
  /\ pc' = "ntquery"
  /\ Hit \/ Fetch
  /\ UNCHANGED <<clock, flow, best, rate, knew>>

-----------------------------------------------------------------------------
(* GetRateInfo.  The sentinels of the kernel and the device become 0.      *)
KnownToo(v) == v   \* mistaken: the sentinel is taken for a value
Known(v) == IF v = Unknown THEN 0 ELSE v
Signed(p) == CASE flow = "charging" -> p [] flow = "discharging" -> -p [] OTHER -> 0

(* SYSTEM_BATTERY_STATE has no voltage.                                    *)
NtReports ==
  {[rate |-> Known(r), voltage |-> 0, charge |-> Known(c), flow |-> f, source |-> "ntquery"] :
     r \in {Unknown, 0} \cup {Signed(p) : p \in Powers}, c \in Charges \cup {Unknown},
     f \in {flow, "idle"}}

IoctlReports ==
  {[rate |-> Known(r), voltage |-> Known(v), charge |-> Known(c), flow |-> f, source |-> "ioctl"] :
     r \in {Unknown, 0} \cup {Signed(p) : p \in Powers}, v \in Voltages \cup {Unknown},
     c \in Charges \cup {Unknown}, f \in {flow, "idle"}}

(* WMI tells the sign by its flags: two rates, of which one counts.  Its   *)
(* fields are taken as they come, sentinels included (wmi.go:106-119).     *)
WmiRate(f, p) == CASE f = "charging" -> p [] f = "discharging" -> -p [] OTHER -> 0

WmiReports ==
  {[rate |-> WmiRate(f, p), voltage |-> v, charge |-> c, flow |-> f, source |-> "wmi"] :
     p \in Powers \cup {0, Unknown}, v \in Voltages \cup {0, Unknown},
     c \in Charges \cup {0, Unknown}, f \in {flow, "idle"}}

First(a, b) == IF a # 0 THEN a ELSE b

MergeLast(b, r) ==   \* mistaken: a later source overrides the rate
  [rate |-> First(r.rate, b.rate),
   voltage |-> First(b.voltage, r.voltage),
   charge |-> First(b.charge, r.charge),
   flow |-> IF b.flow = "idle" THEN r.flow ELSE b.flow,
   source |-> IF r.rate # 0 THEN r.source ELSE b.source]

MergeChargeLast(b, r) ==   \* mistaken: a later source overrides the charge
  [rate |-> First(b.rate, r.rate),
   voltage |-> First(b.voltage, r.voltage),
   charge |-> First(r.charge, b.charge),
   flow |-> IF b.flow = "idle" THEN r.flow ELSE b.flow,
   source |-> IF b.rate = 0 /\ r.rate # 0 THEN r.source ELSE b.source]

(* A source fills in what those before it left open.                       *)
Merge(b, r) ==
  [rate |-> First(b.rate, r.rate),
   voltage |-> First(b.voltage, r.voltage),
   charge |-> First(b.charge, r.charge),
   flow |-> IF b.flow = "idle" THEN r.flow ELSE b.flow,
   source |-> IF b.rate = 0 /\ r.rate # 0 THEN r.source ELSE b.source]

Ask(source, reports, next) ==
  /\ pc = source
  /\ pc' = next
  /\ \E r \in reports \cup {Nothing} :
       /\ best' = Merge(best, r)
       /\ knew' = [knew EXCEPT ![source] = r]
  /\ UNCHANGED <<clock, flow, cache, capacity, rate>>

AskNt == Ask("ntquery", NtReports, "ioctl")
AskIoctl == Ask("ioctl", IoctlReports, "wmi")

WmiNeededForBoth(b) == b.rate = 0 /\ b.voltage = 0   \* mistaken: only when both are missing
WmiNeeded(b) == b.rate = 0 \/ b.voltage = 0

AskWmi == WmiNeeded(best) /\ Ask("wmi", WmiReports, "answer")

SkipWmi ==
  /\ pc = "wmi" /\ ~WmiNeeded(best)
  /\ pc' = "answer"
  /\ \E r \in WmiReports : knew' = [knew EXCEPT !["wmi"] = r]
  /\ UNCHANGED <<clock, flow, cache, best, capacity, rate>>

(* A result without a rate is given the kernel's name when it has a        *)
(* voltage; nothing at all is an error when the kernel failed.             *)
Named(b) ==
  [b EXCEPT !.source = IF @ = "" /\ (b.rate # 0 \/ b.voltage # 0) THEN "ntquery" ELSE @]

Answer ==
  /\ pc = "answer"
  /\ pc' = "done"
  /\ rate' = IF best.rate = 0 /\ best.voltage = 0 /\ best.charge = 0 /\ knew["ntquery"] = Nothing
             THEN [info |-> Nothing, err |-> TRUE]
             ELSE [info |-> Named(best), err |-> FALSE]
  /\ best' = Nothing
  /\ UNCHANGED <<clock, flow, cache, capacity, knew>>

(* Until the next poll, which starts from nothing.                         *)
Wait ==
  /\ pc = "done" /\ clock < MaxClock
  /\ clock' \in clock + 1 .. MaxClock
  /\ pc' = "capacity"
  /\ capacity' = NoCapacity /\ rate' = NoRate /\ knew' = NoneKnew
  /\ UNCHANGED <<flow, cache, best>>

Next == Flow \/ GetCapacity \/ AskNt \/ AskIoctl \/ AskWmi \/ SkipWmi \/ Answer \/ Wait

Spec == Init /\ [][Next]_vars

-----------------------------------------------------------------------------
(* Types of the cache and of the answers.  What the kernel and the device  *)
(* say is converted, so that until WMI is asked no sentinel is in the      *)
(* result; WMI's own and that of the design capacity may get into answers. *)
Rates == {0} \cup Powers \cup {-p : p \in Powers}

Converted == [rate : Rates, voltage : {0} \cup Voltages, charge : {0} \cup Charges,
              flow : Flows, source : Sources \cup {""}]

Report == [rate : Rates \cup {Unknown, -Unknown}, voltage : {0, Unknown} \cup Voltages,
           charge : {0, Unknown} \cup Charges, flow : Flows, source : Sources \cup {""}]

Before(s) == CASE s = "ntquery" -> {} [] s = "ioctl" -> {"ntquery"} [] s = "wmi" -> {"ntquery", "ioctl"}

TypeOK ==
  /\ clock \in 0..MaxClock /\ flow \in Flows
  /\ cached \in Designs \cup {Unknown} /\ fetchAt \in -TTL..clock /\ readAt \in -TTL..clock
  /\ pc \in {"capacity", "ntquery", "ioctl", "wmi", "answer", "done"}
  /\ best \in IF pc = "answer" THEN Report ELSE Converted
  /\ capacity \in [designed : Designs \cup {Unknown}, err : BOOLEAN, at : 0..clock]
  /\ rate \in [info : Report, err : BOOLEAN]
  /\ knew \in [Sources -> Report] /\ \A s \in Before("wmi") : knew[s] \in Converted

(* "cached for 10 minutes" (capacity.go:326): a capacity was read less     *)
(* than the cache's life before it is answered, however many hits and      *)
(* failed fetches lie between; and an error is never kept.                 *)
CapacityFresh ==
  pc = "ntquery" =>
    /\ clock - capacity.at < TTL
    /\ capacity.err = (capacity.designed = 0)
    /\ capacity.err => capacity.at = clock

(* The rate is that of the first source that knows one, and is named after *)
(* it (capacity.go:359-370).                                               *)
RateOfFirst ==
  pc = "done" /\ rate.info.rate # 0 =>
    /\ rate.info.source \in Sources
    /\ knew[rate.info.source].rate = rate.info.rate
    /\ \A s \in Before(rate.info.source) : knew[s].rate = 0

(* What one of the sources knew is not missing, though WMI is asked only   *)
(* for a rate or a voltage (capacity.go:411-414): a charge is left out     *)
(* only if WMI alone knew it and was not asked, the others having given    *)
(* both.                                                                   *)
WithoutWmi ==
  /\ \E s \in Before("wmi") : knew[s].rate # 0
  /\ \E s \in Before("wmi") : knew[s].voltage # 0

NothingOverlooked ==
  pc = "done" =>
    /\ rate.info.rate = 0 => \A s \in Sources : knew[s].rate = 0
    /\ rate.info.voltage = 0 => \A s \in Sources : knew[s].voltage = 0
    /\ rate.info.charge = 0 =>
         \A s \in Sources : knew[s].charge = 0 \/ (s = "wmi" /\ WithoutWmi)

(* A sentinel of WMI in an answer hides nothing: kernel and device knew no *)
(* such quantity.                                                          *)
SentinelOnlyFills ==
  pc = "done" =>
    \A s \in Before("wmi") :
      /\ rate.info.rate \in {Unknown, -Unknown} => knew[s].rate = 0
      /\ rate.info.voltage = Unknown => knew[s].voltage = 0
      /\ rate.info.charge = Unknown => knew[s].charge = 0

=============================================================================
