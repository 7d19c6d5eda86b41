---------------------------- MODULE SourcesProofs ----------------------------
(***************************************************************************)
(* Proofs about the battery's data sources, for any values they report and *)
(* any life of the cache.  The invariants follow the result of GetRateInfo *)
(* from question to question.                                              *)
(***************************************************************************)
EXTENDS Sources, TLAPS

-----------------------------------------------------------------------------
(* The reports and what merging them keeps.                                *)
LEMMA NothingType == Nothing \in Converted /\ Nothing \in Report
  BY DEF Nothing, Converted, Report, Rates, Flows, Sources

LEMMA ConvertedType == Converted \subseteq Report
  BY DEF Converted, Report

LEMMA NegatedRate == \A p \in Powers : p \in Rates /\ -p \in Rates
  BY DEF Rates

(* No rate, voltage or charge is taken for the sentinel.                   *)
LEMMA SentinelApart ==
  /\ Unknown \notin Rates /\ -Unknown \notin Rates
  /\ Unknown \notin {0} \cup Voltages /\ Unknown \notin {0} \cup Charges
<1>1. Unknown \in Nat \ {0} /\ Unknown \notin Powers
  BY SourcesOK DEF SourcesOK
<1>2. ASSUME NEW p \in Powers
      PROVE  Unknown # p /\ Unknown # -p /\ -Unknown # p /\ -Unknown # -p /\ -Unknown # 0
  <2>1. p \in Nat \ {0} /\ Unknown # p
    BY <1>1, SourcesOK DEF SourcesOK
  <2> QED
    BY <1>1, <2>1
<1>3. -Unknown # 0
  BY <1>1
<1> QED
  BY <1>1, <1>2, <1>3, SourcesOK DEF SourcesOK, Rates

(* A rate that a report of the kernel or the device may hold.              *)
LEMMA RateKnown ==
  ASSUME NEW r \in {Unknown, 0} \cup {Signed(p) : p \in Powers}
  PROVE  Known(r) \in Rates
<1>1. CASE r \in {Unknown, 0}
  BY <1>1 DEF Known, Rates
<1>2. CASE r \in {Signed(p) : p \in Powers}
  <2>1. PICK p \in Powers : r = Signed(p)
    BY <1>2
  <2>2. Signed(p) \in Rates
    <3>1. 0 \in Rates /\ p \in Rates /\ -p \in Rates
      BY DEF Rates
    <3> QED
      BY <3>1 DEF Signed
  <2> QED
    BY <2>1, <2>2, SentinelApart DEF Known
<1> QED
  BY <1>1, <1>2

LEMMA ValueKnown ==
  ASSUME NEW V, NEW v \in V \cup {Unknown}
  PROVE  Known(v) \in {0} \cup V
  BY DEF Known

LEMMA NtType ==
  ASSUME flow \in Flows, NEW r \in NtReports
  PROVE  r \in Converted /\ r.source = "ntquery"
<1>1. PICK x \in {Unknown, 0} \cup {Signed(p) : p \in Powers}, c \in Charges \cup {Unknown},
           f \in {flow, "idle"} :
        r = [rate |-> Known(x), voltage |-> 0, charge |-> Known(c), flow |-> f,
             source |-> "ntquery"]
  BY DEF NtReports
<1>2. Known(x) \in Rates /\ Known(c) \in {0} \cup Charges
  BY RateKnown, ValueKnown
<1> QED
  BY <1>1, <1>2 DEF Converted, Flows, Sources

LEMMA IoctlType ==
  ASSUME flow \in Flows, NEW r \in IoctlReports
  PROVE  r \in Converted /\ r.source = "ioctl"
<1>1. PICK x \in {Unknown, 0} \cup {Signed(p) : p \in Powers}, v \in Voltages \cup {Unknown},
           c \in Charges \cup {Unknown}, f \in {flow, "idle"} :
        r = [rate |-> Known(x), voltage |-> Known(v), charge |-> Known(c), flow |-> f,
             source |-> "ioctl"]
  BY DEF IoctlReports
<1>2. Known(x) \in Rates /\ Known(v) \in {0} \cup Voltages /\ Known(c) \in {0} \cup Charges
  BY RateKnown, ValueKnown
<1> QED
  BY <1>1, <1>2 DEF Converted, Flows, Sources

(* WMI's report may hold sentinels.                                        *)
LEMMA WmiType ==
  ASSUME flow \in Flows, NEW r \in WmiReports
  PROVE  r \in Report /\ r.source = "wmi"
<1>1. PICK p \in Powers \cup {0, Unknown}, v \in Voltages \cup {0, Unknown},
           c \in Charges \cup {0, Unknown}, f \in {flow, "idle"} :
        r = [rate |-> WmiRate(f, p), voltage |-> v, charge |-> c, flow |-> f, source |-> "wmi"]
  BY DEF WmiReports
<1>2. WmiRate(f, p) \in Rates \cup {Unknown, -Unknown}
  <2>1. 0 \in Rates
    BY DEF Rates
  <2>2. p = 0 => -p = 0
    <3>1. p \in Nat
      BY SourcesOK DEF SourcesOK
    <3>2. -p = 0 - p
      BY <3>1
    <3>3. p = 0 => 0 - p = 0
      OBVIOUS
    <3> QED
      BY <3>2, <3>3, Zenon
  <2>3. p \in Rates \cup {Unknown, -Unknown} /\ -p \in Rates \cup {Unknown, -Unknown}
    BY <2>1, <2>2, NegatedRate
  <2> QED
    BY <2>1, <2>3 DEF WmiRate
<1> QED
  BY <1>1, <1>2 DEF Report, Flows, Sources

LEMMA MergeConverted ==
  ASSUME NEW b \in Converted, NEW r \in Converted
  PROVE  Merge(b, r) \in Converted
  BY DEF Merge, First, Converted, Flows

LEMMA MergeType ==
  ASSUME NEW b \in Report, NEW r \in Report
  PROVE  Merge(b, r) \in Report
  BY DEF Merge, First, Report, Flows

-----------------------------------------------------------------------------
LEMMA BeforeOf ==
  Before("ntquery") = {} /\ Before("ioctl") = {"ntquery"} /\ Before("wmi") = {"ntquery", "ioctl"}
  BY DEF Before

(* The cache is empty, or holds a capacity that was read when it says.     *)
CacheRead ==
  /\ readAt = fetchAt
  /\ fetchAt = -TTL \/ (fetchAt >= 0 /\ cached # 0)

LEMMA CacheInit == Init => TypeOK /\ CacheRead
<1>1. TTL \in Nat \ {0} /\ MaxClock \in Nat
  BY SourcesOK DEF SourcesOK
<1> SUFFICES ASSUME Init
             PROVE  TypeOK /\ CacheRead
  OBVIOUS
<1>2. 0 \in Designs /\ -TTL \in -TTL..0
  BY <1>1, SourcesOK DEF SourcesOK
<1>3. capacity \in [designed : Designs \cup {Unknown}, err : BOOLEAN, at : 0..clock]
  BY <1>2 DEF Init, NoCapacity
<1>4. knew \in [Sources -> Report] /\ \A s \in Before("wmi") : knew[s] \in Converted
  BY NothingType, BeforeOf DEF Init, NoneKnew, Sources
<1>5. best \in Converted /\ rate \in [info : Report, err : BOOLEAN]
  BY NothingType DEF Init, NoRate
<1> QED
  BY <1>1, <1>2, <1>3, <1>4, <1>5 DEF Init, TypeOK, CacheRead

(* GetCapacity.  A hit answers a capacity that was read in its time.       *)
LEMMA GetCapacityStep ==
  ASSUME TypeOK, CacheRead, GetCapacity
  PROVE  /\ TypeOK' /\ CacheRead'
         /\ clock - capacity'.at < TTL
         /\ capacity'.err = (capacity'.designed = 0)
         /\ capacity'.err => capacity'.at = clock
<1>1. TTL \in Nat \ {0} /\ MaxClock \in Nat /\ clock \in 0..MaxClock
  BY SourcesOK DEF SourcesOK, TypeOK
<1>2. fetchAt \in Int /\ readAt \in -TTL..clock
  BY <1>1 DEF TypeOK
<1> DEFINE Good ==
      /\ cached' \in Designs \cup {Unknown} /\ fetchAt' \in -TTL..clock /\ readAt' \in -TTL..clock
      /\ capacity' \in [designed : Designs \cup {Unknown}, err : BOOLEAN, at : 0..clock]
      /\ CacheRead'
      /\ clock - capacity'.at < TTL
      /\ capacity'.err = (capacity'.designed = 0)
      /\ capacity'.err => capacity'.at = clock
<1>3. ASSUME Hit PROVE Good
  <2>1. fetchAt >= 0 /\ cached # 0
    BY <1>1, <1>2, <1>3 DEF Hit, CacheRead
  <2>2. readAt = fetchAt /\ readAt \in 0..clock
    BY <1>1, <1>2, <2>1 DEF CacheRead
  <2> QED
    BY <1>1, <1>2, <1>3, <2>1, <2>2 DEF Hit, CacheRead, TypeOK, cache
<1>4. ASSUME Fetch PROVE Good
  <2>1. PICK ioctl \in Designs \cup {Unknown}, wmi \in Designs \cup {Unknown} :
          LET designed == IF ioctl = 0 THEN wmi ELSE ioctl
          IN /\ capacity' = [designed |-> designed, err |-> designed = 0, at |-> clock]
             /\ IF designed = 0 THEN UNCHANGED cache
                ELSE cached' = designed /\ fetchAt' = clock /\ readAt' = clock
    BY <1>4 DEF Fetch
  <2> DEFINE designed == IF ioctl = 0 THEN wmi ELSE ioctl
  <2>2. designed \in Designs \cup {Unknown}
    OBVIOUS
  <2>3. capacity' = [designed |-> designed, err |-> designed = 0, at |-> clock]
    BY <2>1
  <2>4. CASE designed = 0
    BY <1>1, <1>2, <2>1, <2>2, <2>3, <2>4 DEF CacheRead, TypeOK, cache
  <2>5. CASE designed # 0
    <3>1. cached' = designed /\ fetchAt' = clock /\ readAt' = clock
      BY <2>1, <2>5
    <3> HIDE DEF designed
    <3> QED
      BY <1>1, <2>2, <2>3, <2>5, <3>1 DEF CacheRead
  <2> QED
    BY <2>4, <2>5
<1>5. Good
  BY <1>3, <1>4 DEF GetCapacity
<1> HIDE DEF Good
<1>6. TypeOK'
  BY <1>5 DEF Good, GetCapacity, TypeOK
<1> QED
  BY <1>5, <1>6 DEF Good

(* The other steps leave the cache alone and ask on.                       *)
LEMMA ReportSets ==
  ASSUME TypeOK
  PROVE  NtReports \subseteq Converted /\ IoctlReports \subseteq Converted /\ WmiReports \subseteq Report
  BY NtType, IoctlType, WmiType DEF TypeOK

LEMMA AskType ==
  ASSUME TypeOK, NEW s \in Before("wmi"), NEW n \in {"ioctl", "wmi"}, NEW R,
         R \subseteq Converted, Ask(s, R, n)
  PROVE  TypeOK'
<1>1. PICK r \in R \cup {Nothing} : best' = Merge(best, r) /\ knew' = [knew EXCEPT ![s] = r]
  BY DEF Ask
<1>2. pc = s /\ s \in {"ntquery", "ioctl"} /\ pc' = n
  BY BeforeOf DEF Ask
<1>3. r \in Converted /\ r \in Report /\ best \in Converted
  BY <1>1, <1>2, NothingType, ConvertedType DEF TypeOK
<1>4. best' \in Converted
  BY <1>1, <1>3, MergeConverted
<1>5. knew' \in [Sources -> Report] /\ \A t \in Before("wmi") : knew'[t] \in Converted
  BY <1>1, <1>3, BeforeOf DEF TypeOK, Sources
<1> QED
  BY <1>2, <1>4, <1>5 DEF Ask, TypeOK, cache

LEMMA AskWmiType ==
  ASSUME TypeOK, AskWmi
  PROVE  TypeOK'
<1>1. PICK r \in WmiReports \cup {Nothing} : best' = Merge(best, r) /\ knew' = [knew EXCEPT !["wmi"] = r]
  BY DEF AskWmi, Ask
<1>2. pc = "wmi" /\ pc' = "answer"
  BY DEF AskWmi, Ask
<1>3. r \in Report /\ best \in Report
  BY <1>1, <1>2, NothingType, ReportSets, ConvertedType DEF TypeOK
<1>4. best' \in Report
  BY <1>1, <1>3, MergeType
<1>5. knew' \in [Sources -> Report] /\ \A t \in Before("wmi") : knew'[t] \in Converted
  BY <1>1, <1>3, BeforeOf DEF TypeOK, Sources
<1> QED
  BY <1>2, <1>4, <1>5 DEF AskWmi, Ask, TypeOK, cache

LEMMA TypeStep ==
  ASSUME TypeOK, CacheRead, [Next]_vars
  PROVE  TypeOK' /\ CacheRead'
<1>1. CASE Flow
  BY <1>1 DEF Flow, TypeOK, CacheRead, cache
<1>2. CASE GetCapacity
  BY <1>2, GetCapacityStep
<1>3. CASE AskNt
  <2>1. TypeOK'
    BY <1>3, AskType, ReportSets, BeforeOf DEF AskNt
  <2> QED
    BY <1>3, <2>1 DEF AskNt, Ask, CacheRead, cache
<1>4. CASE AskIoctl
  <2>1. TypeOK'
    BY <1>4, AskType, ReportSets, BeforeOf DEF AskIoctl
  <2> QED
    BY <1>4, <2>1 DEF AskIoctl, Ask, CacheRead, cache
<1>5. CASE AskWmi
  BY <1>5, AskWmiType DEF AskWmi, Ask, CacheRead, cache
<1>6. CASE SkipWmi
  <2>1. PICK r \in WmiReports : knew' = [knew EXCEPT !["wmi"] = r]
    BY <1>6 DEF SkipWmi
  <2>2. knew' \in [Sources -> Report] /\ \A s \in Before("wmi") : knew'[s] \in Converted
    <3>1. r \in Report /\ knew \in [Sources -> Report]
      BY ReportSets DEF TypeOK
    <3>2. \A s \in Before("wmi") : s # "wmi" /\ s \in Sources /\ knew[s] \in Converted
      BY BeforeOf DEF TypeOK, Sources
    <3> QED
      BY <2>1, <3>1, <3>2
  <2>3. best' = best /\ best \in Converted /\ best \in Report /\ pc' = "answer"
    BY <1>6, ConvertedType DEF SkipWmi, TypeOK
  <2> QED
    BY <1>6, <2>2, <2>3 DEF SkipWmi, TypeOK, CacheRead, cache
<1>7. CASE Answer
  <2>1. Named(best) \in Report
    BY <1>7 DEF Answer, TypeOK, Named, Report, Sources
  <2>2. rate' \in [info : Report, err : BOOLEAN]
    BY <1>7, <2>1, NothingType DEF Answer
  <2> QED
    BY <1>7, <2>2, NothingType DEF Answer, TypeOK, CacheRead, cache
<1>8. CASE Wait
  <2>1. TTL \in Nat \ {0} /\ MaxClock \in Nat /\ clock \in 0..MaxClock
    BY SourcesOK DEF SourcesOK, TypeOK
  <2>2. clock' \in 0..MaxClock /\ clock <= clock'
    BY <1>8, <2>1 DEF Wait
  <2>3. fetchAt' \in -TTL..clock' /\ readAt' \in -TTL..clock'
    BY <1>8, <2>1, <2>2 DEF Wait, TypeOK, cache
  <2>4. /\ capacity' \in [designed : Designs \cup {Unknown}, err : BOOLEAN, at : 0..clock']
        /\ rate' \in [info : Report, err : BOOLEAN]
        /\ knew' \in [Sources -> Report] /\ \A s \in Before("wmi") : knew'[s] \in Converted
    BY <1>8, <2>1, <2>2, NothingType, BeforeOf, SourcesOK
       DEF Wait, NoCapacity, NoRate, NoneKnew, Sources, SourcesOK
  <2> QED
    BY <1>8, <2>2, <2>3, <2>4 DEF Wait, TypeOK, CacheRead, cache
<1>9. CASE UNCHANGED vars
  BY <1>9 DEF vars, TypeOK, CacheRead, cache
<1> QED
  BY <1>1, <1>2, <1>3, <1>4, <1>5, <1>6, <1>7, <1>8, <1>9 DEF Next

LEMMA CacheInvariant == Spec => [](TypeOK /\ CacheRead)
<1>1. TypeOK /\ CacheRead /\ [Next]_vars => (TypeOK /\ CacheRead)'
  BY TypeStep
<1> QED
  BY <1>1, CacheInit, PTL DEF Spec

(* The variables keep their types: the sentinels of the kernel and of the  *)
(* device are converted, and none is in the result before WMI is asked.    *)
THEOREM SourcesTypes == Spec => []TypeOK
  BY CacheInvariant, PTL

(* "cached for 10 minutes" (capacity.go:326), whatever the cache's life:   *)
(* GetCapacity never answers a capacity read longer ago.                   *)
THEOREM CapacityStaysFresh == Spec => []CapacityFresh
<1>1. Init => CapacityFresh
  BY DEF Init, CapacityFresh
<1>2. ASSUME TypeOK, CacheRead, CapacityFresh, [Next]_vars
      PROVE  CapacityFresh'
  <2>1. CASE GetCapacity
    <3>1. clock' = clock
      BY <2>1 DEF GetCapacity
    <3> QED
      BY <1>2, <2>1, <3>1, GetCapacityStep DEF CapacityFresh
  <2>2. CASE Flow
    BY <1>2, <2>2 DEF Flow, CapacityFresh
  <2>3. CASE AskNt \/ AskIoctl \/ AskWmi \/ SkipWmi \/ Answer \/ Wait
    <3>1. pc' # "ntquery"
      BY <2>3 DEF AskNt, AskIoctl, AskWmi, SkipWmi, Answer, Wait, Ask
    <3> QED
      BY <3>1 DEF CapacityFresh
  <2>4. CASE UNCHANGED vars
    BY <1>2, <2>4 DEF vars, CapacityFresh
  <2> QED
    BY <1>2, <2>1, <2>2, <2>3, <2>4 DEF Next
<1>3. TypeOK /\ CacheRead /\ CapacityFresh /\ [Next]_vars => CapacityFresh'
  BY <1>2
<1> QED
  BY <1>1, <1>3, CacheInvariant, PTL DEF Spec

-----------------------------------------------------------------------------
(* b is what the sources, as far as k holds what they knew, say in their   *)
(* order: its rate is the first one known, and it lacks only what nobody   *)
(* knew, or a charge that WMI was not asked for.                           *)
Both(k) ==
  /\ \E s \in Before("wmi") : k[s].rate # 0
  /\ \E s \in Before("wmi") : k[s].voltage # 0

FirstOf(b, k) ==
  /\ b.rate = 0 => \A s \in Sources : k[s].rate = 0
  /\ b.rate # 0 =>
       /\ b.source \in Sources
       /\ k[b.source].rate = b.rate
       /\ \A s \in Before(b.source) : k[s].rate = 0
  /\ b.voltage = 0 <=> \A s \in Sources : k[s].voltage = 0
  /\ b.charge = 0 => \A s \in Sources : k[s].charge = 0 \/ (s = "wmi" /\ Both(k))

(* The sentinels in b stand for what kernel and device did not know.       *)
Fills(b, k) ==
  \A s \in Before("wmi") :
    /\ b.rate \in {Unknown, -Unknown} => k[s].rate = 0
    /\ b.voltage = Unknown => k[s].voltage = 0
    /\ b.charge = Unknown => k[s].charge = 0

(* What has not been asked yet knows nothing.                              *)
Unasked ==
  /\ pc \in {"capacity", "ntquery", "done"} => best = Nothing
  /\ pc \in {"capacity", "ntquery"} => knew = NoneKnew
  /\ pc = "ioctl" => knew["ioctl"] = Nothing /\ knew["wmi"] = Nothing
  /\ pc = "wmi" => knew["wmi"] = Nothing

(* The result so far, or the answer that was made of it.                   *)
Result == IF pc = "done" THEN rate.info ELSE best

MergeInv ==
  /\ Unasked
  /\ FirstOf(Result, knew)
  /\ Fills(Result, knew)

LEMMA NothingKnown == Nothing.rate = 0 /\ Nothing.voltage = 0 /\ Nothing.charge = 0
  BY DEF Nothing

LEMMA NothingFirst == FirstOf(Nothing, NoneKnew)
  BY DEF FirstOf, Nothing, NoneKnew

LEMMA ConvertedFills ==
  ASSUME NEW b \in Converted, NEW k
  PROVE  Fills(b, k)
<1>1. b.rate \in Rates /\ b.voltage \in {0} \cup Voltages /\ b.charge \in {0} \cup Charges
  BY DEF Converted
<1>2. b.rate \notin {Unknown, -Unknown} /\ b.voltage # Unknown /\ b.charge # Unknown
  BY <1>1, SentinelApart
<1> QED
  BY <1>2 DEF Fills

(* One more source is merged in, those after it still to come.             *)
LEMMA FirstMerged ==
  ASSUME NEW b, NEW k \in [Sources -> Report], NEW s \in Sources, NEW r,
         FirstOf(b, k), b \in Report, r \in Report, r = Nothing \/ r.source = s,
         \A t \in Sources : t = s \/ s \in Before(t) => k[t] = Nothing
  PROVE  FirstOf(Merge(b, r), [k EXCEPT ![s] = r])
<1> DEFINE m == Merge(b, r)
           l == [k EXCEPT ![s] = r]
<1>1. /\ m.rate = (IF b.rate # 0 THEN b.rate ELSE r.rate)
      /\ m.voltage = (IF b.voltage # 0 THEN b.voltage ELSE r.voltage)
      /\ m.charge = (IF b.charge # 0 THEN b.charge ELSE r.charge)
      /\ m.source = (IF b.rate = 0 /\ r.rate # 0 THEN r.source ELSE b.source)
  BY DEF Merge, First
<1>2. l[s] = r /\ \A t \in Sources \ {s} : l[t] = k[t]
  OBVIOUS
<1>3. r.rate # 0 => r.source = s
  BY NothingKnown
<1>4. \A t \in Sources : Before(t) \subseteq Sources /\ t \notin Before(t)
  BY BeforeOf DEF Sources
<1>5. k["wmi"].charge = 0
  <2>1. s = "wmi" \/ s \in Before("wmi")
    BY BeforeOf DEF Sources
  <2> QED
    BY <2>1, NothingKnown DEF Sources
<1> SUFFICES FirstOf(m, l)
  OBVIOUS
<1> HIDE DEF m, l
<1>6. m.voltage = 0 <=> \A t \in Sources : l[t].voltage = 0
  <2>1. m.voltage = 0 <=> b.voltage = 0 /\ r.voltage = 0
    BY <1>1
  <2>2. k[s].voltage = 0
    BY NothingKnown
  <2> QED
    BY <1>2, <2>1, <2>2 DEF FirstOf
<1>7. m.charge = 0 => \A t \in Sources : l[t].charge = 0
  <2>1. m.charge = 0 => b.charge = 0 /\ r.charge = 0
    BY <1>1
  <2>2. b.charge = 0 => \A t \in Sources : k[t].charge = 0
    BY <1>5 DEF FirstOf
  <2> QED
    BY <1>2, <2>1, <2>2
<1>8. CASE b.rate = 0
  <2>1. \A t \in Sources : k[t].rate = 0
    BY <1>8 DEF FirstOf
  <2>2. m.rate = r.rate
    BY <1>1, <1>8
  <2>3. m.rate = 0 => \A t \in Sources : l[t].rate = 0
    BY <1>2, <2>1, <2>2
  <2>4. m.rate # 0 => m.source = s
    BY <1>1, <1>3, <1>8, <2>2
  <2>5. \A t \in Before(s) : l[t].rate = 0
    BY <1>2, <1>4, <2>1
  <2> QED
    BY <1>2, <1>6, <1>7, <2>2, <2>3, <2>4, <2>5 DEF FirstOf
<1>9. CASE b.rate # 0
  <2>1. /\ b.source \in Sources
        /\ k[b.source].rate = b.rate
        /\ \A t \in Before(b.source) : k[t].rate = 0
    BY <1>9 DEF FirstOf
  <2>2. m.rate = b.rate /\ m.source = b.source
    BY <1>1, <1>9
  <2>3. b.source # s /\ s \notin Before(b.source)
    <3>1. b.source = s \/ s \in Before(b.source) => k[b.source].rate = 0
      BY <2>1, NothingKnown
    <3> QED
      BY <1>9, <2>1, <3>1
  <2>4. l[b.source].rate = b.rate /\ \A t \in Before(b.source) : l[t].rate = 0
    BY <1>2, <1>4, <2>1, <2>3
  <2> QED
    BY <1>6, <1>7, <1>9, <2>1, <2>2, <2>4 DEF FirstOf
<1> QED
  BY <1>8, <1>9

(* WMI's sentinels get in where the others left a gap.                     *)
LEMMA FillsMerged ==
  ASSUME NEW b \in Converted, NEW k \in [Sources -> Report], NEW r, FirstOf(b, k)
  PROVE  Fills(Merge(b, r), [k EXCEPT !["wmi"] = r])
<1> DEFINE m == Merge(b, r)
           l == [k EXCEPT !["wmi"] = r]
<1>1. /\ m.rate = (IF b.rate # 0 THEN b.rate ELSE r.rate)
      /\ m.voltage = (IF b.voltage # 0 THEN b.voltage ELSE r.voltage)
      /\ m.charge = (IF b.charge # 0 THEN b.charge ELSE r.charge)
  BY DEF Merge, First
<1>2. \A t \in Before("wmi") : t \in Sources /\ t # "wmi" /\ l[t] = k[t]
  BY BeforeOf DEF Sources
<1>3. b.rate \in Rates /\ b.voltage \in {0} \cup Voltages /\ b.charge \in {0} \cup Charges
  BY DEF Converted
<1> SUFFICES ASSUME NEW t \in Before("wmi")
             PROVE  /\ m.rate \in {Unknown, -Unknown} => k[t].rate = 0
                    /\ m.voltage = Unknown => k[t].voltage = 0
                    /\ m.charge = Unknown => k[t].charge = 0
  BY <1>2 DEF Fills
<1> HIDE DEF m, l
<1>4. /\ b.rate = 0 => k[t].rate = 0
      /\ b.voltage = 0 => k[t].voltage = 0
      /\ b.charge = 0 => k[t].charge = 0
  BY <1>2 DEF FirstOf
<1> QED
  BY <1>1, <1>3, <1>4, SentinelApart

LEMMA AskMerges ==
  ASSUME TypeOK, MergeInv, NEW s \in Sources, NEW n \in {"ioctl", "wmi", "answer"}, NEW R,
         \A r \in R : r \in Report /\ r.source = s,
         \A t \in Sources : t = s \/ s \in Before(t) => knew[t] = Nothing,
         Ask(s, R, n)
  PROVE  FirstOf(Result', knew') /\ Result' = best'
<1>1. PICK r \in R \cup {Nothing} : best' = Merge(best, r) /\ knew' = [knew EXCEPT ![s] = r]
  BY DEF Ask
<1>2. r \in Report /\ (r = Nothing \/ r.source = s)
  BY <1>1, NothingType
<1>3. Result = best /\ Result' = best'
  BY DEF Ask, Result, Sources
<1>4. best \in Report /\ knew \in [Sources -> Report]
  BY ConvertedType DEF TypeOK
<1> QED
  BY <1>1, <1>2, <1>3, <1>4, FirstMerged DEF MergeInv

LEMMA AnswerKeeps ==
  ASSUME TypeOK, MergeInv, Answer
  PROVE  FirstOf(Result', knew') /\ Fills(Result', knew')
<1>1. Result = best /\ Result' = rate'.info /\ knew' = knew
  BY DEF Answer, Result
<1>2. best \in Report
  BY DEF Answer, TypeOK
<1>3. FirstOf(best, knew) /\ Fills(best, knew)
  BY <1>1 DEF MergeInv
<1>4. CASE best.rate = 0 /\ best.voltage = 0 /\ best.charge = 0 /\ knew["ntquery"] = Nothing
  <2>1. rate'.info = Nothing
    BY <1>4 DEF Answer
  <2>2. FirstOf(Nothing, knew)
    BY <1>3, <1>4, NothingKnown DEF FirstOf
  <2> QED
    BY <1>1, <2>1, <2>2, NothingType, ConvertedFills
<1>5. CASE ~(best.rate = 0 /\ best.voltage = 0 /\ best.charge = 0 /\ knew["ntquery"] = Nothing)
  <2> DEFINE a == Named(best)
  <2>1. rate'.info = a
    BY <1>5 DEF Answer
  <2>2. /\ a.rate = best.rate /\ a.voltage = best.voltage /\ a.charge = best.charge
        /\ best.source # "" => a.source = best.source
    BY <1>2, Zenon DEF Named, Report
  <2> HIDE DEF a
  <2>3. "" \notin Sources
    BY DEF Sources
  <2>4. FirstOf(a, knew)
    BY <1>3, <2>2, <2>3 DEF FirstOf
  <2>5. Fills(a, knew)
    BY <1>3, <2>2 DEF Fills
  <2> QED
    BY <1>1, <2>1, <2>4, <2>5
<1> QED
  BY <1>4, <1>5

LEMMA MergeStep ==
  ASSUME TypeOK, TypeOK', MergeInv, [Next]_vars
  PROVE  MergeInv'
<1>1. CASE Flow
  BY <1>1 DEF Flow, MergeInv, Unasked, Result
<1>2. CASE GetCapacity
  <2>1. pc' = "ntquery" /\ best' = Nothing /\ knew' = NoneKnew
    BY <1>2 DEF GetCapacity, MergeInv, Unasked
  <2>2. Result' = Nothing
    BY <2>1 DEF Result
  <2> QED
    BY <2>1, <2>2, NothingFirst, NothingType, ConvertedFills DEF MergeInv, Unasked
<1>3. CASE AskNt
  <2>1. \A t \in Sources : knew[t] = Nothing
    BY <1>3 DEF AskNt, Ask, MergeInv, Unasked, NoneKnew
  <2>2. FirstOf(Result', knew') /\ Result' = best'
    BY <1>3, <2>1, AskMerges, NtType, ConvertedType DEF AskNt, Sources, TypeOK
  <2>3. best' \in Converted
    BY <1>3 DEF AskNt, Ask, TypeOK
  <2>4. Unasked'
    BY <1>3, <2>1 DEF AskNt, Ask, Unasked, Sources, TypeOK
  <2> QED
    BY <2>2, <2>3, <2>4, ConvertedFills DEF MergeInv
<1>4. CASE AskIoctl
  <2>1. knew["ioctl"] = Nothing /\ knew["wmi"] = Nothing
    BY <1>4 DEF AskIoctl, Ask, MergeInv, Unasked
  <2>2. \A t \in Sources : t = "ioctl" \/ "ioctl" \in Before(t) => knew[t] = Nothing
    BY <2>1, BeforeOf DEF Sources
  <2>3. FirstOf(Result', knew') /\ Result' = best'
    BY <1>4, <2>2, AskMerges, IoctlType, ConvertedType DEF AskIoctl, Sources, TypeOK
  <2>4. best' \in Converted
    BY <1>4 DEF AskIoctl, Ask, TypeOK
  <2>5. Unasked'
    BY <1>4, <2>1 DEF AskIoctl, Ask, Unasked, Sources, TypeOK
  <2> QED
    BY <2>3, <2>4, <2>5, ConvertedFills DEF MergeInv
<1>5. CASE AskWmi
  <2>1. knew["wmi"] = Nothing
    BY <1>5 DEF AskWmi, Ask, MergeInv, Unasked
  <2>2. \A t \in Sources : t = "wmi" \/ "wmi" \in Before(t) => knew[t] = Nothing
    BY <2>1, BeforeOf DEF Sources
  <2>3. FirstOf(Result', knew') /\ Result' = best'
    BY <1>5, <2>2, AskMerges, WmiType DEF AskWmi, Sources, TypeOK
  <2>4. Fills(best', knew')
    <3>1. PICK r : best' = Merge(best, r) /\ knew' = [knew EXCEPT !["wmi"] = r]
      BY <1>5 DEF AskWmi, Ask
    <3>2. best \in Converted /\ FirstOf(best, knew) /\ knew \in [Sources -> Report]
      BY <1>5 DEF AskWmi, Ask, TypeOK, MergeInv, Result
    <3> QED
      BY <3>1, <3>2, FillsMerged
  <2>5. Unasked'
    BY <1>5 DEF AskWmi, Ask, Unasked
  <2> QED
    BY <2>3, <2>4, <2>5 DEF MergeInv
<1>6. CASE SkipWmi
  <2>1. /\ pc = "wmi" /\ pc' = "answer" /\ best' = best /\ best \in Converted
        /\ best.rate # 0 /\ best.voltage # 0
    BY <1>6 DEF SkipWmi, WmiNeeded, TypeOK
  <2>2. PICK r \in WmiReports : knew' = [knew EXCEPT !["wmi"] = r]
    BY <1>6 DEF SkipWmi
  <2>3. knew["wmi"] = Nothing /\ FirstOf(best, knew) /\ Result' = best
    BY <2>1 DEF MergeInv, Unasked, Result
  <2>4. best.source \in Sources \ {"wmi"} /\ knew[best.source].rate # 0
    BY <2>1, <2>3, NothingKnown DEF FirstOf
  <2>5. \A t \in Sources \ {"wmi"} : knew'[t] = knew[t] /\ t \in Before("wmi")
                                    /\ Before(t) \subseteq Sources \ {"wmi"}
    BY <2>2, BeforeOf DEF Sources, TypeOK
  <2>6. Both(knew')
    <3>1. \E t \in Sources \ {"wmi"} : knew[t].voltage # 0
      BY <2>1, <2>3, NothingKnown DEF FirstOf
    <3> QED
      BY <2>4, <2>5, <3>1 DEF Both
  <2>7. FirstOf(best, knew')
    <3>1. /\ knew'[best.source].rate = best.rate
          /\ \A t \in Before(best.source) : knew'[t].rate = 0
      BY <2>1, <2>3, <2>4, <2>5 DEF FirstOf
    <3>2. ~ \A t \in Sources : knew'[t].voltage = 0
      BY <2>6, BeforeOf DEF Both, Sources
    <3>3. best.charge = 0 => \A t \in Sources \ {"wmi"} : knew'[t].charge = 0
      BY <2>3, <2>5 DEF FirstOf
    <3> QED
      BY <2>1, <2>4, <2>6, <3>1, <3>2, <3>3 DEF FirstOf
  <2> QED
    BY <2>1, <2>3, <2>7, ConvertedFills DEF MergeInv, Unasked
<1>7. CASE Answer
  <2>1. Unasked'
    BY <1>7 DEF Answer, Unasked
  <2> QED
    BY <1>7, <2>1, AnswerKeeps DEF MergeInv
<1>8. CASE Wait
  <2>1. pc' = "capacity" /\ best' = Nothing /\ knew' = NoneKnew
    BY <1>8 DEF Wait, MergeInv, Unasked
  <2>2. Result' = Nothing
    BY <2>1 DEF Result
  <2> QED
    BY <2>1, <2>2, NothingFirst, NothingType, ConvertedFills DEF MergeInv, Unasked
<1>9. CASE UNCHANGED vars
  BY <1>9 DEF vars, MergeInv, Unasked, Result
<1> QED
  BY <1>1, <1>2, <1>3, <1>4, <1>5, <1>6, <1>7, <1>8, <1>9 DEF Next

LEMMA MergeInvariant == Spec => []MergeInv
<1>1. Init => MergeInv
  <2> SUFFICES ASSUME Init
               PROVE  MergeInv
    OBVIOUS
  <2>1. Result = Nothing /\ knew = NoneKnew
    BY DEF Init, Result
  <2> QED
    BY <2>1, NothingFirst, NothingType, ConvertedFills DEF Init, MergeInv, Unasked
<1>2. TypeOK /\ TypeOK' /\ MergeInv /\ [Next]_vars => MergeInv'
  BY MergeStep
<1> QED
  BY <1>1, <1>2, SourcesTypes, PTL DEF Spec

(* The rate is the first one known in the order of the sources, and is     *)
(* named after its source (capacity.go:359-370).                           *)
THEOREM RateIsOfFirst == Spec => []RateOfFirst
<1>1. MergeInv => RateOfFirst
  BY DEF MergeInv, FirstOf, Result, RateOfFirst
<1> QED
  BY <1>1, MergeInvariant, PTL

(* What a source knew is in the answer, though WMI is asked only when a    *)
(* rate or a voltage is missing (capacity.go:411-414), but for a charge    *)
(* that WMI alone would have known and was not asked for.                  *)
THEOREM NothingIsOverlooked == Spec => []NothingOverlooked
<1>1. MergeInv => NothingOverlooked
  BY DEF MergeInv, FirstOf, Both, WithoutWmi, Result, NothingOverlooked
<1> QED
  BY <1>1, MergeInvariant, PTL

(* WMI's sentinels, which nobody converts (wmi.go:106-119), get into an    *)
(* answer only where kernel and device left a gap.                         *)
THEOREM SentinelsOnlyFill == Spec => []SentinelOnlyFills
<1>1. MergeInv => SentinelOnlyFills
  BY DEF MergeInv, Fills, Result, SentinelOnlyFills
<1> QED
  BY <1>1, MergeInvariant, PTL
=============================================================================
