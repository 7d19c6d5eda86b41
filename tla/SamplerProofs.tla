--------------------------- MODULE SamplerProofs ---------------------------
(***************************************************************************)
(* Proofs about Sampler.tla for any processes, processors and counters     *)
(* that do not run over: its types, no usage being above 100 percent, and  *)
(* that usage is counted from the previous call.                           *)
(***************************************************************************)
EXTENDS Sampler, TLAPS

-----------------------------------------------------------------------------
(* Arithmetic of counters and percentages.                                 *)
LEMMA Product ==
  ASSUME NEW a \in Nat, NEW b \in Nat, NEW c \in Nat, a <= b
  PROVE  a * c \in Nat /\ b * c \in Nat /\ a * c <= b * c
  OBVIOUS

LEMMA ModuloRange ==
  ASSUME NEW x \in Int, NEW w \in Nat \ {0}
  PROVE  x % w \in Nat
  OBVIOUS

LEMMA ModuloSmall ==
  ASSUME NEW w \in Nat, NEW x \in Nat, x < w
  PROVE  x % w = x
  OBVIOUS

LEMMA LeastRange ==
  ASSUME NEW a \in Nat, NEW b \in Nat, NEW c \in Nat, b <= c
  PROVE  Least(a, b) \in 0..c
  BY DEF Least

-----------------------------------------------------------------------------
(* Functions on some of the PIDs.                                          *)
LEMMA SamplesDef ==
  ASSUME NEW T, NEW f
  PROVE  f \in Samples(Pids, T) <=>
           /\ DOMAIN f \subseteq Pids
           /\ f = [q \in DOMAIN f |-> f[q]]
           /\ \A q \in DOMAIN f : f[q] \in T
<1>1. ASSUME f \in Samples(Pids, T)
      PROVE  /\ DOMAIN f \subseteq Pids
             /\ f = [q \in DOMAIN f |-> f[q]]
             /\ \A q \in DOMAIN f : f[q] \in T
  <2>1. PICK D \in SUBSET Pids : f \in [D -> T]
    BY <1>1 DEF Samples
  <2> QED
    BY <2>1
<1>2. ASSUME DOMAIN f \subseteq Pids, f = [q \in DOMAIN f |-> f[q]], \A q \in DOMAIN f : f[q] \in T
      PROVE  f \in Samples(Pids, T)
  <2>1. f \in [DOMAIN f -> T]
    BY <1>2
  <2> QED
    BY <1>2, <2>1 DEF Samples
<1> QED
  BY <1>1, <1>2

LEMMA NoSamplesType ==
  ASSUME NEW T
  PROVE  NoSamples \in Samples(Pids, T) /\ DOMAIN NoSamples = {}
<1>1. NoSamples \in [{} -> T] /\ DOMAIN NoSamples = {}
  BY DEF NoSamples
<1> QED
  BY <1>1 DEF Samples

LEMMA WithType ==
  ASSUME NEW T, NEW f \in Samples(Pids, T), NEW p \in Pids, NEW value \in T
  PROVE  With(f, p, value) \in Samples(Pids, T)
<1> DEFINE g == With(f, p, value)
<1>1. /\ DOMAIN g = DOMAIN f \cup {p} /\ g = [q \in DOMAIN g |-> g[q]]
      /\ g[p] = value /\ \A q \in DOMAIN f : q # p => g[q] = f[q]
  BY DEF With
<1>2. DOMAIN f \subseteq Pids /\ \A q \in DOMAIN f : f[q] \in T
  BY SamplesDef
<1>3. \A q \in DOMAIN g : g[q] \in T
  BY <1>1, <1>2
<1> QED
  BY <1>1, <1>2, <1>3, SamplesDef

-----------------------------------------------------------------------------
(* The invariant behind both properties.  The history of a call agrees     *)
(* with the samples it took; a process that a mark still names has not     *)
(* used less than it had; ticks do not run ahead of the clock.             *)
Agree(samples, marks, limit, names, used) ==
  /\ DOMAIN samples = DOMAIN marks
  /\ \A q \in DOMAIN marks :
       /\ samples[q].at = marks[q].at /\ marks[q].at <= limit
       /\ marks[q].ok => samples[q].ticks = marks[q].used
       /\ marks[q].gen <= names[q]
       /\ marks[q].gen = names[q] => marks[q].used <= used[q]

Match(samples, marks, limit) == Agree(samples, marks, limit, gen, ticks)

Right(s) ==
  /\ s.cpu <= s.most
  /\ s.since = "none" => s.cpu = 0
  /\ s.since = "same" => s.cpu = Least(s.real, s.most)

SamplerInv ==
  /\ \A p \in Pids : ticks[p] <= clock
  /\ Match(prev, mark, IF pc = "visit" THEN now ELSE clock)
  /\ Match(next, marking, clock)
  /\ \A s \in stats \cup answer : Right(s)

Inv == TypeOK /\ SamplerInv

LEMMA InitInv == Init => Inv
<1> USE SamplerOK DEF SamplerOK
<1> SUFFICES ASSUME Init
             PROVE  Inv
  OBVIOUS
<1>1. /\ prev \in Samples(Pids, Sample) /\ next \in Samples(Pids, Sample)
      /\ mark \in Samples(Pids, Mark) /\ marking \in Samples(Pids, Mark)
      /\ DOMAIN prev = {} /\ DOMAIN next = {} /\ DOMAIN mark = {} /\ DOMAIN marking = {}
  BY NoSamplesType DEF Init
<1>2. TypeOK
  BY <1>1 DEF Init, TypeOK
<1>3. SamplerInv
  BY <1>1 DEF Init, SamplerInv, Match, Agree
<1> QED
  BY <1>2, <1>3 DEF Inv

(* Samples and marks of a PID, as the steps need them.                     *)
LEMMA SampleTypes ==
  ASSUME TypeOK, NEW q
  PROVE  /\ q \in DOMAIN prev => q \in Pids /\ prev[q] \in Sample
         /\ q \in DOMAIN next => q \in Pids /\ next[q] \in Sample
         /\ q \in DOMAIN mark => q \in Pids /\ mark[q] \in Mark
         /\ q \in DOMAIN marking => q \in Pids /\ marking[q] \in Mark
  BY SamplesDef DEF TypeOK

-----------------------------------------------------------------------------
(* The system moves: marks and samples stay what they are about.           *)
LEMMA MatchMoves ==
  ASSUME NEW samples, NEW marks \in Samples(Pids, Mark),
         NEW limit \in Nat, NEW later \in Nat, limit <= later,
         NEW names \in [Pids -> Nat], NEW used \in [Pids -> Nat],
         NEW names2 \in [Pids -> Nat], NEW used2 \in [Pids -> Nat],
         \A p \in Pids : \/ names2[p] = names[p] /\ used[p] <= used2[p]
                         \/ names2[p] > names[p],
         Agree(samples, marks, limit, names, used)
  PROVE  Agree(samples, marks, later, names2, used2)
<1> SUFFICES ASSUME NEW q \in DOMAIN marks
             PROVE  /\ samples[q].at = marks[q].at /\ marks[q].at <= later
                    /\ marks[q].ok => samples[q].ticks = marks[q].used
                    /\ marks[q].gen <= names2[q]
                    /\ marks[q].gen = names2[q] => marks[q].used <= used2[q]
  BY DEF Agree
<1>1. q \in Pids /\ marks[q] \in Mark
  BY SamplesDef
<1>2. marks[q].at \in Nat /\ marks[q].gen \in Nat /\ marks[q].used \in Nat
  BY <1>1, SamplerOK DEF SamplerOK, Mark
<1>3. /\ samples[q].at = marks[q].at /\ marks[q].at <= limit
      /\ marks[q].ok => samples[q].ticks = marks[q].used
      /\ marks[q].gen <= names[q]
      /\ marks[q].gen = names[q] => marks[q].used <= used[q]
  BY DEF Agree
<1>4. CASE names2[q] = names[q] /\ used[q] <= used2[q]
  BY <1>1, <1>2, <1>3, <1>4
<1>5. CASE names2[q] > names[q]
  BY <1>1, <1>2, <1>3, <1>5
<1> QED
  BY <1>1, <1>4, <1>5

LEMMA SystemInv ==
  ASSUME Inv, Run \/ \E p \in Pids : Exit(p) \/ Spawn(p)
  PROVE  Inv'
<1> USE SamplerOK DEF SamplerOK
<1>1. UNCHANGED <<pc, local, prev, answer, mark>>
  BY DEF Run, Exit, Spawn
<1>2. /\ clock' \in 0..MaxClock /\ clock <= clock' /\ alive' \subseteq Pids
      /\ gen' \in [Pids -> 0..MaxGen] /\ ticks' \in [Pids -> 0..MaxClock]
      /\ \A p \in Pids : ticks'[p] <= clock'
      /\ \A p \in Pids : \/ gen'[p] = gen[p] /\ ticks[p] <= ticks'[p]
                         \/ gen'[p] > gen[p]
  <2>1. CASE Run
    <3>1. clock' = clock + 1 /\ clock < MaxClock /\ alive' = alive /\ gen' = gen
      BY <2>1 DEF Run
    <3>2. PICK running \in SUBSET alive :
            ticks' = [p \in Pids |-> IF p \in running THEN ticks[p] + 1 ELSE ticks[p]]
      BY <2>1 DEF Run
    <3>3. \A p \in Pids : ticks[p] \in Nat /\ ticks[p] <= clock
      BY DEF Inv, TypeOK, SamplerInv
    <3>4. \A p \in Pids : ticks'[p] \in Nat /\ ticks[p] <= ticks'[p] /\ ticks'[p] <= clock'
      BY <3>1, <3>2, <3>3 DEF Inv, TypeOK
    <3>5. ticks' \in [Pids -> 0..MaxClock]
      BY <3>1, <3>2, <3>4 DEF Inv, TypeOK
    <3> QED
      BY <3>1, <3>4, <3>5 DEF Inv, TypeOK
  <2>2. ASSUME NEW p \in Pids, Exit(p)
        PROVE  <1>2!:
    BY <2>2 DEF Exit, Inv, TypeOK, SamplerInv
  <2>3. ASSUME NEW p \in Pids, Spawn(p)
        PROVE  <1>2!:
    BY <2>3 DEF Spawn, Inv, TypeOK, SamplerInv
  <2> QED
    BY <2>1, <2>2, <2>3
<1>3. TypeOK'
  BY <1>1, <1>2 DEF Inv, TypeOK, local
<1>4. /\ clock \in Nat /\ clock' \in Nat /\ now \in Nat
      /\ gen \in [Pids -> Nat] /\ ticks \in [Pids -> Nat]
      /\ gen' \in [Pids -> Nat] /\ ticks' \in [Pids -> Nat]
      /\ mark \in Samples(Pids, Mark) /\ marking \in Samples(Pids, Mark)
  BY <1>2 DEF Inv, TypeOK
<1>5. Match(prev, mark, IF pc = "visit" THEN now ELSE clock)'
  <2>1. UNCHANGED <<prev, mark, pc, now>>
    BY <1>1 DEF local
  <2>2. CASE pc = "visit"
    <3>1. Agree(prev, mark, now, gen, ticks)
      BY <2>2 DEF Inv, SamplerInv, Match
    <3>2. Agree(prev, mark, now, gen', ticks')
      BY <1>2, <1>4, <3>1, MatchMoves
    <3> QED
      BY <2>1, <2>2, <3>2 DEF Match
  <2>3. CASE pc # "visit"
    <3>1. Agree(prev, mark, clock, gen, ticks)
      BY <2>3 DEF Inv, SamplerInv, Match
    <3>2. Agree(prev, mark, clock', gen', ticks')
      BY <1>2, <1>4, <3>1, MatchMoves
    <3> QED
      BY <2>1, <2>3, <3>2 DEF Match
  <2> QED
    BY <2>2, <2>3
<1>6. Match(next, marking, clock)'
  <2>1. UNCHANGED <<next, marking>>
    BY <1>1 DEF local
  <2>2. Agree(next, marking, clock, gen, ticks)
    BY DEF Inv, SamplerInv, Match
  <2>3. Agree(next, marking, clock', gen', ticks')
    BY <1>2, <1>4, <2>2, MatchMoves
  <2> QED
    BY <2>1, <2>3 DEF Match
<1>7. SamplerInv'
  BY <1>1, <1>2, <1>5, <1>6 DEF Inv, SamplerInv, Right, local
<1> QED
  BY <1>3, <1>7 DEF Inv

LEMMA QuietInv ==
  ASSUME Inv, TopBegin \/ TopEnd \/ (\E p \in Pids : Skip(p)) \/ UNCHANGED vars
  PROVE  Inv'
<1> USE SamplerOK DEF SamplerOK, Inv, TypeOK, SamplerInv, Match, Agree, Right, system, local
<1>1. CASE TopBegin
  BY <1>1 DEF TopBegin
<1>2. CASE TopEnd
  <2>1. answer' \subseteq stats
    BY <1>2 DEF TopEnd, IsTop
  <2> QED
    BY <1>2, <2>1, NoSamplesType DEF TopEnd, Baselines
<1>3. ASSUME NEW p \in Pids, Skip(p)
      PROVE  Inv'
  BY <1>3 DEF Skip
<1>4. CASE UNCHANGED vars
  BY <1>4 DEF vars
<1> QED
  BY <1>1, <1>2, <1>3, <1>4

-----------------------------------------------------------------------------
(* What a visit lists of a process is of its type and right.               *)
LEMMA VisitRight ==
  ASSUME Inv, pc = "visit", NEW p \in Pids, NEW ok \in BOOLEAN, NEW read,
         read = IF ok THEN ticks[p] ELSE 0,
         NEW s, s = [pid |-> p, cpu |-> Usage(p, read), real |-> Real(p),
                     most |-> Most(p), since |-> Marked(p, ok)]
  PROVE  s \in Stat /\ Right(s)
<1> USE SamplerOK DEF SamplerOK
<1>1. /\ read \in 0..MaxClock /\ ticks[p] \in 0..MaxClock /\ now \in 0..MaxClock
      /\ p \in DOMAIN prev <=> p \in DOMAIN mark
  BY DEF Inv, TypeOK, SamplerInv, Match, Agree
<1>2. CASE p \notin DOMAIN mark
  <2>1. 0 \in 0..MaxClock * NCPU
    BY Product
  <2>2. s = [pid |-> p, cpu |-> 0, real |-> ticks[p], most |-> 0, since |-> "none"]
    BY <1>1, <1>2 DEF Usage, Real, Most, Marked
  <2>3. s.cpu = 0 /\ s.most = 0
    BY <2>2
  <2> QED
    BY <1>1, <2>1, <2>2, <2>3 DEF Stat, Right
<1>3. CASE p \in DOMAIN mark
  <2>1. /\ mark[p].used \in 0..MaxClock /\ mark[p].at \in 0..MaxClock
        /\ mark[p].gen \in Nat /\ mark[p].ok \in BOOLEAN /\ prev[p].ticks \in 0..MaxClock
    BY <1>1, <1>3, SampleTypes DEF Inv, Mark, Sample
  <2>2. /\ prev[p].at = mark[p].at /\ mark[p].at <= now
        /\ mark[p].ok => prev[p].ticks = mark[p].used
        /\ mark[p].gen = gen[p] => mark[p].used <= ticks[p]
    BY <1>3 DEF Inv, SamplerInv, Match, Agree
  <2>3. Room(p) \in Nat /\ Room(p) <= MaxClock * NCPU /\ MaxClock * NCPU \in Nat
    <3>1. now - prev[p].at \in Nat /\ now - prev[p].at <= MaxClock
      BY <1>1, <2>1, <2>2
    <3>2. \A d \in Nat : d <= MaxClock =>
            d * NCPU \in Nat /\ d * NCPU <= MaxClock * NCPU /\ MaxClock * NCPU \in Nat
      BY Product
    <3> QED
      BY <3>1, <3>2, Zenon DEF Room
  <2>4. Most(p) = Room(p)
    BY <1>3, <2>2 DEF Most, Room
  <2>5. Real(p) \in 0..MaxClock
    BY <1>1, <1>3, <2>1, <2>2 DEF Real
  <2>6. Delta(p, read) \in Nat
    BY <1>1, <2>1, ModuloRange DEF Delta
  <2>7. Usage(p, read) \in 0..MaxClock * NCPU
    <3>1. Least(Delta(p, read), Room(p)) \in 0..MaxClock * NCPU
      BY <2>3, <2>6, LeastRange
    <3> QED
      BY <2>3, <3>1 DEF Usage
  <2>8. Marked(p, ok) \in {"same", "other"}
    BY <1>3 DEF Marked
  <2>9. s \in Stat
    BY <2>3, <2>4, <2>5, <2>7, <2>8 DEF Stat
  <2>10. ASSUME Marked(p, ok) = "same"
         PROVE  Usage(p, read) = Least(Real(p), Most(p))
    <3>1. ok /\ mark[p].ok /\ mark[p].gen = gen[p]
      BY <1>3, <2>10 DEF Marked
    <3>2. read = ticks[p] /\ prev[p].ticks = mark[p].used /\ Real(p) = ticks[p] - mark[p].used
      BY <1>3, <2>2, <3>1 DEF Real
    <3>3. read - prev[p].ticks \in Nat /\ read - prev[p].ticks < Word
      BY <1>1, <2>1, <2>2, <3>1, <3>2
    <3>4. Delta(p, read) = Real(p)
      BY <3>2, <3>3, ModuloSmall DEF Delta
    <3>5. CASE now > prev[p].at
      BY <1>1, <1>3, <2>4, <3>4, <3>5 DEF Usage
    <3>6. CASE ~(now > prev[p].at)
      <4>1. now - prev[p].at = 0
        BY <1>1, <2>1, <2>2, <3>6
      <4>2. Room(p) = 0
        BY <4>1 DEF Room
      <4>3. Least(Real(p), Most(p)) = 0
        BY <2>4, <2>5, <4>2 DEF Least
      <4> QED
        BY <3>6, <4>3 DEF Usage
    <3> QED
      BY <3>5, <3>6
  <2>11. Usage(p, read) <= Most(p)
    <3>1. Least(Delta(p, read), Room(p)) <= Room(p)
      BY <2>3, <2>6 DEF Least
    <3> QED
      BY <2>3, <2>4, <3>1 DEF Usage
  <2>12. Right(s)
    BY <2>8, <2>10, <2>11 DEF Right
  <2> QED
    BY <2>9, <2>12
<1> QED
  BY <1>2, <1>3

LEMMA VisitInv ==
  ASSUME Inv, NEW p \in Pids, Visit(p)
  PROVE  Inv'
<1> USE SamplerOK DEF SamplerOK
<1>1. PICK ok \in BOOLEAN, large \in BOOLEAN :
        LET read == IF ok THEN ticks[p] ELSE 0
            cpu == Usage(p, read)
        IN /\ next' = With(next, p, [ticks |-> read, at |-> now])
           /\ marking' = With(marking, p, [gen |-> gen[p], used |-> ticks[p],
                                           at |-> now, ok |-> ok])
           /\ stats' = IF cpu > 0 \/ large
                       THEN stats \cup {[pid |-> p, cpu |-> cpu, real |-> Real(p),
                                         most |-> Most(p), since |-> Marked(p, ok)]}
                       ELSE stats
  BY DEF Visit
<1> DEFINE read == IF ok THEN ticks[p] ELSE 0
           sample == [ticks |-> read, at |-> now]
           note == [gen |-> gen[p], used |-> ticks[p], at |-> now, ok |-> ok]
<1>2. UNCHANGED <<clock, alive, gen, ticks, pc, now, prev, answer, mark>>
      /\ pc = "visit" /\ todo' \subseteq todo
  BY DEF Visit, system
<1>3. \A s \in stats' : s \in Stat /\ Right(s)
  <2>1. \A s \in stats : s \in Stat /\ Right(s)
    BY DEF Inv, TypeOK, SamplerInv
  <2>2. [pid |-> p, cpu |-> Usage(p, read), real |-> Real(p),
         most |-> Most(p), since |-> Marked(p, ok)] \in Stat
        /\ Right([pid |-> p, cpu |-> Usage(p, read), real |-> Real(p),
                  most |-> Most(p), since |-> Marked(p, ok)])
    BY <1>2, VisitRight
  <2> QED
    BY <1>1, <2>1, <2>2
<1>4. sample \in Sample /\ note \in Mark
  <2>1. ticks[p] \in 0..MaxClock /\ gen[p] \in 0..MaxGen /\ now \in 0..MaxClock
    BY DEF Inv, TypeOK
  <2> QED
    BY <2>1 DEF Sample, Mark
<1>5. /\ next' = With(next, p, sample) /\ next \in Samples(Pids, Sample)
      /\ marking' = With(marking, p, note) /\ marking \in Samples(Pids, Mark)
  BY <1>1 DEF Inv, TypeOK
<1> HIDE DEF read, sample, note
<1>6. next' \in Samples(Pids, Sample) /\ marking' \in Samples(Pids, Mark)
  BY <1>4, <1>5, WithType
<1>7. TypeOK'
  BY <1>2, <1>3, <1>6 DEF Inv, TypeOK, Right
<1>8. Agree(next', marking', clock, gen, ticks)
  <2>1. Agree(next, marking, clock, gen, ticks)
    BY DEF Inv, SamplerInv, Match
  <2>2. /\ DOMAIN next' = DOMAIN next \cup {p} /\ next'[p] = sample
        /\ \A q \in DOMAIN next : q # p => next'[q] = next[q]
    BY <1>5 DEF With
  <2>3. /\ DOMAIN marking' = DOMAIN marking \cup {p} /\ marking'[p] = note
        /\ \A q \in DOMAIN marking : q # p => marking'[q] = marking[q]
    BY <1>5 DEF With
  <2>4. /\ sample.at = note.at /\ note.at <= clock
        /\ note.ok => sample.ticks = note.used
        /\ note.gen <= gen[p] /\ note.used <= ticks[p]
    <3>1. now <= clock /\ gen[p] \in Nat /\ ticks[p] \in Nat
      BY DEF Inv, TypeOK
    <3> QED
      BY <3>1 DEF read, sample, note
  <2>5. DOMAIN next' = DOMAIN marking'
    BY <2>1, <2>2, <2>3 DEF Agree
  <2>6. ASSUME NEW q \in DOMAIN marking'
        PROVE  /\ next'[q].at = marking'[q].at /\ marking'[q].at <= clock
               /\ marking'[q].ok => next'[q].ticks = marking'[q].used
               /\ marking'[q].gen <= gen[q]
               /\ marking'[q].gen = gen[q] => marking'[q].used <= ticks[q]
    <3>1. CASE q = p
      BY <2>2, <2>3, <2>4, <3>1
    <3>2. CASE q # p
      <4>1. q \in DOMAIN marking /\ next'[q] = next[q] /\ marking'[q] = marking[q]
        BY <2>1, <2>2, <2>3, <3>2 DEF Agree
      <4> QED
        BY <2>1, <4>1 DEF Agree
    <3> QED
      BY <3>1, <3>2
  <2> QED
    BY <2>5, <2>6 DEF Agree
<1>9. SamplerInv'
  BY <1>2, <1>3, <1>8 DEF Inv, SamplerInv, Match, Right
<1> QED
  BY <1>7, <1>9 DEF Inv

LEMMA NextInv == Inv /\ [Next]_vars => Inv'
  BY SystemInv, QuietInv, VisitInv DEF Next

-----------------------------------------------------------------------------
(* The state of the sampler keeps its types, and no usage it lists is      *)
(* above 100 percent: not more than all processors had since the last      *)
(* call, PIDs reused and failed readings included.                         *)
THEOREM SamplerTypes == Spec => []TypeOK
<1>1. Inv => TypeOK
  BY DEF Inv
<1> QED
  BY <1>1, InitInv, NextInv, PTL DEF Spec

(* A process both calls read is charged with what it used between its      *)
(* visits, up to 100 percent, and one the previous call missed with none.  *)
THEOREM UsageSinceLastCall == Spec => []SinceLastCall
<1>1. Inv => SinceLastCall
  BY DEF Inv, SamplerInv, SinceLastCall, Right
<1> QED
  BY <1>1, InitInv, NextInv, PTL DEF Spec

(* sysmon.go:78 promises "actual usage since the previous call".  It fails *)
(* for no other reason than a PID that the previous call read of another   *)
(* process, or a reading that failed.                                      *)
OnlyOthersOvercharged == \A s \in answer : s.since # "other" => s.cpu <= s.real

THEOREM ActualUsageButForReuse == Spec => []OnlyOthersOvercharged
<1>1. TypeOK /\ SinceLastCall => OnlyOthersOvercharged
  BY SamplerOK DEF SamplerOK, TypeOK, Stat, SinceLastCall, OnlyOthersOvercharged, Least
<1> QED
  BY <1>1, SamplerTypes, UsageSinceLastCall, PTL
=============================================================================
