------------------------------ MODULE Sampler ------------------------------
(***************************************************************************)
(* The CPU sampler of sysmon/sysmon.go.  Top visits the processes one by   *)
(* one while the system goes on: processes run, end, and new ones get the  *)
(* process identifiers (PIDs) of those that ended.  Each call turns the    *)
(* CPU ticks of a PID into the usage since the call before.                *)
(*                                                                         *)
(* All samples of a call carry the time of its beginning, so the usage of  *)
(* a process is kept in ticks: its percentage is 100 times that over the   *)
(* ticks all processors had, `Room'.                                       *)
(***************************************************************************)
EXTENDS Integers, FiniteSets

CONSTANTS
  Pids,      \* process identifiers, without 0, which Top skips
  NCPU,      \* processors
  Word,      \* values of a tick counter, 2^64 in the code
  Failing,   \* PIDs for which GetProcessTimes may fail
  N,         \* how many processes a call lists, 15 in the code
  MaxClock,  \* bound on the clock
  MaxGen     \* bound on the processes a PID may name in turn

ASSUME SamplerOK ==
  /\ Failing \subseteq Pids
  /\ NCPU \in Nat \ {0} /\ Word \in Nat \ {0} /\ N \in Nat
  /\ MaxClock \in 0..Word - 1 /\ MaxGen \in Nat

VARIABLES
  clock,    \* wall time
  alive,    \* PIDs of the running processes
  gen,      \* how many processes each PID has named so far
  ticks,    \* CPU time of the process each PID names
  pc,       \* "idle" or "visit": where Top is
  now, todo, next, stats,   \* Top's locals, todo being the PIDs to visit
  prev,     \* Sampler.prev
  answer,   \* what the last call returned, {} while one runs
  mark, marking   \* history: processes read by the last call, by the running one

system == <<clock, alive, gen, ticks>>
local == <<now, todo, next, stats, marking>>
vars == <<system, pc, local, prev, answer, mark>>

NoSamples == [p \in {} |-> 0]

Init ==
  /\ clock = 0
  /\ alive \in SUBSET Pids
  /\ gen = [p \in Pids |-> 0]
  /\ ticks = [p \in Pids |-> 0]
  /\ pc = "idle"
  /\ now = 0 /\ todo = {} /\ next = NoSamples /\ stats = {}
  /\ prev = NoSamples /\ answer = {}
  /\ mark = NoSamples /\ marking = NoSamples

-----------------------------------------------------------------------------
(* The system.  In a tick of the clock each processor may run a process.   *)
Run ==
  /\ clock < MaxClock
  /\ clock' = clock + 1
  /\ \E running \in SUBSET alive :
       /\ Cardinality(running) <= NCPU
       /\ ticks' = [p \in Pids |-> IF p \in running THEN ticks[p] + 1 ELSE ticks[p]]
  /\ UNCHANGED <<alive, gen, pc, local, prev, answer, mark>>

Exit(p) ==
  /\ p \in alive
  /\ alive' = alive \ {p}
  /\ UNCHANGED <<clock, gen, ticks, pc, local, prev, answer, mark>>

Spawn(p) ==
  /\ p \notin alive /\ gen[p] < MaxGen
  /\ alive' = alive \cup {p}
  /\ gen' = [gen EXCEPT ![p] = @ + 1]
  /\ ticks' = [ticks EXCEPT ![p] = 0]
  /\ UNCHANGED <<clock, pc, local, prev, answer, mark>>

-----------------------------------------------------------------------------
(* Top.  When K32EnumProcesses fails it leaves `needed' at 0: no PID.      *)
TopBegin ==
  /\ pc = "idle"
  /\ pc' = "visit"
  /\ now' = clock
  /\ todo' \in {alive, {}}
  /\ answer' = {}
  /\ UNCHANGED <<system, next, stats, marking, prev, mark>>

(* OpenProcess fails: the process has ended, or is protected.              *)
Skip(p) ==
  /\ pc = "visit" /\ p \in todo
  /\ todo' = todo \ {p}
  /\ UNCHANGED <<system, pc, now, next, stats, prev, answer, mark, marking>>

(* uint64 subtraction; the test cpuDelta >= 0 comes after the conversion   *)
(* to float64 and is always true.                                          *)
Delta(p, read) == (read - prev[p].ticks) % Word
Room(p) == (now - prev[p].at) * NCPU
Least(a, b) == IF a < b THEN a ELSE b

UsageUncapped(p, read) ==   \* mistaken: no limit of 100 percent
  IF p \in DOMAIN prev /\ now > prev[p].at THEN Delta(p, read) ELSE 0

Usage(p, read) ==
  IF p \in DOMAIN prev /\ now > prev[p].at THEN Least(Delta(p, read), Room(p)) ELSE 0

(* History: what the process read now has really used since the last call  *)
(* and could have at most, and how that call marked its PID: not at all,   *)
(* as this very process, or as another one or with a reading that failed.  *)
Marked(p, ok) ==
  IF p \notin DOMAIN mark THEN "none"
  ELSE IF ok /\ mark[p].ok /\ mark[p].gen = gen[p] THEN "same" ELSE "other"

Real(p) == IF p \in DOMAIN mark /\ mark[p].gen = gen[p] THEN ticks[p] - mark[p].used ELSE ticks[p]
Most(p) == IF p \in DOMAIN mark THEN (now - mark[p].at) * NCPU ELSE 0

With(f, p, value) == [q \in DOMAIN f \cup {p} |-> IF q = p THEN value ELSE f[q]]

(* GetProcessTimes fills in the ticks, or fails and leaves them at 0.  A   *)
(* process is listed for using the CPU or a megabyte of memory.            *)
Visit(p) ==
  /\ pc = "visit" /\ p \in todo /\ p \in alive
  /\ todo' = todo \ {p}
  /\ \E ok, large \in BOOLEAN :
       /\ ok \/ p \in Failing
       /\ LET read == IF ok THEN ticks[p] ELSE 0
              cpu == Usage(p, read)
          IN /\ next' = With(next, p, [ticks |-> read, at |-> now])
             /\ marking' = With(marking, p, [gen |-> gen[p], used |-> ticks[p],
                                             at |-> now, ok |-> ok])
             /\ stats' = IF cpu > 0 \/ large
                         THEN stats \cup {[pid |-> p, cpu |-> cpu, real |-> Real(p),
                                           most |-> Most(p), since |-> Marked(p, ok)]}
                         ELSE stats
  /\ UNCHANGED <<system, pc, now, prev, answer, mark>>

BaselinesMerged ==   \* mistaken: samples of earlier calls are kept
  [p \in DOMAIN next \cup DOMAIN prev |-> IF p \in DOMAIN next THEN next[p] ELSE prev[p]]
Baselines == next

(* The sort is not stable: any N with no larger usage left out.            *)
IsTop(s, all) ==
  /\ s \subseteq all
  /\ Cardinality(s) = Least(N, Cardinality(all))
  /\ \A in \in s, out \in all \ s : in.cpu >= out.cpu

TopEnd ==
  /\ pc = "visit" /\ todo = {}
  /\ pc' = "idle"
  /\ prev' = Baselines
  /\ mark' = marking
  /\ answer' \in {s \in SUBSET stats : IsTop(s, stats)}
  /\ now' = 0 /\ next' = NoSamples /\ stats' = {} /\ marking' = NoSamples
  /\ UNCHANGED <<system, todo>>

Next ==
  \/ Run \/ TopBegin \/ TopEnd
  \/ \E p \in Pids : Exit(p) \/ Spawn(p) \/ Skip(p) \/ Visit(p)

Spec == Init /\ [][Next]_vars

-----------------------------------------------------------------------------
(* Types of the sampler's state; no usage is above 100 percent of what all *)
(* processors had since the last call (sysmon.go:147-150), also where the  *)
(* subtraction wrapped around.                                             *)
Samples(S, T) == UNION {[D -> T] : D \in SUBSET S}
Sample == [ticks : 0..MaxClock, at : 0..MaxClock]
Mark == [gen : 0..MaxGen, used : 0..MaxClock, at : 0..MaxClock, ok : BOOLEAN]
Stat == [pid : Pids, cpu : 0..MaxClock * NCPU, real : 0..MaxClock,
         most : 0..MaxClock * NCPU, since : {"none", "same", "other"}]

TypeOK ==
  /\ clock \in 0..MaxClock /\ alive \subseteq Pids
  /\ gen \in [Pids -> 0..MaxGen] /\ ticks \in [Pids -> 0..MaxClock]
  /\ pc \in {"idle", "visit"} /\ now \in 0..clock /\ todo \subseteq Pids
  /\ prev \in Samples(Pids, Sample) /\ next \in Samples(Pids, Sample)
  /\ mark \in Samples(Pids, Mark) /\ marking \in Samples(Pids, Mark)
  /\ stats \subseteq Stat /\ answer \subseteq Stat
  /\ \A s \in stats \cup answer : s.cpu <= s.most

(* A process that this call and the previous one read is charged with what *)
(* it used between its two visits, up to 100 percent; a PID the previous   *)
(* call did not read starts from zero: however the calls overlap with      *)
(* processes running and ending, with PIDs reused and processes missed.    *)
SinceLastCall ==
  \A s \in answer :
    /\ s.since = "none" => s.cpu = 0
    /\ s.since = "same" => s.cpu = Least(s.real, s.most)

-----------------------------------------------------------------------------
(* sysmon.go:78: "subsequent calls reflect actual usage since the previous *)
(* call": no process is charged with more than it used.                    *)
ReflectsUsage == \A s \in answer : s.cpu <= s.real
=============================================================================
