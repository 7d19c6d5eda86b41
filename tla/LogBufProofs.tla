---------------------------- MODULE LogBufProofs ----------------------------
(***************************************************************************)
(* Proof that the log buffer implements the abstract log, for any loggers, *)
(* sinks and capacity.  The invariant looks through the lock: with the     *)
(* excess cut, the buffer is the window of all lines ever appended.        *)
(***************************************************************************)
EXTENDS LogBuf, TLAPS, SequenceTheorems

(* A logger that is writing has begun a message.                           *)
Begun == \A l \in Loggers : lpc[l] # "idle" => sent[l] > 0

Held == Trim(lines) = Window!Window(written)

-----------------------------------------------------------------------------
LEMMA LineType ==
  ASSUME NEW l \in Loggers, NEW n \in 1..MaxMessages
  PROVE  Line(l, n) \in AllLines
  BY DEF Line, AllLines

LEMMA LineLocked ==
  ASSUME TypeOK, Begun, NEW l \in Loggers, BufferLock(l)
  PROVE  Line(l, sent[l]) \in AllLines
<1>1. lpc[l] = "sinks"
  BY DEF BufferLock
<1>2. sent[l] > 0
  BY <1>1 DEF Begun
<1>3. sent[l] \in 0..MaxMessages /\ MaxMessages \in Nat
  BY LogSizesOK DEF LogSizesOK, TypeOK
<1>4. sent[l] \in 1..MaxMessages
  BY <1>2, <1>3
<1> QED
  BY <1>4, LineType

LEMMA TrimType ==
  ASSUME NEW S, NEW s \in Seq(S)
  PROVE  Trim(s) \in Seq(S) /\ Len(Trim(s)) <= MaxLines
<1>1. MaxLines \in Nat \ {0}
  BY LogSizesOK DEF LogSizesOK
<1>2. CASE Len(s) > MaxLines
  <2>1. Trim(s) = SubSeq(s, Len(s) - MaxLines + 1, Len(s))
    BY <1>2 DEF Trim
  <2>2. \A i \in Len(s) - MaxLines + 1..Len(s) : s[i] \in S
    BY <1>1, <1>2
  <2>3. Trim(s) \in Seq(S) /\ Len(Trim(s)) = MaxLines
    BY <1>1, <1>2, <2>1, <2>2, SubSeqProperties
  <2> QED
    BY <1>1, <2>3
<1>3. CASE ~(Len(s) > MaxLines)
  BY <1>1, <1>3 DEF Trim
<1> QED
  BY <1>2, <1>3

(* Cutting the excess once and for all, or line by line as the buffer      *)
(* does, comes to the same.                                                *)
LEMMA TrimIsWindow ==
  ASSUME NEW S, NEW s \in Seq(S)
  PROVE  Trim(s) = Window!Window(s)
<1>1. MaxLines \in Nat \ {0} /\ Len(s) \in Nat
  BY LogSizesOK DEF LogSizesOK
<1>2. CASE Len(s) > MaxLines
  <2>1. Window!Most(Len(s)) = MaxLines
    BY <1>1, <1>2 DEF Window!Most
  <2> QED
    BY <1>2, <2>1 DEF Trim, Window!Window
<1>3. CASE ~(Len(s) > MaxLines)
  <2>1. Trim(s) = s
    BY <1>3 DEF Trim
  <2>2. Window!Window(s) = SubSeq(s, 1, Len(s))
    <3>1. Window!Most(Len(s)) = Len(s)
      BY <1>1, <1>3 DEF Window!Most
    <3>2. Len(s) - Len(s) + 1 = 1
      BY <1>1
    <3> QED
      BY <3>1, <3>2 DEF Window!Window
  <2>3. SubSeq(s, 1, Len(s)) = s
    OBVIOUS
  <2> QED
    BY <2>1, <2>2, <2>3
<1> QED
  BY <1>2, <1>3

LEMMA TrimAppend ==
  ASSUME NEW S, NEW w \in Seq(S), NEW x \in S
  PROVE  Trim(Append(Trim(w), x)) = Trim(Append(w, x))
<1>1. MaxLines \in Nat \ {0} /\ Len(w) \in Nat
  BY LogSizesOK DEF LogSizesOK
<1>2. CASE Len(w) <= MaxLines
  BY <1>1, <1>2 DEF Trim
<1>3. CASE Len(w) > MaxLines
  <2> DEFINE t == SubSeq(w, Len(w) - MaxLines + 1, Len(w))
             a == Append(t, x)
             b == Append(w, x)
  <2>1. Trim(w) = t
    BY <1>3 DEF Trim
  <2>2. /\ t \in Seq(S) /\ Len(t) = MaxLines
        /\ \A i \in 1..MaxLines : t[i] = w[Len(w) - MaxLines + i]
    BY <1>1, <1>3, SubSeqProperties
  <2>3. /\ a \in Seq(S) /\ Len(a) = MaxLines + 1
        /\ \A i \in 1..MaxLines : a[i] = t[i]
        /\ a[MaxLines + 1] = x
    BY <1>1, <2>2, AppendProperties
  <2>4. /\ b \in Seq(S) /\ Len(b) = Len(w) + 1
        /\ \A i \in 1..Len(w) : b[i] = w[i]
        /\ b[Len(w) + 1] = x
    BY <1>1, AppendProperties
  <2> HIDE DEF t, a, b
  <2>5. Trim(a) = SubSeq(a, 2, MaxLines + 1)
    BY <1>1, <2>3 DEF Trim
  <2>6. Trim(b) = SubSeq(b, Len(w) - MaxLines + 2, Len(w) + 1)
    BY <1>1, <1>3, <2>4 DEF Trim
  <2>7. /\ Trim(a) \in Seq(S) /\ Len(Trim(a)) = MaxLines
        /\ \A i \in 1..MaxLines : Trim(a)[i] = a[i + 1]
    BY <1>1, <2>3, <2>5, SubSeqProperties
  <2>8. /\ Trim(b) \in Seq(S) /\ Len(Trim(b)) = MaxLines
        /\ \A i \in 1..MaxLines : Trim(b)[i] = b[Len(w) - MaxLines + 1 + i]
    BY <1>1, <1>3, <2>4, <2>6, SubSeqProperties
  <2>9. ASSUME NEW i \in 1..MaxLines
        PROVE  a[i + 1] = b[Len(w) - MaxLines + 1 + i]
    <3>1. CASE i = MaxLines
      <4>1. Len(w) - MaxLines + 1 + i = Len(w) + 1
        BY <1>1, <3>1
      <4> QED
        BY <2>3, <2>4, <3>1, <4>1
    <3>2. CASE i < MaxLines
      <4>1. i + 1 \in 1..MaxLines /\ Len(w) - MaxLines + 1 + i \in 1..Len(w)
        BY <1>1, <1>3, <3>2
      <4>2. a[i + 1] = w[Len(w) - MaxLines + (i + 1)]
        BY <2>2, <2>3, <4>1
      <4>3. Len(w) - MaxLines + (i + 1) = Len(w) - MaxLines + 1 + i
        BY <1>1
      <4> QED
        BY <2>4, <4>1, <4>2, <4>3
    <3> QED
      BY <1>1, <3>1, <3>2
  <2>10. Trim(a) = Trim(b)
    BY <1>1, <2>7, <2>8, <2>9, SeqEqual
  <2> QED
    BY <2>1, <2>10 DEF a, b
<1> QED
  BY <1>1, <1>2, <1>3

-----------------------------------------------------------------------------
(* On its way through the sinks a message touches neither buffer nor lock. *)
LEMMA SinkStep ==
  ASSUME TypeOK, NEW l \in Loggers, Message(l) \/ SinkWrites(l) \/ SinkFails(l)
  PROVE  UNCHANGED <<lines, written>> /\ (Locked' <=> Locked)
<1>1. UNCHANGED <<lines, written>>
  BY DEF Message, SinkWrites, SinkFails
<1>2. lpc[l] # "trim" /\ lpc'[l] # "trim" /\ \A k \in Loggers \ {l} : lpc'[k] = lpc[k]
  BY DEF Message, SinkWrites, SinkFails, Goto, TypeOK
<1> QED
  BY <1>1, <1>2 DEF Locked

LEMMA TypeStep ==
  ASSUME TypeOK, Begun, [Next]_vars
  PROVE  TypeOK' /\ Begun'
<1> USE LogSizesOK DEF LogSizesOK, TypeOK, Begun, Goto
<1>1. CASE ReadLines
  BY <1>1 DEF ReadLines, Locked
<1>2. ASSUME NEW l \in Loggers, Message(l)
      PROVE  TypeOK' /\ Begun'
  <2>1. left' \in [Loggers -> Nat] /\ \A k \in Loggers : left'[k] <= Sinks[k]
    BY <1>2 DEF Message
  <2>2. UNCHANGED <<lines, written, answer>> /\ (Locked' <=> Locked)
    BY <1>2, SinkStep DEF Message
  <2>3. Len(lines') <= IF Locked' THEN MaxLines + 1 ELSE MaxLines
    BY <2>2
  <2> QED
    BY <1>2, <2>1, <2>2, <2>3 DEF Message
<1>3. ASSUME NEW l \in Loggers, SinkWrites(l)
      PROVE  TypeOK' /\ Begun'
  <2>1. left'[l] = left[l] - 1 /\ left'[l] \in Nat
    BY <1>3 DEF SinkWrites
  <2>2. \A k \in Loggers \ {l} : left'[k] = left[k]
    BY <1>3 DEF SinkWrites
  <2>3. left' \in [Loggers -> Nat] /\ \A k \in Loggers : left'[k] <= Sinks[k]
    BY <1>3, <2>1, <2>2 DEF SinkWrites
  <2> QED
    BY <1>3, <2>3, SinkStep DEF SinkWrites
<1>4. ASSUME NEW l \in Loggers, SinkFails(l)
      PROVE  TypeOK' /\ Begun'
  <2>1. left' \in [Loggers -> Nat] /\ \A k \in Loggers : left'[k] <= Sinks[k]
    BY <1>4 DEF SinkFails
  <2>2. UNCHANGED <<lines, written, answer>> /\ (Locked' <=> Locked)
    BY <1>4, SinkStep DEF SinkFails
  <2>3. Len(lines') <= IF Locked' THEN MaxLines + 1 ELSE MaxLines
    BY <2>2
  <2> QED
    BY <1>4, <2>1, <2>2, <2>3 DEF SinkFails
<1>5. ASSUME NEW l \in Loggers, BufferLock(l)
      PROVE  TypeOK' /\ Begun'
  <2>1. Line(l, sent[l]) \in AllLines
    BY <1>5, LineLocked
  <2>2. ~Locked /\ Locked'
    BY <1>5 DEF BufferLock, Locked
  <2>3. Len(lines') <= MaxLines + 1
    <3>1. lines' = Append(lines, Line(l, sent[l])) /\ Len(lines) <= MaxLines
      BY <1>5, <2>2 DEF BufferLock
    <3>2. Len(lines') = Len(lines) + 1
      BY <2>1, <3>1, AppendProperties
    <3> QED
      BY <3>1, <3>2
  <2> QED
    BY <1>5, <2>1, <2>2, <2>3 DEF BufferLock
<1>6. ASSUME NEW l \in Loggers, BufferTrim(l)
      PROVE  TypeOK' /\ Begun'
  <2>1. lines' \in Seq(AllLines) /\ Len(lines') <= MaxLines /\ Len(lines') \in Nat
    BY <1>6, TrimType, LenProperties DEF BufferTrim
  <2> QED
    BY <1>6, <2>1 DEF BufferTrim
<1>7. CASE UNCHANGED vars
  BY <1>7 DEF vars, Locked
<1> QED
  BY <1>1, <1>2, <1>3, <1>4, <1>5, <1>6, <1>7 DEF Next

LEMMA TypeInit == Init => TypeOK /\ Begun
  BY LogSizesOK DEF LogSizesOK, Init, TypeOK, Begun, Locked

(* The loggers and the buffer keep their types, and the buffer never holds *)
(* more than MaxLines lines but for the one line its next step cuts off.   *)
THEOREM LogTypes == Spec => []TypeOK
<1>1. Spec => [](TypeOK /\ Begun)
  BY TypeInit, TypeStep, PTL DEF Spec
<1> QED
  BY <1>1, PTL

-----------------------------------------------------------------------------
LEMMA HeldInit == Init => Held
<1> SUFFICES ASSUME Init
             PROVE  Held
  OBVIOUS
<1>1. lines = <<>> /\ written = <<>>
  BY DEF Init
<1>2. <<>> \in Seq(AllLines) /\ Len(<<>>) = 0
  OBVIOUS
<1>3. Trim(<<>>) = Window!Window(<<>>)
  BY <1>2, TrimIsWindow
<1> QED
  BY <1>1, <1>3 DEF Held

LEMMA HeldStep ==
  ASSUME TypeOK, Begun, Held, [Next]_vars
  PROVE  Held'
<1>1. lines \in Seq(AllLines) /\ written \in Seq(AllLines)
  BY DEF TypeOK
<1>2. CASE UNCHANGED <<lines, written>>
  BY <1>2 DEF Held, Window!Window, Window!Most, Trim
<1>3. CASE ReadLines \/ UNCHANGED vars
  <2>1. UNCHANGED <<lpc, lines, written>>
    BY <1>3 DEF ReadLines, vars
  <2> QED
    BY <1>2, <2>1
<1>4. ASSUME NEW l \in Loggers, Message(l) \/ SinkWrites(l) \/ SinkFails(l)
      PROVE  Held'
  BY <1>2, <1>4, SinkStep
<1>5. ASSUME NEW l \in Loggers, BufferLock(l)
      PROVE  Held'
  <2> DEFINE x == Line(l, sent[l])
  <2>1. x \in AllLines
    BY <1>5, LineLocked
  <2>2. lines' = Append(lines, x) /\ written' = Append(written, x) /\ ~Locked
    BY <1>5 DEF BufferLock
  <2>3. written' \in Seq(AllLines)
    BY <1>1, <2>1, <2>2
  <2>4. lines = Trim(written)
    <3>1. Trim(lines) = lines
      BY <1>1, <2>2, LogSizesOK DEF LogSizesOK, TypeOK, Trim
    <3> QED
      BY <1>1, <3>1, TrimIsWindow DEF Held
  <2>5. Trim(lines') = Trim(written')
    BY <1>1, <2>1, <2>2, <2>4, TrimAppend
  <2>6. Trim(lines)' = Window!Window(written)'
    BY <2>3, <2>5, TrimIsWindow DEF Trim, Window!Window, Window!Most
  <2> QED
    BY <2>6 DEF Held
<1>6. ASSUME NEW l \in Loggers, BufferTrim(l)
      PROVE  Held'
  <2>1. lines' = Trim(lines) /\ written' = written
    BY <1>6 DEF BufferTrim
  <2>2. lines' \in Seq(AllLines) /\ Len(lines') <= MaxLines
    BY <1>1, <2>1, TrimType
  <2>3. Trim(lines') = lines'
    BY <2>2, LogSizesOK DEF LogSizesOK, Trim
  <2> QED
    BY <2>1, <2>2, <2>3 DEF Held, Trim, Window!Window, Window!Most
<1> QED
  BY <1>3, <1>4, <1>5, <1>6 DEF Next

LEMMA WindowStep ==
  ASSUME TypeOK, Begun, Held, [Next]_vars
  PROVE  [Window!Next]_(Window!vars)
<1>1. CASE ReadLines
  <2>1. answer' = lines /\ written' = written /\ ~Locked
    BY <1>1 DEF ReadLines
  <2>2. lines = Window!Window(written)
    BY <2>1, LogSizesOK DEF LogSizesOK, Held, TypeOK, Trim
  <2> QED
    BY <2>1, <2>2 DEF Window!Next, Window!Read
<1>2. ASSUME NEW l \in Loggers,
             Message(l) \/ SinkWrites(l) \/ SinkFails(l) \/ BufferTrim(l)
      PROVE  UNCHANGED Window!vars
  BY <1>2 DEF Message, SinkWrites, SinkFails, BufferTrim, Window!vars
<1>3. ASSUME NEW l \in Loggers, BufferLock(l)
      PROVE  Window!Next
  <2>1. Line(l, sent[l]) \in AllLines
    BY <1>3, LineLocked
  <2>2. written' = Append(written, Line(l, sent[l])) /\ answer' = answer
    BY <1>3 DEF BufferLock
  <2> QED
    BY <2>1, <2>2 DEF Window!Next, Window!Write
<1>4. CASE UNCHANGED vars
  BY <1>4 DEF vars, Window!vars
<1> QED
  BY <1>1, <1>2, <1>3, <1>4 DEF Next

(* Whatever the loggers do at the same time, every answer of Lines is the  *)
(* last MaxLines lines appended (logbuf.go:19-40).                         *)
THEOREM ImplementsWindow == Spec => WindowSpec
<1>1. Init => Window!Init
  BY DEF Init, Window!Init
<1>2. Init => TypeOK /\ Begun /\ Held
  BY TypeInit, HeldInit
<1> QED
  BY <1>1, <1>2, TypeStep, HeldStep, WindowStep, PTL DEF Spec, WindowSpec, Window!Spec

-----------------------------------------------------------------------------
(* The number of the last line a logger appended: all its messages but the *)
(* one on its way through the sinks.                                       *)
Appended(l) == IF lpc[l] = "sinks" THEN sent[l] - 1 ELSE sent[l]

LastOf(l, s, i) == s[i].by = l /\ \A k \in i + 1..Len(s) : s[k].by # l

UpToDate ==
  \A l \in Loggers \ MayFail : \A i \in 1..Len(written) :
    LastOf(l, written, i) => written[i].no = Appended(l)

WholeLog == Unbroken(written) /\ Unbroken(answer) /\ UpToDate

(* What is cut off at the front leaves no hole.                            *)
LEMMA TrimUnbroken ==
  ASSUME NEW s \in Seq(AllLines), Unbroken(s)
  PROVE  Unbroken(Trim(s))
<1>1. MaxLines \in Nat \ {0} /\ Len(s) \in Nat
  BY LogSizesOK DEF LogSizesOK
<1>2. CASE Len(s) <= MaxLines
  BY <1>1, <1>2 DEF Trim
<1>3. CASE Len(s) > MaxLines
  <2> DEFINE t == Trim(s)
             d == Len(s) - MaxLines
  <2>1. t = SubSeq(s, d + 1, Len(s))
    BY <1>3 DEF Trim
  <2>2. /\ t \in Seq(AllLines) /\ Len(t) = MaxLines
        /\ \A i \in 1..MaxLines : t[i] = s[i + d]
    BY <1>1, <1>3, <2>1, SubSeqProperties
  <2>3. DOMAIN t = 1..MaxLines /\ d \in Nat /\ d + MaxLines = Len(s)
    BY <1>1, <1>3, <2>2
  <2> HIDE DEF t, d
  <2>4. SUFFICES ASSUME NEW i \in 1..MaxLines, NEW j \in 1..MaxLines,
                        t[i].by \notin MayFail, Neighbours(t, i, j)
                 PROVE  t[j].no = t[i].no + 1
    BY <2>3 DEF Unbroken, t
  <2>5. i + d \in DOMAIN s /\ j + d \in DOMAIN s
    BY <1>1, <2>3
  <2>6. Neighbours(s, i + d, j + d)
    <3>1. i + d < j + d /\ s[i + d].by = s[j + d].by
      BY <1>1, <2>2, <2>3, <2>4 DEF Neighbours
    <3>2. ASSUME NEW k \in i + d + 1..j + d - 1
          PROVE  s[k].by # s[i + d].by
      <4>1. k - d \in i + 1..j - 1 /\ k - d \in 1..MaxLines /\ (k - d) + d = k
        BY <1>1, <2>3
      <4>2. t[k - d].by # t[i].by
        BY <2>4, <4>1 DEF Neighbours
      <4> QED
        BY <2>2, <4>1, <4>2
    <3> QED
      BY <1>1, <2>3, <3>1, <3>2 DEF Neighbours
  <2>7. s[i + d].by \notin MayFail
    BY <2>2, <2>4
  <2>8. s[j + d].no = s[i + d].no + 1
    BY <2>5, <2>6, <2>7 DEF Unbroken
  <2> QED
    BY <2>2, <2>8
<1> QED
  BY <1>1, <1>2, <1>3

LEMMA WholeInit == Init => WholeLog
  BY DEF Init, WholeLog, Unbroken, UpToDate

LEMMA WholeStep ==
  ASSUME TypeOK, Begun, Held, WholeLog, [Next]_vars
  PROVE  WholeLog'
<1>1. CASE ReadLines
  <2>1. answer' = lines /\ UNCHANGED <<lpc, sent, written>> /\ ~Locked
    BY <1>1 DEF ReadLines
  <2>2. lines = Trim(written)
    <3>1. Trim(lines) = lines
      BY <2>1, LogSizesOK DEF LogSizesOK, Held, TypeOK, Trim
    <3>2. Trim(written) = Window!Window(written)
      BY TrimIsWindow DEF TypeOK
    <3> QED
      BY <3>1, <3>2 DEF Held
  <2>3. Unbroken(Trim(written))
    BY TrimUnbroken DEF TypeOK, WholeLog
  <2>4. Unbroken(answer)'
    BY <2>1, <2>2, <2>3 DEF Unbroken, Neighbours
  <2> QED
    BY <2>1, <2>4 DEF WholeLog, Unbroken, Neighbours, UpToDate, LastOf, Appended
<1>2. ASSUME NEW l \in Loggers, Message(l) \/ SinkWrites(l) \/ SinkFails(l) \/ BufferTrim(l)
      PROVE  WholeLog'
  <2>1. UNCHANGED <<written, answer>>
    BY <1>2 DEF Message, SinkWrites, SinkFails, BufferTrim
  <2>2. ASSUME NEW k \in Loggers \ MayFail
        PROVE  Appended(k)' = Appended(k)
    BY <1>2 DEF Message, SinkWrites, SinkFails, BufferTrim, Goto, Appended, TypeOK
  <2> QED
    BY <2>1, <2>2 DEF WholeLog, Unbroken, Neighbours, UpToDate, LastOf
<1>3. ASSUME NEW l \in Loggers, BufferLock(l)
      PROVE  WholeLog'
  <2> DEFINE x == Line(l, sent[l])
             n == Len(written)
  <2>1. x \in AllLines /\ x.by = l /\ x.no = sent[l]
    BY <1>3, LineLocked DEF Line
  <2>2. /\ written' \in Seq(AllLines) /\ Len(written') = n + 1 /\ n \in Nat
        /\ \A i \in 1..n : written'[i] = written[i]
        /\ written'[n + 1] = x
        /\ DOMAIN written = 1..n /\ DOMAIN written' = 1..n + 1
    BY <1>3, <2>1, AppendProperties DEF BufferLock, TypeOK
  <2>3. answer' = answer /\ lpc[l] = "sinks"
    BY <1>3 DEF BufferLock
  <2>4. /\ Appended(l) = sent[l] - 1 /\ Appended(l)' = sent[l]
        /\ \A k \in Loggers \ {l} : Appended(k)' = Appended(k)
    BY <1>3, <2>3 DEF BufferLock, Goto, Appended, TypeOK
  <2> HIDE DEF x, n
  <2>5. Unbroken(written)'
    <3> SUFFICES ASSUME NEW i \in 1..n + 1, NEW j \in 1..n + 1,
                        written'[i].by \notin MayFail, Neighbours(written', i, j)
                 PROVE  written'[j].no = written'[i].no + 1
      BY <2>2 DEF Unbroken, Neighbours
    <3>1. i \in 1..n /\ i < j
      BY <2>2 DEF Neighbours
    <3>2. CASE j \in 1..n
      <4>1. Neighbours(written, i, j)
        BY <2>2, <3>1, <3>2 DEF Neighbours
      <4> QED
        BY <2>2, <3>1, <3>2, <4>1 DEF WholeLog, Unbroken
    <3>3. CASE j = n + 1
      <4>1. written[i].by = l /\ l \notin MayFail
        BY <2>1, <2>2, <3>1, <3>3 DEF Neighbours
      <4>2. LastOf(l, written, i)
        BY <2>2, <3>1, <3>3, <4>1 DEF LastOf, Neighbours, n
      <4>3. written[i].no = sent[l] - 1
        BY <2>4, <3>1, <4>1, <4>2 DEF WholeLog, UpToDate, n
      <4>4. sent[l] \in Nat
        BY LogSizesOK DEF LogSizesOK, TypeOK
      <4> QED
        BY <2>1, <2>2, <3>1, <3>3, <4>3, <4>4
    <3> QED
      BY <2>2, <3>1, <3>2, <3>3
  <2>6. UpToDate'
    <3> SUFFICES ASSUME NEW k \in Loggers \ MayFail, NEW i \in 1..n + 1,
                        LastOf(k, written', i)
                 PROVE  written'[i].no = Appended(k)'
      BY <2>2 DEF UpToDate, LastOf
    <3>1. CASE i = n + 1
      BY <2>1, <2>2, <2>4, <3>1 DEF LastOf
    <3>2. CASE i \in 1..n
      <4>1. k # l
        BY <2>1, <2>2, <3>2 DEF LastOf
      <4>2. LastOf(k, written, i)
        BY <2>2, <3>2 DEF LastOf, n
      <4> QED
        BY <2>2, <2>4, <3>2, <4>1, <4>2 DEF WholeLog, UpToDate, n
    <3> QED
      BY <2>2, <3>1, <3>2
  <2> QED
    BY <2>3, <2>5, <2>6 DEF WholeLog, Unbroken, Neighbours
<1>4. CASE UNCHANGED vars
  BY <1>4 DEF vars, WholeLog, Unbroken, Neighbours, UpToDate, LastOf, Appended
<1> QED
  BY <1>1, <1>2, <1>3, <1>4 DEF Next

(* The log tab never shows a gap in what a logger with working sinks wrote,*)
(* whatever the other loggers and the sinks in front did (main.go loggers, *)
(* logbuf.go:19-40).                                                       *)
THEOREM NothingIsSkipped == Spec => []NoHole
<1>1. Init => TypeOK /\ Begun /\ Held /\ WholeLog
  BY TypeInit, HeldInit, WholeInit
<1>2. WholeLog => NoHole
  BY DEF WholeLog, NoHole
<1> QED
  BY <1>1, <1>2, TypeStep, HeldStep, WholeStep, PTL DEF Spec
=============================================================================
