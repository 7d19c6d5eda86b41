-------------------------- MODULE DashboardProofs --------------------------
(***************************************************************************)
(* Proofs about Dashboard.tla for any number of requests, readings and any *)
(* capacity of the channels: its types, that no reading is torn, that the  *)
(* stream takes a tab back at most once, and that nothing falls between    *)
(* the snapshot and the stream.                                            *)
(***************************************************************************)
EXTENDS Dashboard, SequenceTheorems, TLAPS

Places == {"none", "register", "rlock", "snapshot", "loop", "write", "unregister", "answer"}
Registered == {"rlock", "snapshot", "loop", "write", "unregister"}

(* A broadcast visits clients; the handlers in between are registered, and *)
(* others have nothing in their channels.                                  *)
ClientInv ==
  /\ mpc # "broadcast" => todo = {}
  /\ mpc \in {"lock", "setCap", "setRate", "clients", "broadcast"} => seq > 0
  /\ \A r \in Requests : hpc[r] \in Registered <=> r \in clients
  /\ \A r \in Requests : r \notin clients => ch[r] = <<>>

Typed == TypeOK /\ ClientInv

LEMMA ReadingType ==
  ASSUME NEW n \in 0..MaxPush
  PROVE  Reading(n) \in Readings
  BY DEF Reading, Readings

LEMMA NoMsgType == NoMsg \in Readings
  BY SizesOK, ReadingType DEF SizesOK, NoMsg

LEMMA InitTypes == Init => Typed
<1> USE SizesOK DEF SizesOK
<1> SUFFICES ASSUME Init
             PROVE  Typed
  OBVIOUS
<1>1. latest \in Readings /\ seq \in 0..MaxPush
  BY NoMsgType DEF Init, NoMsg
<1>2. ch \in [Requests -> Seq(Readings)] /\ \A r \in Requests : Len(ch[r]) <= ChanCap
  BY DEF Init
<1>3. msg \in [Requests -> Readings] /\ view \in [Requests -> Readings]
  BY NoMsgType DEF Init
<1>4. floor \in 0..MaxPush + 1
  BY DEF Init
<1> QED
  BY <1>1, <1>2, <1>3, <1>4 DEF Init, Typed, TypeOK, ClientInv, Registered

-----------------------------------------------------------------------------
LEMMA PushTypes ==
  ASSUME Typed,
         PushBegin \/ PushInfo \/ PushCap \/ PushRate \/ PushLockClients \/ PushEnd \/ RunStops
  PROVE  Typed'
<1> USE SizesOK DEF SizesOK, Typed, TypeOK, ClientInv, request
<1>1. CASE PushBegin
  <2>1. seq' \in 0..MaxPush /\ seq' > 0
    BY <1>1 DEF PushBegin
  <2> QED
    BY <1>1, <2>1 DEF PushBegin
<1>2. CASE PushInfo \/ PushCap \/ PushRate
  <2>1. latest' \in Readings
    BY <1>2 DEF PushInfo, PushCap, PushRate, Readings
  <2> QED
    BY <1>2, <2>1 DEF PushInfo, PushCap, PushRate
<1>3. CASE PushLockClients \/ PushEnd \/ RunStops
  BY <1>3 DEF PushLockClients, PushEnd, RunStops
<1> QED
  BY <1>1, <1>2, <1>3

(* What an offer does to the channel.                                      *)
LEMMA Offered ==
  ASSUME Typed, NEW r \in Requests, PushSend(r)
  PROVE  /\ r \in clients
         /\ ch' \in [Requests -> Seq(Readings)]
         /\ \A q \in Requests : q # r => ch'[q] = ch[q] /\ missed'[q] = missed[q]
         /\ missed' \in [Requests -> BOOLEAN]
         /\ \/ Len(ch[r]) < ChanCap /\ ch'[r] = Append(ch[r], Reading(seq)) /\ ~missed'[r]
            \/ ch'[r] = ch[r] /\ missed'[r]
<1> USE SizesOK DEF SizesOK, Typed, TypeOK, PushSend, Offer
<1>1. Reading(seq) \in Readings
  BY ReadingType
<1>2. ch[r] \in Seq(Readings) /\ Append(ch[r], Reading(seq)) \in Seq(Readings) /\ Len(ch[r]) \in Nat
  BY <1>1
<1>3. missed' = [missed EXCEPT ![r] = Len(ch[r]) >= ChanCap]
  OBVIOUS
<1>4. missed'[r] <=> Len(ch[r]) >= ChanCap
  BY <1>3
<1>5. missed' \in [Requests -> BOOLEAN]
  BY <1>3
<1>6. CASE Len(ch[r]) < ChanCap
  <2>1. ch' = [ch EXCEPT ![r] = Append(ch[r], Reading(seq))]
    BY <1>6
  <2> QED
    BY <1>2, <1>3, <1>4, <1>5, <1>6, <2>1
<1>7. CASE ~(Len(ch[r]) < ChanCap)
  <2>1. ch' = ch
    BY <1>7
  <2> QED
    BY <1>2, <1>3, <1>4, <1>5, <1>7, <2>1
<1> QED
  BY <1>6, <1>7

LEMMA SendTypes ==
  ASSUME Typed, NEW r \in Requests, PushSend(r)
  PROVE  Typed'
<1>1. \A q \in Requests : Len(ch'[q]) <= ChanCap
  <2> SUFFICES ASSUME NEW q \in Requests
               PROVE  Len(ch'[q]) <= ChanCap
    OBVIOUS
  <2>1. CASE q = r
    <3>1. CASE ch'[r] = ch[r]
      BY <2>1, <3>1 DEF Typed, TypeOK
    <3>2. CASE Len(ch[r]) < ChanCap /\ ch'[r] = Append(ch[r], Reading(seq))
      <4>1. ch[r] \in Seq(Readings) /\ Reading(seq) \in Readings
        BY ReadingType DEF Typed, TypeOK
      <4>2. Len(ch'[r]) = Len(ch[r]) + 1
        BY <3>2, <4>1, AppendProperties
      <4> QED
        BY <2>1, <3>2, <4>1, <4>2, LenProperties, SizesOK DEF SizesOK
    <3> QED
      BY <3>1, <3>2, Offered
  <2>2. CASE q # r
    BY <2>2, Offered DEF Typed, TypeOK
  <2> QED
    BY <2>1, <2>2
<1>2. TypeOK'
  BY <1>1, Offered DEF PushSend, Typed, TypeOK
<1>3. ClientInv'
  BY Offered DEF PushSend, Typed, ClientInv
<1> QED
  BY <1>2, <1>3 DEF Typed

LEMMA HandlerTypes ==
  ASSUME Typed, NEW r \in Requests,
         \/ Connect(r) \/ Register(r) \/ RLock(r) \/ SnapshotSent(r) \/ Receive(r) \/ Written(r)
         \/ WriteFails(r) \/ ContextDone(r) \/ Unregister(r) \/ Status(r) \/ Answered(r)
  PROVE  Typed'
<1> USE NoMsgType DEF Typed, TypeOK, ClientInv, Registered, Goto, Drop, pusher
<1>1. CASE Connect(r)
  BY <1>1 DEF Connect
<1>2. CASE Register(r)
  <2>1. floor' \in 0..MaxPush + 1
    BY <1>2, SizesOK DEF SizesOK, Register
  <2> QED
    BY <1>2, <2>1 DEF Register, ClientsFree
<1>3. CASE RLock(r)
  BY <1>3 DEF RLock
<1>4. CASE SnapshotSent(r) \/ Written(r)
  <2>1. Show(r)
    BY <1>4 DEF SnapshotSent, Written
  <2>2. msg' \in [Requests -> Readings]
    BY <2>1 DEF Show
  <2>3. view' \in [Requests -> Readings]
    BY <2>1 DEF Show
  <2>4. hpc[r] \in Registered /\ hpc' = [hpc EXCEPT ![r] = "loop"]
    BY <1>4 DEF SnapshotSent, Written
  <2>5. UNCHANGED <<pusher, clients, ch, open, missed, stop, listening>>
    BY <1>4 DEF SnapshotSent, Written
  <2>6. floor' \in 0..MaxPush + 1
    <3>1. msg[r].info \in 0..MaxPush
      BY DEF Readings
    <3> QED
      BY <1>4, <3>1, SizesOK DEF SizesOK, SnapshotSent, Written
  <2> QED
    BY <2>2, <2>3, <2>4, <2>5, <2>6
<1>5. CASE Receive(r)
  <2>1. ch[r] \in Seq(Readings) /\ ch[r] # <<>>
    BY <1>5 DEF Receive
  <2>2. Head(ch[r]) \in Readings /\ Tail(ch[r]) \in Seq(Readings) /\ Len(Tail(ch[r])) = Len(ch[r]) - 1
    BY <2>1
  <2>3. ch' = [ch EXCEPT ![r] = Tail(ch[r])] /\ msg' = [msg EXCEPT ![r] = Head(ch[r])]
    BY <1>5 DEF Receive
  <2>4. \A q \in Requests : Len(ch'[q]) <= ChanCap
    BY <2>1, <2>2, <2>3, SizesOK DEF SizesOK
  <2>5. r \in clients
    BY <1>5 DEF Receive
  <2> QED
    BY <1>5, <2>2, <2>3, <2>4, <2>5 DEF Receive
<1>6. CASE WriteFails(r) \/ ContextDone(r)
  <2>1. msg' \in [Requests -> Readings]
    BY <1>6 DEF WriteFails, ContextDone
  <2>2. hpc[r] \in Registered /\ hpc' = [hpc EXCEPT ![r] = "unregister"]
    BY <1>6 DEF WriteFails, ContextDone
  <2>3. UNCHANGED <<pusher, clients, ch, open, view, missed, floor, stop, listening>>
    BY <1>6 DEF WriteFails, ContextDone
  <2> QED
    BY <2>1, <2>2, <2>3
<1>7. CASE Unregister(r)
  <2>1. ch' \in [Requests -> Seq(Readings)] /\ \A q \in Requests : Len(ch'[q]) <= ChanCap
    BY <1>7, SizesOK DEF SizesOK, Unregister
  <2>2. todo = {}
    BY <1>7 DEF Unregister, ClientsFree
  <2> QED
    BY <1>7, <2>1, <2>2 DEF Unregister
<1>8. CASE Status(r) \/ Answered(r)
  <2>1. msg' \in [Requests -> Readings]
    BY <1>8 DEF Status, Answered
  <2>2. hpc[r] \notin Registered /\ \E place \in {"answer", "none"} : hpc' = [hpc EXCEPT ![r] = place]
    BY <1>8 DEF Status, Answered
  <2>3. UNCHANGED <<pusher, clients, ch, open, view, missed, floor, stop, listening>>
    BY <1>8 DEF Status, Answered
  <2> QED
    BY <2>1, <2>2, <2>3
<1> QED
  BY <1>1, <1>2, <1>3, <1>4, <1>5, <1>6, <1>7, <1>8

LEMMA NextTypes == Typed /\ [Next]_vars => Typed'
<1> SUFFICES ASSUME Typed, [Next]_vars
             PROVE  Typed'
  OBVIOUS
<1>1. ASSUME NEW r \in Requests, Disconnect(r)
      PROVE  Typed'
  BY <1>1, NoMsgType, SizesOK DEF SizesOK, Disconnect, Typed, TypeOK, ClientInv, pusher
<1>2. CASE CloseStop \/ Shutdown
  BY <1>2 DEF CloseStop, Shutdown, Typed, TypeOK, ClientInv, pusher, request
<1>3. CASE UNCHANGED vars
  BY <1>3 DEF vars, Typed, TypeOK, ClientInv, pusher, request
<1> QED
  BY <1>1, <1>2, <1>3, PushTypes, SendTypes, HandlerTypes DEF Next, Monitor, Handler, Ended

(* The server, the monitor's goroutine and the handlers keep their types,  *)
(* no channel holds more than its capacity, and a broadcast visits only    *)
(* registered clients.                                                     *)
THEOREM DashboardTypes == Spec => []TypeOK
<1>1. Typed => TypeOK
  BY DEF Typed
<1> QED
  BY <1>1, InitTypes, NextTypes, PTL DEF Spec

-----------------------------------------------------------------------------
(* Outside of its three assignments the latest reading is that of seq, and *)
(* within them its fields are those already assigned.                      *)
LatestInv ==
  /\ mpc \in {"wait", "clients", "broadcast", "stopped"} => latest = Reading(seq)
  /\ mpc \in {"setCap", "setRate"} => latest.info = seq
  /\ mpc = "setRate" => latest.cap = seq

LEMMA InitLatest == Init => LatestInv
  BY DEF Init, LatestInv

LEMMA NextLatest == Typed /\ LatestInv /\ [Next]_vars => LatestInv'
<1> SUFFICES ASSUME Typed, LatestInv, [Next]_vars
             PROVE  LatestInv'
  OBVIOUS
<1> USE DEF Typed, TypeOK, LatestInv
<1>1. CASE PushBegin
  BY <1>1 DEF PushBegin
<1>2. CASE PushInfo
  BY <1>2 DEF PushInfo, Readings
<1>3. CASE PushCap
  BY <1>3 DEF PushCap, Readings
<1>4. CASE PushRate
  BY <1>4 DEF PushRate, Readings, Reading
<1>5. CASE PushLockClients \/ PushEnd \/ RunStops \/ \E r \in Requests : PushSend(r)
  BY <1>5 DEF PushLockClients, PushEnd, RunStops, PushSend, Reading
<1>6. CASE UNCHANGED pusher
  BY <1>6 DEF pusher, Reading
<1>7. (\E r \in Requests :
        \/ Connect(r) \/ Disconnect(r) \/ Handler(r) \/ Written(r) \/ Status(r) \/ Answered(r))
      => UNCHANGED pusher
  BY DEF Connect, Disconnect, Handler, Register, RLock, SnapshotSent, Receive, WriteFails,
     ContextDone, Unregister, Written, Status, Answered
<1>8. CloseStop \/ Shutdown \/ UNCHANGED vars => UNCHANGED pusher
  BY DEF CloseStop, Shutdown, vars
<1> QED
  BY <1>1, <1>2, <1>3, <1>4, <1>5, <1>6, <1>7, <1>8 DEF Next, Monitor, Ended

-----------------------------------------------------------------------------
(* What a handler reads under the lock and what waits in channels is whole.*)
WholeAt(r) ==
  /\ Whole(msg[r]) /\ Whole(view[r])
  /\ \A i \in 1..Len(ch[r]) : Whole(ch[r][i])

(* What waits is in order and not newer than seq; for a client still to be *)
(* visited, or while a push is before its broadcast, it is older.          *)
Awaits(r) == mpc \in {"lock", "setCap", "setRate", "clients"} \/ r \in todo

Ordered(r) ==
  /\ \A i, j \in 1..Len(ch[r]) : i < j => ch[r][i].info < ch[r][j].info
  /\ \A i \in 1..Len(ch[r]) :
       /\ ch[r][i].info <= seq
       /\ Awaits(r) => ch[r][i].info < seq
       /\ hpc[r] = "write" => msg[r].info < ch[r][i].info
  /\ hpc[r] = "write" =>
       /\ msg[r].info <= seq
       /\ Awaits(r) => msg[r].info < seq

(* The last reading owed to a client is on its way to the tab: last in the *)
(* channel, or being written, or shown.                                    *)
Covered(r) ==
  IF ch[r] # <<>> THEN ch[r][Len(ch[r])].info >= Due(r)
  ELSE /\ hpc[r] \in {"snapshot", "write"} => msg[r].info >= Due(r)
       /\ hpc[r] = "loop" /\ open[r] => view[r].info >= Due(r)

Owed(r) ==
  hpc[r] \in {"rlock", "snapshot", "loop", "write"} /\ ~missed[r] => Covered(r)

Stream(r) == WholeAt(r) /\ Ordered(r) /\ Owed(r)
StreamInv == \A r \in Requests : Stream(r)

LEMMA NoMsgWhole == Whole(NoMsg) /\ \A n : Whole(Reading(n)) /\ Reading(n).info = n
  BY DEF Whole, NoMsg, Reading

LEMMA InitStream == Init => StreamInv
<1> SUFFICES ASSUME Init, NEW r \in Requests
             PROVE  Stream(r)
  BY DEF StreamInv
<1>1. ch[r] = <<>> /\ Len(ch[r]) = 0 /\ hpc[r] = "none" /\ msg[r] = NoMsg /\ view[r] = NoMsg
  BY DEF Init
<1> QED
  BY <1>1, NoMsgWhole DEF Stream, WholeAt, Ordered, Owed

(* The types as the following steps need them.                             *)
LEMMA StreamTypes ==
  ASSUME Typed, NEW r \in Requests
  PROVE  /\ ch[r] \in Seq(Readings) /\ Len(ch[r]) \in Nat
         /\ ch[r] = <<>> <=> Len(ch[r]) = 0
         /\ \A i \in 1..Len(ch[r]) : ch[r][i].info \in Nat
         /\ msg[r].info \in Nat /\ view[r].info \in Nat /\ seq \in Nat
         /\ Due(r) \in Int /\ Due(r) <= seq
<1> USE SizesOK DEF SizesOK, Typed, TypeOK
<1>1. ch[r] \in Seq(Readings) /\ Len(ch[r]) \in Nat /\ (ch[r] = <<>> <=> Len(ch[r]) = 0)
  BY EmptySeq, LenProperties
<1>2. \A m \in Readings : m.info \in Nat
  BY DEF Readings
<1>3. \A i \in 1..Len(ch[r]) : ch[r][i] \in Readings
  BY <1>1, ElementOfSeq
<1>4. seq \in Nat
  OBVIOUS
<1> QED
  BY <1>1, <1>2, <1>3, <1>4 DEF Due

-----------------------------------------------------------------------------
(* A step of the monitor's goroutine other than a send.                    *)
LEMMA PushStream ==
  ASSUME Typed, StreamInv, NEW r \in Requests,
         PushBegin \/ PushInfo \/ PushCap \/ PushRate \/ PushLockClients \/ PushEnd \/ RunStops
  PROVE  Stream(r)'
<1>1. UNCHANGED request
  BY DEF PushBegin, PushInfo, PushCap, PushRate, PushLockClients, PushEnd, RunStops
<1>2. WholeAt(r)'
  BY <1>1 DEF StreamInv, Stream, WholeAt, request
<1>3. CASE PushBegin
  <2>1. seq' = seq + 1 /\ mpc = "wait" /\ mpc' = "lock" /\ r \notin todo /\ todo' = todo
    BY <1>3 DEF PushBegin, Typed, ClientInv
  <2>2. Ordered(r)'
    BY <1>1, <2>1, StreamTypes DEF StreamInv, Stream, Ordered, Awaits, request
  <2>3. Due(r)' = Due(r)
    BY <2>1, StreamTypes DEF Due
  <2>4. Owed(r)'
    BY <1>1, <2>3 DEF StreamInv, Stream, Owed, Covered, request
  <2> QED
    BY <1>2, <2>2, <2>4 DEF Stream
<1>4. CASE ~PushBegin
  <2>1. seq' = seq /\ (Awaits(r)' => Awaits(r) \/ r \notin clients)
    BY <1>4 DEF PushInfo, PushCap, PushRate, PushLockClients, PushEnd, RunStops, Awaits
  <2>2. r \in clients => Due(r)' = Due(r)
    BY <1>4, StreamTypes DEF PushInfo, PushCap, PushRate, PushLockClients, PushEnd, RunStops, Due
  <2>3. r \notin clients => ch[r] = <<>> /\ Len(ch[r]) = 0 /\ hpc[r] \notin Registered
    BY StreamTypes DEF Typed, ClientInv
  <2>4. Ordered(r)'
    BY <1>1, <2>1, <2>3, StreamTypes DEF StreamInv, Stream, Ordered, request, Registered
  <2>5. Owed(r)'
    BY <1>1, <2>2, <2>3 DEF StreamInv, Stream, Owed, Covered, request, Registered
  <2> QED
    BY <1>2, <2>4, <2>5 DEF Stream
<1> QED
  BY <1>3, <1>4

(* What an append does to the elements of a channel.                       *)
LEMMA Appended ==
  ASSUME Typed, NEW r \in Requests, ch'[r] = Append(ch[r], Reading(seq))
  PROVE  /\ ch'[r] # <<>> /\ Len(ch'[r]) = Len(ch[r]) + 1
         /\ \A i \in 1..Len(ch[r]) : ch'[r][i] = ch[r][i]
         /\ ch'[r][Len(ch[r]) + 1] = Reading(seq)
<1>1. ch[r] \in Seq(Readings) /\ Reading(seq) \in Readings
  BY ReadingType DEF Typed, TypeOK
<1> QED
  BY <1>1, AppendProperties

(* A request no step is about.                                             *)
LEMMA Untouched ==
  ASSUME Typed, NEW r \in Requests, Stream(r), UNCHANGED <<mpc, seq>>,
         r \in todo' <=> r \in todo,
         ch'[r] = ch[r], hpc'[r] = hpc[r], msg'[r] = msg[r], view'[r] = view[r],
         open'[r] = open[r], missed'[r] = missed[r]
  PROVE  Stream(r)'
<1>1. WholeAt(r)'
  BY DEF Stream, WholeAt
<1>2. Ordered(r)'
  BY DEF Stream, Ordered, Awaits
<1>3. Due(r)' = Due(r)
  BY DEF Due
<1>4. Owed(r)'
  BY <1>3 DEF Stream, Owed, Covered
<1> QED
  BY <1>1, <1>2, <1>4 DEF Stream

LEMMA SendStream ==
  ASSUME Typed, StreamInv, NEW r \in Requests, PushSend(r)
  PROVE  StreamInv'
<1>1. ASSUME NEW q \in Requests, q # r
      PROVE  Stream(q)'
  BY <1>1, Offered, Untouched DEF StreamInv, PushSend
<1>2. mpc' = "broadcast" /\ seq' = seq /\ r \notin todo' /\ r \in todo
  BY DEF PushSend
<1>3. hpc' = hpc /\ msg' = msg /\ view' = view /\ open' = open
  BY DEF PushSend
<1>4. Due(r)' = seq /\ ~Awaits(r)' /\ Awaits(r)
  BY <1>2 DEF Due, Awaits
<1>5. ASSUME ch'[r] = Append(ch[r], Reading(seq))
      PROVE  Stream(r)'
  <2>1. WholeAt(r)'
    <3> SUFFICES ASSUME NEW i \in 1..Len(ch'[r])
                 PROVE  Whole(ch'[r][i])
      BY <1>3 DEF StreamInv, Stream, WholeAt
    <3>1. CASE i \in 1..Len(ch[r])
      BY <1>5, <3>1, Appended DEF StreamInv, Stream, WholeAt
    <3>2. CASE i = Len(ch[r]) + 1
      BY <1>5, <3>2, Appended, NoMsgWhole
    <3> QED
      BY <1>5, <3>1, <3>2, Appended, StreamTypes
  <2>2. Ordered(r)'
    <3>1. ASSUME NEW i \in 1..Len(ch'[r])
          PROVE  /\ ch'[r][i].info <= seq
                 /\ i <= Len(ch[r]) => ch'[r][i] = ch[r][i] /\ ch[r][i].info < seq
                 /\ i > Len(ch[r]) => i = Len(ch[r]) + 1 /\ ch'[r][i].info = seq
      <4>1. CASE i \in 1..Len(ch[r])
        BY <1>4, <1>5, <4>1, Appended, StreamTypes DEF StreamInv, Stream, Ordered
      <4>2. CASE i = Len(ch[r]) + 1
        BY <1>5, <4>2, Appended, NoMsgWhole, StreamTypes
      <4> QED
        BY <1>5, <4>1, <4>2, Appended, StreamTypes
    <3>2. ASSUME NEW i \in 1..Len(ch'[r]), NEW j \in 1..Len(ch'[r]), i < j
          PROVE  ch'[r][i].info < ch'[r][j].info
      BY <3>1, <3>2, <1>5, Appended, StreamTypes DEF StreamInv, Stream, Ordered
    <3>3. hpc[r] = "write" => msg[r].info < seq
      BY <1>4 DEF StreamInv, Stream, Ordered
    <3>4. ASSUME NEW i \in 1..Len(ch'[r]), hpc[r] = "write"
          PROVE  msg[r].info < ch'[r][i].info
      <4>1. CASE i \in 1..Len(ch[r])
        BY <3>1, <3>4, <4>1 DEF StreamInv, Stream, Ordered
      <4>2. CASE i = Len(ch[r]) + 1
        BY <3>1, <3>3, <3>4, <4>2, StreamTypes
      <4> QED
        BY <1>5, <4>1, <4>2, Appended, StreamTypes
    <3> QED
      BY <1>2, <1>3, <1>4, <3>1, <3>2, <3>3, <3>4, StreamTypes DEF Ordered
  <2>3. Owed(r)'
    <3>1. ch'[r] # <<>> /\ ch'[r][Len(ch'[r])].info = seq
      BY <1>5, Appended, NoMsgWhole
    <3> QED
      BY <1>4, <3>1, StreamTypes DEF Owed, Covered
  <2> QED
    BY <2>1, <2>2, <2>3 DEF Stream
<1>6. ASSUME ch'[r] = ch[r], missed'[r]
      PROVE  Stream(r)'
  <2>1. WholeAt(r)' /\ Owed(r)'
    BY <1>3, <1>6 DEF StreamInv, Stream, WholeAt, Owed
  <2>2. Ordered(r)
    BY DEF StreamInv, Stream
  <2>3. Ordered(r)'
    BY <1>2, <1>3, <1>4, <1>6, <2>2 DEF Ordered
  <2> QED
    BY <2>1, <2>3 DEF Stream
<1> QED
  BY <1>1, <1>5, <1>6, Offered DEF StreamInv

(* Steps of handlers.  What handleStatus and the snapshot copy is whole.   *)
LEMMA ReadWhole ==
  ASSUME Typed, LatestInv, MayRLock
  PROVE  latest = Reading(seq)
  BY DEF Typed, TypeOK, LatestInv, MayRLock, Writing

LEMMA QuietStream ==
  ASSUME Typed, StreamInv, NEW r \in Requests,
         Connect(r) \/ Disconnect(r) \/ Register(r) \/ ContextDone(r)
  PROVE  StreamInv'
<1>1. UNCHANGED <<pusher, ch, msg, missed>>
  BY DEF Connect, Disconnect, Register, ContextDone
<1>2. ASSUME NEW q \in Requests, q # r
      PROVE  Stream(q)'
  <2>1. hpc'[q] = hpc[q] /\ view'[q] = view[q] /\ open'[q] = open[q]
    BY <1>2 DEF Connect, Disconnect, Register, ContextDone, Goto, Typed, TypeOK
  <2> QED
    BY <1>1, <2>1, Untouched DEF StreamInv, pusher
<1>3. view'[r] \in {view[r], NoMsg} /\ Due(r)' = Due(r)
  BY <1>1 DEF Connect, Disconnect, Register, ContextDone, Typed, TypeOK, Due, pusher
<1>4. WholeAt(r)'
  BY <1>1, <1>3, NoMsgWhole DEF StreamInv, Stream, WholeAt
<1>5. hpc'[r] = hpc[r] \/ hpc'[r] \in {"register", "unregister"} \/ (hpc'[r] = "rlock" /\ ch[r] = <<>>)
  BY DEF Connect, Disconnect, Register, ContextDone, Goto, Typed, TypeOK, ClientInv, Registered
<1>6. Ordered(r)'
  BY <1>1, <1>5 DEF StreamInv, Stream, Ordered, Awaits, pusher
<1>7. hpc'[r] = "loop" => hpc[r] = "loop" /\ ~open'[r]
  BY DEF Connect, Disconnect, Register, ContextDone, Goto, Typed, TypeOK
<1>8. Owed(r)'
  BY <1>1, <1>3, <1>5, <1>7 DEF StreamInv, Stream, Owed, Covered
<1> QED
  BY <1>2, <1>4, <1>6, <1>8 DEF StreamInv, Stream

LEMMA ReadStream ==
  ASSUME Typed, LatestInv, StreamInv, NEW r \in Requests, RLock(r) \/ Status(r) \/ Answered(r)
  PROVE  StreamInv'
<1>1. UNCHANGED <<pusher, ch, view, open, missed>>
  BY DEF RLock, Status, Answered
<1>2. ASSUME NEW q \in Requests, q # r
      PROVE  Stream(q)'
  <2>1. hpc'[q] = hpc[q] /\ msg'[q] = msg[q]
    BY <1>2 DEF RLock, Status, Answered, Drop, Goto, Typed, TypeOK
  <2> QED
    BY <1>1, <1>2, <2>1, Untouched DEF StreamInv, pusher
<1>3. msg'[r] \in {Reading(seq), NoMsg}
  BY ReadWhole DEF RLock, Status, Answered, Drop, Typed, TypeOK
<1>4. WholeAt(r)'
  BY <1>1, <1>3, NoMsgWhole DEF StreamInv, Stream, WholeAt
<1>5. hpc'[r] \in {"none", "answer"} \/ (hpc[r] = "rlock" /\ hpc'[r] = "snapshot" /\ msg'[r] = Reading(seq))
  BY ReadWhole DEF RLock, Status, Answered, Goto, Typed, TypeOK
<1>6. Ordered(r)'
  BY <1>1, <1>5 DEF StreamInv, Stream, Ordered, Awaits, pusher
<1>7. Due(r)' = Due(r)
  BY <1>1 DEF Due, pusher
<1>8. Owed(r)'
  BY <1>1, <1>5, <1>7, NoMsgWhole, StreamTypes DEF StreamInv, Stream, Owed, Covered
<1> QED
  BY <1>2, <1>4, <1>6, <1>8 DEF StreamInv, Stream

LEMMA ShowStream ==
  ASSUME Typed, StreamInv, NEW r \in Requests, SnapshotSent(r) \/ Written(r) \/ WriteFails(r)
  PROVE  StreamInv'
<1>1. UNCHANGED <<pusher, ch, open, missed>>
  BY DEF SnapshotSent, Written, WriteFails
<1>2. msg' = [msg EXCEPT ![r] = NoMsg]
  BY DEF SnapshotSent, Written, WriteFails, Show, Drop
<1>3. view' = view \/ view' = [view EXCEPT ![r] = IF open[r] THEN msg[r] ELSE @]
  BY DEF SnapshotSent, Written, WriteFails, Show
<1>4. ASSUME NEW q \in Requests, q # r
      PROVE  Stream(q)'
  <2>1. hpc'[q] = hpc[q] /\ msg'[q] = msg[q] /\ view'[q] = view[q]
    BY <1>2, <1>3, <1>4 DEF SnapshotSent, Written, WriteFails, Goto, Typed, TypeOK
  <2> QED
    BY <1>1, <1>4, <2>1, Untouched DEF StreamInv, pusher
<1>5. msg'[r] = NoMsg /\ view'[r] \in {view[r], msg[r]}
  BY <1>2, <1>3 DEF Typed, TypeOK
<1>6. WholeAt(r)'
  BY <1>1, <1>5, NoMsgWhole DEF StreamInv, Stream, WholeAt
<1>7. hpc'[r] = "unregister"
      \/ (hpc'[r] = "loop" /\ hpc[r] \in {"snapshot", "write"} /\ (open[r] => view'[r] = msg[r]))
  BY DEF SnapshotSent, Written, WriteFails, Show, Goto, Typed, TypeOK
<1>8. Ordered(r)'
  BY <1>1, <1>7 DEF StreamInv, Stream, Ordered, Awaits, pusher
<1>9. Due(r)' = Due(r)
  BY <1>1 DEF Due, pusher
<1>10. Owed(r)'
  BY <1>1, <1>7, <1>9 DEF StreamInv, Stream, Owed, Covered
<1> QED
  BY <1>4, <1>6, <1>8, <1>10 DEF StreamInv, Stream

LEMMA UnregisterStream ==
  ASSUME Typed, StreamInv, NEW r \in Requests, Unregister(r)
  PROVE  StreamInv'
<1>1. UNCHANGED <<pusher, msg, open, view>>
  BY DEF Unregister
<1>2. ASSUME NEW q \in Requests, q # r
      PROVE  Stream(q)'
  <2>1. hpc'[q] = hpc[q] /\ ch'[q] = ch[q] /\ missed'[q] = missed[q]
    BY <1>2 DEF Unregister, Goto, Typed, TypeOK
  <2> QED
    BY <1>1, <1>2, <2>1, Untouched DEF StreamInv, pusher
<1>3. ch'[r] = <<>> /\ Len(ch'[r]) = 0 /\ hpc'[r] = "none"
  BY DEF Unregister, Goto, Typed, TypeOK
<1>4. Stream(r)'
  BY <1>1, <1>3 DEF StreamInv, Stream, WholeAt, Ordered, Owed
<1> QED
  BY <1>2, <1>4 DEF StreamInv

LEMMA ReceiveStream ==
  ASSUME Typed, StreamInv, NEW r \in Requests, Receive(r)
  PROVE  StreamInv'
<1>1. UNCHANGED <<pusher, open, view, missed>>
  BY DEF Receive
<1>2. ASSUME NEW q \in Requests, q # r
      PROVE  Stream(q)'
  <2>1. hpc'[q] = hpc[q] /\ ch'[q] = ch[q] /\ msg'[q] = msg[q]
    BY <1>2 DEF Receive, Goto, Typed, TypeOK
  <2> QED
    BY <1>1, <1>2, <2>1, Untouched DEF StreamInv, pusher
<1>3. hpc[r] = "loop" /\ hpc'[r] = "write" /\ msg'[r] = Head(ch[r]) /\ ch'[r] = Tail(ch[r])
  BY DEF Receive, Goto, Typed, TypeOK
<1>4. ch[r] \in Seq(Readings) /\ ch[r] # <<>> /\ Len(ch[r]) \in Nat \ {0}
  BY StreamTypes DEF Receive
<1>5. /\ msg'[r] = ch[r][1] /\ Len(ch'[r]) = Len(ch[r]) - 1
      /\ \A i \in 1..Len(ch'[r]) : ch'[r][i] = ch[r][i + 1] /\ i + 1 \in 1..Len(ch[r])
      /\ ch'[r] = <<>> <=> Len(ch[r]) = 1
  <2>1. /\ Tail(ch[r]) \in Seq(Readings) /\ Head(ch[r]) = ch[r][1]
        /\ Len(Tail(ch[r])) = Len(ch[r]) - 1
        /\ \A i \in 1..Len(Tail(ch[r])) : Tail(ch[r])[i] = ch[r][i + 1]
    BY <1>4, HeadTailProperties
  <2>2. Tail(ch[r]) = <<>> <=> Len(Tail(ch[r])) = 0
    BY <2>1, EmptySeq
  <2>3. \A i \in 1..Len(ch[r]) - 1 : i + 1 \in 1..Len(ch[r])
    BY <1>4
  <2> QED
    BY <1>3, <1>4, <2>1, <2>2, <2>3
<1>6. WholeAt(r)'
  BY <1>1, <1>4, <1>5 DEF StreamInv, Stream, WholeAt
<1>7. Ordered(r)'
  <2>1. Ordered(r) /\ seq' = seq /\ (Awaits(r)' <=> Awaits(r))
    BY <1>1 DEF StreamInv, Stream, Awaits, pusher
  <2>2. ASSUME NEW i \in 1..Len(ch'[r])
        PROVE  /\ ch'[r][i].info <= seq
               /\ Awaits(r) => ch'[r][i].info < seq
               /\ msg'[r].info < ch'[r][i].info
    BY <1>4, <1>5, <2>1 DEF Ordered
  <2>3. ASSUME NEW i \in 1..Len(ch'[r]), NEW j \in 1..Len(ch'[r]), i < j
        PROVE  ch'[r][i].info < ch'[r][j].info
    <3>1. i + 1 < j + 1
      BY <1>4, <1>5, <2>3
    <3> QED
      BY <1>5, <2>1, <3>1 DEF Ordered
  <2>4. msg'[r].info <= seq /\ (Awaits(r) => msg'[r].info < seq)
    BY <1>4, <1>5, <2>1 DEF Ordered
  <2> QED
    BY <2>1, <2>2, <2>3, <2>4 DEF Ordered
<1>8. Owed(r)'
  <2>1. Due(r)' = Due(r)
    BY <1>1 DEF Due, pusher
  <2>2. IF ch'[r] = <<>> THEN msg'[r] = ch[r][Len(ch[r])] ELSE ch'[r][Len(ch'[r])] = ch[r][Len(ch[r])]
    <3>1. CASE Len(ch[r]) = 1
      BY <1>5, <3>1
    <3>2. CASE Len(ch[r]) # 1
      <4>1. Len(ch'[r]) \in 1..Len(ch'[r]) /\ Len(ch'[r]) + 1 = Len(ch[r])
        BY <1>4, <1>5, <3>2
      <4> QED
        BY <1>5, <3>2, <4>1
    <3> QED
      BY <3>1, <3>2
  <2> QED
    BY <1>1, <1>3, <1>4, <2>1, <2>2 DEF StreamInv, Stream, Owed, Covered
<1> QED
  BY <1>2, <1>6, <1>7, <1>8 DEF StreamInv, Stream

LEMMA NextStream == Typed /\ LatestInv /\ StreamInv /\ [Next]_vars => StreamInv'
<1> SUFFICES ASSUME Typed, LatestInv, StreamInv, [Next]_vars
             PROVE  StreamInv'
  OBVIOUS
<1>1. CASE CloseStop \/ Shutdown \/ UNCHANGED vars
  <2>1. UNCHANGED <<pusher, request>>
    BY <1>1 DEF CloseStop, Shutdown, vars
  <2> QED
    BY <2>1, Untouched DEF StreamInv, pusher, request
<1> QED
  BY <1>1, PushStream, SendStream, QuietStream, ReadStream, ShowStream, UnregisterStream,
     ReceiveStream DEF StreamInv, Next, Monitor, Handler, Ended

-----------------------------------------------------------------------------
(* Nobody is shown or sent the percentage of one reading with the rate of  *)
(* another, though Push assigns the fields one by one.                     *)
THEOREM NothingTorn == Spec => []NoTornRead
<1>1. StreamInv => NoTornRead
  BY DEF StreamInv, Stream, WholeAt, NoTornRead
<1> QED
  BY <1>1, InitTypes, NextTypes, InitLatest, NextLatest, InitStream, NextStream, PTL DEF Spec

-----------------------------------------------------------------------------
(* What is on its way to the watched tab is not older than it may be; what *)
(* has yet to be sent it is not either.                                    *)
FloorInv ==
  /\ floor <= seq + 1
  /\ Awaits(Watched) => floor <= seq
  /\ \A i \in 1..Len(ch[Watched]) : floor <= ch[Watched][i].info
  /\ hpc[Watched] = "write" => floor <= msg[Watched].info

LEMMA InitFloor == Init => FloorInv
  BY SizesOK DEF SizesOK, Init, FloorInv, Awaits

LEMMA PushFloor ==
  ASSUME Typed, FloorInv,
         PushBegin \/ PushInfo \/ PushCap \/ PushRate \/ PushLockClients \/ PushEnd \/ RunStops
  PROVE  FloorInv'
<1>1. UNCHANGED request
  BY DEF PushBegin, PushInfo, PushCap, PushRate, PushLockClients, PushEnd, RunStops
<1>2. CASE PushBegin
  BY <1>1, <1>2, SizesOK DEF SizesOK, Typed, TypeOK, FloorInv, PushBegin, request
<1>3. CASE ~PushBegin
  <2>1. seq' = seq
    BY <1>3 DEF PushInfo, PushCap, PushRate, PushLockClients, PushEnd, RunStops
  <2>2. Awaits(Watched)' => Awaits(Watched)
    BY <1>3 DEF PushInfo, PushCap, PushRate, PushLockClients, PushEnd, RunStops, Awaits
  <2> QED
    BY <1>1, <2>1, <2>2 DEF FloorInv, request
<1> QED
  BY <1>2, <1>3

LEMMA SendFloor ==
  ASSUME Typed, FloorInv, NEW r \in Requests, PushSend(r)
  PROVE  FloorInv'
<1>1. UNCHANGED <<mpc, seq, hpc, msg, floor>>
  BY DEF PushSend
<1>2. Awaits(Watched)' => Awaits(Watched)
  BY <1>1 DEF PushSend, Awaits
<1>3. ASSUME NEW i \in 1..Len(ch'[Watched])
      PROVE  floor <= ch'[Watched][i].info
  <2>1. CASE r # Watched \/ ch'[r] = ch[r]
    BY <1>3, <2>1, Offered, SizesOK DEF SizesOK, FloorInv
  <2>2. CASE r = Watched /\ ch'[r] = Append(ch[r], Reading(seq))
    <3>1. Awaits(Watched)
      BY <2>2 DEF PushSend, Awaits
    <3>2. CASE i \in 1..Len(ch[r])
      BY <2>2, <3>2, Appended DEF FloorInv
    <3>3. CASE i = Len(ch[r]) + 1
      BY <2>2, <3>1, <3>3, Appended, NoMsgWhole DEF FloorInv
    <3> QED
      BY <1>3, <2>2, <3>2, <3>3, Appended, StreamTypes
  <2> QED
    BY <2>1, <2>2, Offered
<1> QED
  BY <1>1, <1>2, <1>3 DEF FloorInv

LEMMA HandlerFloor ==
  ASSUME Typed, StreamInv, FloorInv, NEW r \in Requests,
         \/ Connect(r) \/ Disconnect(r) \/ Register(r) \/ RLock(r) \/ SnapshotSent(r) \/ Receive(r)
         \/ Written(r) \/ WriteFails(r) \/ ContextDone(r) \/ Unregister(r) \/ Status(r) \/ Answered(r)
  PROVE  FloorInv'
<1> USE SizesOK DEF SizesOK
<1>1. UNCHANGED pusher /\ (Awaits(Watched)' <=> Awaits(Watched))
  BY DEF Connect, Disconnect, Register, RLock, SnapshotSent, Receive, Written, WriteFails,
     ContextDone, Unregister, Status, Answered, Awaits, pusher
<1>2. CASE r # Watched
  <2>1. floor' = floor /\ ch'[Watched] = ch[Watched]
    BY <1>2 DEF Connect, Disconnect, Register, RLock, SnapshotSent, Receive, Written, WriteFails,
       ContextDone, Unregister, Status, Answered, Typed, TypeOK
  <2>2. hpc'[Watched] = hpc[Watched]
    BY <1>2 DEF Connect, Disconnect, Register, RLock, SnapshotSent, Receive, Written, WriteFails,
       ContextDone, Unregister, Status, Answered, Goto, Typed, TypeOK
  <2>3. msg'[Watched] = msg[Watched]
    BY <1>2 DEF Connect, Disconnect, Register, RLock, SnapshotSent, Receive, Written, WriteFails,
       ContextDone, Unregister, Status, Answered, Drop, Show, Typed, TypeOK
  <2> QED
    BY <1>1, <2>1, <2>2, <2>3 DEF FloorInv, pusher
<1> USE DEF Typed, TypeOK
<1>3. CASE r = Watched /\ Disconnect(r)
  BY <1>1, <1>3, StreamTypes DEF Disconnect, FloorInv, pusher
<1>4. CASE r = Watched /\ Register(r)
  <2>1. ch'[Watched] = <<>> /\ hpc'[Watched] = "rlock" /\ floor' \in {floor, seq}
    BY <1>4 DEF Register, Goto, ClientInv, Registered
  <2> QED
    BY <1>1, <2>1, StreamTypes DEF FloorInv, pusher
<1>5. CASE r = Watched /\ Written(r)
  <2>1. ch' = ch /\ hpc'[Watched] = "loop" /\ hpc[Watched] = "write"
    BY <1>5 DEF Written, Goto
  <2>2. floor' \in {floor, msg[Watched].info + 1}
    BY <1>5 DEF Written
  <2>3. Ordered(Watched) /\ msg[Watched].info \in Nat /\ seq \in Nat
    BY StreamTypes DEF StreamInv, Stream
  <2>4. \A i \in 1..Len(ch[Watched]) : ch[Watched][i].info \in Nat
    BY StreamTypes
  <2> QED
    BY <1>1, <2>1, <2>2, <2>3, <2>4 DEF FloorInv, Ordered, pusher
<1>6. CASE r = Watched /\ Receive(r)
  <2>1. ch[Watched] \in Seq(Readings) /\ ch[Watched] # <<>> /\ floor' = floor
    BY <1>6 DEF Receive
  <2>2. ch'[Watched] = Tail(ch[Watched]) /\ msg'[Watched] = Head(ch[Watched])
    BY <1>6 DEF Receive
  <2>3. /\ Head(ch[Watched]) = ch[Watched][1] /\ Len(Tail(ch[Watched])) = Len(ch[Watched]) - 1
        /\ \A i \in 1..Len(Tail(ch[Watched])) : Tail(ch[Watched])[i] = ch[Watched][i + 1]
    BY <2>1, HeadTailProperties
  <2>4. 1 \in 1..Len(ch[Watched]) /\ \A i \in 1..Len(ch'[Watched]) : i + 1 \in 1..Len(ch[Watched])
    BY <2>1, <2>2, <2>3, StreamTypes
  <2> QED
    BY <1>1, <2>1, <2>2, <2>3, <2>4 DEF FloorInv, pusher
<1>7. CASE r = Watched /\ Unregister(r)
  BY <1>1, <1>7 DEF Unregister, Goto, FloorInv, pusher
<1>8. CASE /\ r = Watched
           /\ Connect(r) \/ RLock(r) \/ SnapshotSent(r) \/ WriteFails(r) \/ ContextDone(r)
              \/ Status(r) \/ Answered(r)
  <2>1. floor' = floor /\ ch' = ch
    BY <1>8 DEF Connect, RLock, SnapshotSent, WriteFails, ContextDone, Status, Answered
  <2>2. hpc'[Watched] # "write"
    BY <1>8 DEF Connect, RLock, SnapshotSent, WriteFails, ContextDone, Status, Answered, Goto
  <2> QED
    BY <1>1, <2>1, <2>2 DEF FloorInv, pusher
<1> QED
  BY <1>2, <1>3, <1>4, <1>5, <1>6, <1>7, <1>8

LEMMA NextFloor == Typed /\ StreamInv /\ FloorInv /\ [Next]_vars => FloorInv'
<1> SUFFICES ASSUME Typed, StreamInv, FloorInv, [Next]_vars
             PROVE  FloorInv'
  OBVIOUS
<1>1. CASE CloseStop \/ Shutdown \/ UNCHANGED vars
  <2>1. UNCHANGED <<pusher, request>>
    BY <1>1 DEF CloseStop, Shutdown, vars
  <2> QED
    BY <2>1 DEF FloorInv, Awaits, pusher, request
<1> QED
  BY <1>1, PushFloor, SendFloor, HandlerFloor DEF Next, Monitor, Handler, Ended

(* Any mix of full channels, slow writes and broadcasts takes a tab back   *)
(* from its snapshot to the reading that was the latest when its channel   *)
(* was registered, at most, and brings newer and newer readings after.     *)
THEOREM BackAtMostOnce == Spec => BackOnce
<1>1. Typed /\ StreamInv /\ FloorInv /\ [Next]_vars
      => [Written(Watched) /\ open[Watched] => view'[Watched].info >= floor]_vars
  <2> SUFFICES ASSUME Typed, StreamInv, FloorInv, Written(Watched), open[Watched]
               PROVE  view'[Watched].info >= floor
    OBVIOUS
  <2>1. view'[Watched] = msg[Watched] /\ hpc[Watched] = "write"
    BY SizesOK DEF SizesOK, Written, Show, Typed, TypeOK
  <2>2. floor <= msg[Watched].info /\ floor \in Nat /\ msg[Watched].info \in Nat
    BY <2>1, StreamTypes, SizesOK DEF SizesOK, FloorInv, Typed, TypeOK
  <2> QED
    BY <2>1, <2>2
<1> QED
  BY <1>1, InitTypes, NextTypes, InitLatest, NextLatest, InitStream, NextStream, InitFloor, NextFloor,
     PTL DEF Spec, BackOnce

-----------------------------------------------------------------------------
(* What waits for a tab, with what is being written.                       *)
LEMMA PendingIs ==
  ASSUME Typed, NEW r \in Requests
  PROVE  IF hpc[r] = "write"
         THEN /\ Len(Pending(r)) = Len(ch[r]) + 1
              /\ Pending(r)[1] = msg[r]
              /\ \A i \in 1..Len(ch[r]) : Pending(r)[i + 1] = ch[r][i]
         ELSE Pending(r) = ch[r]
<1>1. ch[r] \in Seq(Readings) /\ <<msg[r]>> \in Seq(Readings) /\ Len(<<msg[r]>>) = 1
  BY DEF Typed, TypeOK
<1>2. CASE hpc[r] = "write"
  <2>1. Pending(r) = <<msg[r]>> \o ch[r]
    BY <1>2 DEF Pending
  <2>2. Len(ch[r]) \in Nat
    BY <1>1, LenProperties
  <2> QED
    BY <1>1, <1>2, <2>1, <2>2, ConcatProperties
<1>3. CASE hpc[r] # "write"
  BY <1>1, <1>3, ConcatEmptySeq DEF Pending
<1> QED
  BY <1>2, <1>3

(* Nothing falls between the snapshot and the stream: unless its channel   *)
(* was full, a connected tab ends on the last reading broadcast.           *)
THEOREM NothingMissed == Spec => []NoGap
<1>1. Typed /\ StreamInv => NoGap
  <2> SUFFICES ASSUME Typed, StreamInv, NEW r \in Requests,
                      hpc[r] \in {"loop", "write"}, open[r], ~missed[r]
               PROVE  Final(r) >= Due(r)
    BY DEF NoGap
  <2>1. Covered(r) /\ Len(ch[r]) \in Nat /\ (ch[r] = <<>> <=> Len(ch[r]) = 0)
    BY StreamTypes DEF StreamInv, Stream, Owed
  <2>2. CASE hpc[r] = "loop"
    BY <2>1, <2>2, PendingIs DEF Final, Covered
  <2>3. CASE hpc[r] = "write"
    <3>1. Len(Pending(r)) = Len(ch[r]) + 1 /\ Pending(r) # <<>>
      BY <2>1, <2>3, PendingIs
    <3>2. CASE ch[r] = <<>>
      BY <2>1, <2>3, <3>1, <3>2, PendingIs DEF Final, Covered
    <3>3. CASE ch[r] # <<>>
      BY <2>1, <2>3, <3>1, <3>3, PendingIs DEF Final, Covered
    <3> QED
      BY <3>2, <3>3
  <2> QED
    BY <2>2, <2>3
<1> QED
  BY <1>1, InitTypes, NextTypes, InitLatest, NextLatest, InitStream, NextStream, PTL DEF Spec
=============================================================================
