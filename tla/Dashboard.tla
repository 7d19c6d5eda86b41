----------------------------- MODULE Dashboard -----------------------------
(***************************************************************************)
(* The live stream of web/server.go.  The monitor's goroutine calls Push   *)
(* for every reading; each browser tab holds a request of handleStream;    *)
(* handleStatus reads on demand.  They share the latest reading, under the *)
(* RWMutex mu, and the set of client channels, under clientMu.             *)
(*                                                                         *)
(* A reading is the number of the Push that brought it.  The reading has   *)
(* three fields (latest, latestCap, latestRate) which Push assigns one by  *)
(* one.  A critical section that cannot block is one step; those of Push   *)
(* and the snapshot of handleStream, which writes to the network while it  *)
(* holds mu, span several.                                                 *)
(***************************************************************************)
EXTENDS Naturals, Sequences

CONSTANTS
  Requests,   \* requests of /api/stream
  Watched,    \* one of them, any, of which a history is kept
  ChanCap,    \* capacity of a client channel, 4 in the code
  MaxPush     \* bound on the readings pushed

ASSUME SizesOK == ChanCap \in Nat \ {0} /\ MaxPush \in Nat /\ Watched \in Requests

VARIABLES
  mpc,        \* where the monitor's goroutine is
  seq,        \* number of the last Push begun, 0 before the first
  latest,     \* the three fields: [info, cap, rate]
  todo,       \* clients the running broadcast has still to visit
  clients,    \* requests whose channel is registered
  ch,         \* the channel of each request
  hpc,        \* where the handler of each request is
  msg,        \* what a handler has read and is writing out, else NoMsg
  open,       \* the connection of the request is up
  view,       \* what the tab shows of this connection, NoMsg when it is down
  missed,     \* the last message for the request did not fit its channel
  floor,      \* history: the oldest reading that Watched may still bring its tab
  stop,       \* the stop channel is closed
  listening   \* the server accepts connections

pusher == <<mpc, seq, latest, todo>>
request == <<clients, ch, hpc, msg, open, view, missed, floor>>
vars == <<pusher, request, stop, listening>>

Reading(n) == [info |-> n, cap |-> n, rate |-> n]
NoMsg == Reading(0)
Readings == [info : 0..MaxPush, cap : 0..MaxPush, rate : 0..MaxPush]

Init ==
  /\ mpc = "wait" /\ seq = 0 /\ latest = Reading(0) /\ todo = {}
  /\ clients = {}
  /\ ch = [r \in Requests |-> <<>>]
  /\ hpc = [r \in Requests |-> "none"]
  /\ msg = [r \in Requests |-> NoMsg]
  /\ open = [r \in Requests |-> FALSE]
  /\ view = [r \in Requests |-> NoMsg]
  /\ missed = [r \in Requests |-> FALSE]
  /\ floor = 0
  /\ stop = FALSE /\ listening = TRUE

-----------------------------------------------------------------------------
(* The locks.  A Lock that waits keeps new readers out (sync.RWMutex).     *)
Snapshotting == {r \in Requests : hpc[r] = "snapshot"}
Writing == mpc \in {"setCap", "setRate"}
MayRLockFirst == ~Writing   \* mistaken: readers go before a waiting writer
MayRLock == mpc # "lock" /\ ~Writing
MayLock == Snapshotting = {}
ClientsFree == mpc # "broadcast"

Goto(r, place) == hpc' = [hpc EXCEPT ![r] = place]

-----------------------------------------------------------------------------
(* The monitor's goroutine: Push, then back to its select.  The first poll *)
(* comes before the first look at the stop channel.                        *)
PushBegin ==
  /\ mpc = "wait" /\ seq < MaxPush
  /\ ~stop \/ seq = 0
  /\ mpc' = "lock"
  /\ seq' = seq + 1
  /\ UNCHANGED <<latest, todo, request, stop, listening>>

PushInfo ==
  /\ mpc = "lock" /\ MayLock
  /\ mpc' = "setCap"
  /\ latest' = [latest EXCEPT !.info = seq]
  /\ UNCHANGED <<seq, todo, request, stop, listening>>

PushCap ==
  /\ mpc = "setCap"
  /\ mpc' = "setRate"
  /\ latest' = [latest EXCEPT !.cap = seq]
  /\ UNCHANGED <<seq, todo, request, stop, listening>>

PushRate ==
  /\ mpc = "setRate"
  /\ mpc' = "clients"
  /\ latest' = [latest EXCEPT !.rate = seq]
  /\ UNCHANGED <<seq, todo, request, stop, listening>>

PushLockClients ==
  /\ mpc = "clients"
  /\ mpc' = "broadcast"
  /\ todo' = clients
  /\ UNCHANGED <<seq, latest, request, stop, listening>>

OfferIfEmpty(r) ==   \* mistaken: a client with a message waiting gets no other
  /\ ch' = IF ch[r] = <<>> THEN [ch EXCEPT ![r] = <<Reading(seq)>>] ELSE ch
  /\ missed' = [missed EXCEPT ![r] = Len(ch[r]) >= ChanCap]

OfferOver(r) ==   \* mistaken: a full channel has its oldest message replaced
  /\ ch' = [ch EXCEPT ![r] = IF Len(@) < ChanCap THEN Append(@, Reading(seq))
                             ELSE <<Reading(seq)>> \o Tail(@)]
  /\ missed' = [missed EXCEPT ![r] = FALSE]

OfferUnbounded(r) ==   \* mistaken: the channel has no capacity
  /\ ch' = [ch EXCEPT ![r] = Append(@, Reading(seq))]
  /\ missed' = [missed EXCEPT ![r] = FALSE]

OfferBlocks(r) ==   \* mistaken: the select has no default
  /\ Len(ch[r]) < ChanCap
  /\ OfferUnbounded(r)

(* The select with a default: a full channel is passed over.               *)
Offer(r) ==
  /\ IF Len(ch[r]) < ChanCap
     THEN ch' = [ch EXCEPT ![r] = Append(@, Reading(seq))]
     ELSE ch' = ch
  /\ missed' = [missed EXCEPT ![r] = Len(ch[r]) >= ChanCap]

(* The range over the map visits the channels in any order.                *)
PushSend(r) ==
  /\ mpc = "broadcast" /\ r \in todo
  /\ todo' = todo \ {r}
  /\ Offer(r)
  /\ UNCHANGED <<mpc, seq, latest, clients, hpc, msg, open, view, floor, stop, listening>>

PushEnd ==
  /\ mpc = "broadcast" /\ todo = {}
  /\ mpc' = "wait"
  /\ UNCHANGED <<seq, latest, todo, request, stop, listening>>

RunStops ==
  /\ mpc = "wait" /\ stop
  /\ mpc' = "stopped"
  /\ UNCHANGED <<seq, latest, todo, request, stop, listening>>

Monitor ==
  \/ PushBegin \/ PushInfo \/ PushCap \/ PushRate \/ PushLockClients
  \/ (\E r \in Requests : PushSend(r)) \/ PushEnd \/ RunStops

-----------------------------------------------------------------------------
(* A tab opens the stream; its connection may go down at any time.         *)
Connect(r) ==
  /\ hpc[r] = "none" /\ listening
  /\ Goto(r, "register")
  /\ open' = [open EXCEPT ![r] = TRUE]
  /\ UNCHANGED <<pusher, clients, ch, msg, view, missed, floor, stop, listening>>

Disconnect(r) ==
  /\ open[r]
  /\ open' = [open EXCEPT ![r] = FALSE]
  /\ view' = [view EXCEPT ![r] = NoMsg]
  /\ floor' = IF r = Watched THEN 0 ELSE floor
  /\ UNCHANGED <<pusher, clients, ch, hpc, msg, missed, stop, listening>>

(* handleStream.  The channel is registered before the snapshot is taken.  *)
Register(r) ==
  /\ hpc[r] = "register" /\ ClientsFree
  /\ Goto(r, "rlock")
  /\ clients' = clients \cup {r}
  /\ floor' = IF r = Watched /\ open[r] THEN seq ELSE floor
  /\ UNCHANGED <<pusher, ch, msg, open, view, missed, stop, listening>>

RLock(r) ==
  /\ hpc[r] = "rlock" /\ MayRLock
  /\ Goto(r, "snapshot")
  /\ msg' = [msg EXCEPT ![r] = latest]
  /\ UNCHANGED <<pusher, clients, ch, open, view, missed, floor, stop, listening>>

(* A write reaches the tab while the connection is up.  Errors of the      *)
(* snapshot's write are ignored.                                           *)
Drop(r) == msg' = [msg EXCEPT ![r] = NoMsg]
Show(r) == view' = [view EXCEPT ![r] = IF open[r] THEN msg[r] ELSE @] /\ Drop(r)

SnapshotSent(r) ==
  /\ hpc[r] = "snapshot"
  /\ Goto(r, "loop")
  /\ Show(r)
  /\ UNCHANGED <<pusher, clients, ch, open, missed, floor, stop, listening>>

Receive(r) ==
  /\ hpc[r] = "loop" /\ ch[r] # <<>>
  /\ Goto(r, "write")
  /\ msg' = [msg EXCEPT ![r] = Head(ch[r])]
  /\ ch' = [ch EXCEPT ![r] = Tail(@)]
  /\ UNCHANGED <<pusher, clients, open, view, missed, floor, stop, listening>>

(* A write to a dead connection fails, or is swallowed by its buffer.      *)
WrittenUnflushed(r) ==   \* mistaken: no Flush
  /\ hpc[r] = "write"
  /\ Goto(r, "loop")
  /\ Drop(r)
  /\ floor' = IF r = Watched /\ open[r] THEN msg[r].info + 1 ELSE floor
  /\ UNCHANGED <<pusher, clients, ch, open, view, missed, stop, listening>>

Written(r) ==
  /\ hpc[r] = "write"
  /\ Goto(r, "loop")
  /\ Show(r)
  /\ floor' = IF r = Watched /\ open[r] THEN msg[r].info + 1 ELSE floor
  /\ UNCHANGED <<pusher, clients, ch, open, missed, stop, listening>>

WriteFails(r) ==
  /\ hpc[r] = "write" /\ ~open[r]
  /\ Goto(r, "unregister")
  /\ Drop(r)
  /\ UNCHANGED <<pusher, clients, ch, open, view, missed, floor, stop, listening>>

ContextIgnored(r) == FALSE /\ UNCHANGED vars   \* mistaken: only a failed write ends the handler

ContextDone(r) ==
  /\ hpc[r] = "loop" /\ ~open[r]
  /\ Goto(r, "unregister")
  /\ UNCHANGED <<pusher, clients, ch, msg, open, view, missed, floor, stop, listening>>

(* The deferred delete; the channel is garbage once the handler returns.   *)
Unregister(r) ==
  /\ hpc[r] = "unregister" /\ ClientsFree
  /\ Goto(r, "none")
  /\ clients' = clients \ {r}
  /\ ch' = [ch EXCEPT ![r] = <<>>]
  /\ missed' = [missed EXCEPT ![r] = FALSE]
  /\ UNCHANGED <<pusher, msg, open, view, floor, stop, listening>>

StatusUnlocked(r) ==   \* mistaken: no RLock
  /\ hpc[r] = "none" /\ listening
  /\ Goto(r, "answer")
  /\ msg' = [msg EXCEPT ![r] = latest]
  /\ UNCHANGED <<pusher, clients, ch, open, view, missed, floor, stop, listening>>

(* handleStatus, another request of the tab, copies the three fields under *)
(* the read lock and writes them out after it.                             *)
Status(r) ==
  /\ hpc[r] = "none" /\ listening /\ MayRLock
  /\ Goto(r, "answer")
  /\ msg' = [msg EXCEPT ![r] = latest]
  /\ UNCHANGED <<pusher, clients, ch, open, view, missed, floor, stop, listening>>

Answered(r) ==
  /\ hpc[r] = "answer"
  /\ Goto(r, "none")
  /\ Drop(r)
  /\ UNCHANGED <<pusher, clients, ch, open, view, missed, floor, stop, listening>>

Handler(r) ==
  \/ Register(r) \/ RLock(r) \/ SnapshotSent(r) \/ Receive(r)
  \/ WriteFails(r) \/ ContextDone(r) \/ Unregister(r)

-----------------------------------------------------------------------------
(* Cancelling the context closes stop (main.go) and shuts the server down  *)
(* (Start); Shutdown closes the listener and leaves the streams alone.     *)
CloseStop ==
  /\ ~stop
  /\ stop' = TRUE
  /\ UNCHANGED <<pusher, request, listening>>

Shutdown ==
  /\ stop /\ listening
  /\ listening' = FALSE
  /\ UNCHANGED <<pusher, request, stop>>

(* Nothing is left to do: the program is about to end.                     *)
Ended ==
  /\ mpc = "stopped" /\ ~listening
  /\ \A r \in Requests : hpc[r] = "none" /\ ~open[r]
  /\ UNCHANGED vars

Next ==
  \/ Monitor
  \/ \E r \in Requests :
       \/ Connect(r) \/ Disconnect(r) \/ Handler(r) \/ Written(r)
       \/ Status(r) \/ Answered(r)
  \/ CloseStop \/ Shutdown \/ Ended

(* Goroutines are scheduled and select picks a ready case at random.  A    *)
(* handler in the loop may find its write blocked for as long as the tab   *)
(* does not read, so Written has no fairness; the snapshot, a few hundred  *)
(* bytes into an empty socket buffer, is taken to be written.              *)
Fairness ==
  /\ WF_vars(Monitor) /\ SF_vars(RunStops)
  /\ \A r \in Requests : WF_vars(Handler(r)) /\ SF_vars(ContextDone(r))

Spec == Init /\ [][Next]_vars
FairSpec == Spec /\ Fairness

-----------------------------------------------------------------------------
(* Types of the shared state and of the goroutines' state.                 *)
TypeOK ==
  /\ mpc \in {"wait", "lock", "setCap", "setRate", "clients", "broadcast", "stopped"}
  /\ seq \in 0..MaxPush /\ latest \in Readings
  /\ clients \subseteq Requests /\ todo \subseteq clients
  /\ ch \in [Requests -> Seq(Readings)]
  /\ \A r \in Requests : Len(ch[r]) <= ChanCap
  /\ hpc \in [Requests -> {"none", "register", "rlock", "snapshot", "loop", "write", "unregister",
                       "answer"}]
  /\ msg \in [Requests -> Readings] /\ view \in [Requests -> Readings]
  /\ open \in [Requests -> BOOLEAN] /\ missed \in [Requests -> BOOLEAN]
  /\ floor \in 0..MaxPush + 1
  /\ stop \in BOOLEAN /\ listening \in BOOLEAN

(* Nobody is shown the percentage of one reading with the rate of another: *)
(* Push assigns three fields, every reader sees them together.             *)
Whole(reading) == reading.info = reading.cap /\ reading.cap = reading.rate

NoTornRead == \A r \in Requests : Whole(msg[r]) /\ Whole(view[r])

(* The channel is registered before the snapshot is taken                  *)
(* (server.go:187-202) and may hold readings that the snapshot is ahead    *)
(* of: the stream's first message may show a tab the same reading again,   *)
(* or take it back, though not behind the reading that was the latest one  *)
(* when it was registered.  From then on each message is newer than those  *)
(* before, across any mix of full channels, slow writes and broadcasts.    *)
BackOnce ==
  [][Written(Watched) /\ open[Watched] => view'[Watched].info >= floor]_vars

(* What the stream has still to bring a tab that has its snapshot, oldest  *)
(* first, and the reading it ends on if no other is pushed.                *)
Pending(r) == (IF hpc[r] = "write" THEN <<msg[r]>> ELSE <<>>) \o ch[r]

Final(r) == IF Pending(r) = <<>> THEN view[r].info ELSE Pending(r)[Len(Pending(r))].info

(* The last reading the broadcasts owe to a client.                        *)
Due(r) ==
  IF mpc \in {"wait", "stopped"} \/ (mpc = "broadcast" /\ r \notin todo) THEN seq ELSE seq - 1

(* No reading falls between the snapshot and the stream: a connected tab   *)
(* ends on the last reading broadcast, unless its channel was full then.   *)
NoGap ==
  \A r \in Requests :
    hpc[r] \in {"loop", "write"} /\ open[r] /\ ~missed[r] => Final(r) >= Due(r)

-----------------------------------------------------------------------------
(* No tab, reading or not, gone or not, keeps Push from returning to the   *)
(* poll loop.                                                              *)
PushReturns == mpc # "wait" ~> mpc \in {"wait", "stopped"}

(* The channel of a connection that went down is forgotten.                *)
GoneUnregistered == \A r \in Requests : ~open[r] ~> r \notin clients

(* A tab that keeps reading and was not passed over comes to show the      *)
(* latest reading once no new ones come.                                   *)
Converges ==
  \A r \in Requests :
    /\ <>[](hpc[r] \in {"loop", "write"} /\ open[r] /\ ~missed[r])
    /\ []<>(hpc[r] = "loop")
    => <>[](view[r] = Reading(seq))
=============================================================================
