------------------------------- MODULE LogBuf -------------------------------
(***************************************************************************)
(* The in-memory log of logbuf/logbuf.go and the ways into it.  Each       *)
(* log.Logger serialises its own messages and writes one through an        *)
(* io.MultiWriter, sink by sink, stopping at the first that fails; the     *)
(* last sink is the Buffer, which the loggers share.  /api/logs reads it.  *)
(*                                                                         *)
(* A line is the logger's name with the number of its message.  Loggers    *)
(* put a time stamp before every message, so the return of Write for an    *)
(* empty line is never taken.                                              *)
(***************************************************************************)
EXTENDS Naturals, Sequences

CONSTANTS
  Loggers,     \* the global logger and that of monitor.New
  Sinks,       \* for each logger the number of sinks before the Buffer
  MayFail,     \* the loggers one of whose sinks before the Buffer may fail
  MaxLines,    \* 500 in the code
  MaxMessages  \* bound on the messages of one logger

ASSUME LogSizesOK ==
  /\ Sinks \in [Loggers -> Nat]
  /\ MayFail \subseteq Loggers
  /\ MaxLines \in Nat \ {0} /\ MaxMessages \in Nat

VARIABLES
  lpc,      \* where a logger is: "idle", "sinks" or "trim"
  left,     \* sinks it has still to write before the Buffer
  sent,     \* messages it has begun
  lines,    \* Buffer.lines
  written,  \* history: every line appended to the Buffer
  answer    \* the last answer of Lines

vars == <<lpc, left, sent, lines, written, answer>>

Line(l, n) == [by |-> l, no |-> n]
AllLines == [by : Loggers, no : 1..MaxMessages]

Init ==
  /\ lpc = [l \in Loggers |-> "idle"]
  /\ left = [l \in Loggers |-> 0]
  /\ sent = [l \in Loggers |-> 0]
  /\ lines = <<>> /\ written = <<>> /\ answer = <<>>

Locked == \E l \in Loggers : lpc[l] = "trim"
Goto(l, place) == lpc' = [lpc EXCEPT ![l] = place]

-----------------------------------------------------------------------------
MessageOverlaps(l) ==   \* mistaken: a logger does not wait for its last message
  /\ lpc[l] \in {"idle", "sinks"} /\ sent[l] < MaxMessages
  /\ sent' = [sent EXCEPT ![l] = @ + 1]
  /\ left' = [left EXCEPT ![l] = Sinks[l]]
  /\ Goto(l, "sinks")
  /\ UNCHANGED <<lines, written, answer>>

(* A message, written to the console and the log file first.               *)
Message(l) ==
  /\ lpc[l] = "idle" /\ sent[l] < MaxMessages
  /\ sent' = [sent EXCEPT ![l] = @ + 1]
  /\ left' = [left EXCEPT ![l] = Sinks[l]]
  /\ Goto(l, "sinks")
  /\ UNCHANGED <<lines, written, answer>>

SinkWrites(l) ==
  /\ lpc[l] = "sinks" /\ left[l] > 0
  /\ left' = [left EXCEPT ![l] = @ - 1]
  /\ UNCHANGED <<lpc, sent, lines, written, answer>>

(* MultiWriter gives up; Printf drops the error.                           *)
SinkFails(l) ==
  /\ lpc[l] = "sinks" /\ left[l] > 0 /\ l \in MayFail
  /\ left' = [left EXCEPT ![l] = 0]
  /\ Goto(l, "idle")
  /\ UNCHANGED <<sent, lines, written, answer>>

(* Buffer.Write: the line is appended and the excess cut under one lock.   *)
BufferLock(l) ==
  /\ lpc[l] = "sinks" /\ left[l] = 0 /\ ~Locked
  /\ lines' = Append(lines, Line(l, sent[l]))
  /\ written' = Append(written, Line(l, sent[l]))
  /\ Goto(l, "trim")
  /\ UNCHANGED <<left, sent, answer>>

TrimOneMore(s) ==   \* mistaken: the excess but for one line
  IF Len(s) > MaxLines THEN SubSeq(s, Len(s) - MaxLines, Len(s)) ELSE s
Trim(s) == IF Len(s) > MaxLines THEN SubSeq(s, Len(s) - MaxLines + 1, Len(s)) ELSE s

BufferTrim(l) ==
  /\ lpc[l] = "trim"
  /\ lines' = Trim(lines)
  /\ Goto(l, "idle")
  /\ UNCHANGED <<left, sent, written, answer>>

ReadLinesUnlocked ==   \* mistaken: no RLock
  /\ answer' = lines
  /\ UNCHANGED <<lpc, left, sent, lines, written>>

(* Lines copies under the read lock.                                       *)
ReadLines ==
  /\ ~Locked
  /\ answer' = lines
  /\ UNCHANGED <<lpc, left, sent, lines, written>>

Next ==
  \/ ReadLines
  \/ \E l \in Loggers :
       Message(l) \/ SinkWrites(l) \/ SinkFails(l) \/ BufferLock(l) \/ BufferTrim(l)

Spec == Init /\ [][Next]_vars

-----------------------------------------------------------------------------
(* Types of the loggers' and the buffer's state.  The memory is bounded:   *)
(* one line above MaxLines, between an append and its trim, is the most    *)
(* the buffer ever holds (logbuf.go:19-29).                                *)
TypeOK ==
  /\ lpc \in [Loggers -> {"idle", "sinks", "trim"}] /\ left \in [Loggers -> Nat]
  /\ \A l \in Loggers : left[l] <= Sinks[l]
  /\ sent \in [Loggers -> 0..MaxMessages]
  /\ lines \in Seq(AllLines) /\ written \in Seq(AllLines) /\ answer \in Seq(AllLines)
  /\ Len(lines) <= IF Locked THEN MaxLines + 1 ELSE MaxLines

(* The abstract log this buffer implements.                                *)
Window == INSTANCE LogWindow WITH Lines <- AllLines, log <- written

(* Every answer is the last MaxLines lines at the moment it was given,     *)
(* whichever loggers were writing: never one more, never one trimmed early.*)
WindowSpec == Window!Spec

(* Two lines of one logger with none of its lines between them.            *)
Neighbours(s, i, j) ==
  /\ i < j /\ s[i].by = s[j].by
  /\ \A k \in i + 1..j - 1 : s[k].by # s[i].by

Unbroken(s) ==
  \A i, j \in DOMAIN s :
    s[i].by \notin MayFail /\ Neighbours(s, i, j) => s[j].no = s[i].no + 1

(* The messages of a logger whose sinks work show up in the order they     *)
(* were logged, with none missing between two of them.                     *)
NoHole == Unbroken(answer)

=============================================================================
