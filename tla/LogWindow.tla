----------------------------- MODULE LogWindow -----------------------------
(***************************************************************************)
(* What the log tab is promised: a log that only grows, and answers that   *)
(* are its last MaxLines lines at one moment between the question and the  *)
(* answer.                                                                 *)
(***************************************************************************)
EXTENDS Naturals, Sequences

CONSTANTS Lines, MaxLines

VARIABLES
  log,      \* every line logged so far
  answer    \* the last answer given

vars == <<log, answer>>

Most(n) == IF n < MaxLines THEN n ELSE MaxLines
Window(s) == SubSeq(s, Len(s) - Most(Len(s)) + 1, Len(s))

Init == log = <<>> /\ answer = <<>>

Write(line) == log' = Append(log, line) /\ UNCHANGED answer
Read == answer' = Window(log) /\ UNCHANGED log

Next == Read \/ \E line \in Lines : Write(line)

Spec == Init /\ [][Next]_vars
=============================================================================
