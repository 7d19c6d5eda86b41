------------------------------ MODULE MCLogBuf ------------------------------
(***************************************************************************)
(* Two loggers sharing a buffer of two lines: the global one writes stderr *)
(* first, the monitor's writes stdout and the log file.                    *)
(***************************************************************************)
EXTENDS LogBuf, TLC

CONSTANTS global, monitor

MCSinks == (global :> 1) @@ (monitor :> 2)
=============================================================================
