------------------------------ MODULE MCLaunch ------------------------------
(***************************************************************************)
(* A service and a terminal beside it; two keys.  The user's files set one *)
(* key, both, or the other one beside a mistyped one.                      *)
(***************************************************************************)
EXTENDS Launch

MCDefault == [warn |-> 30, interval |-> 60]

MCEdits == {[sound |-> TRUE, set |-> [warn |-> 40]],
            [sound |-> TRUE, set |-> [warn |-> 40, interval |-> 5]],
            [sound |-> FALSE, set |-> [interval |-> 5]]}
=============================================================================
