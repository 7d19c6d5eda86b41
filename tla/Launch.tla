------------------------------- MODULE Launch -------------------------------
(***************************************************************************)
(* From the command line to the configuration in force: --init of main.go, *)
(* the start in a terminal, which loads the configuration to print it and  *)
(* again to run with it, the start as a service, which only does the       *)
(* latter, and Load and Save of config/config.go.  Everybody shares one    *)
(* file, which the user may edit, delete or keep open for himself.  What   *)
(* run does next with store and server is in Store and Dashboard.          *)
(*                                                                         *)
(* A configuration gives each key a value.  A file gives some keys values, *)
(* and is sound if it is JSON of the right types; what a crash, a Save in  *)
(* progress or two writers at once leave is empty or mixed and not sound.  *)
(***************************************************************************)
EXTENDS TLC

CONSTANTS
  Programs,   \* processes that may run the monitor
  Default,    \* Default(), a function from keys to values
  Edits,      \* files the user may write: [sound, set], set a function on some keys
  Absent, Failed, None   \* no file; the error of Load; no configuration

Torn == [sound |-> FALSE, set |-> <<>>]
Saved == [sound |-> TRUE, set |-> Default]   \* Default().Save

Files == Edits \cup {Absent, Torn, Saved}

(* The defaults with the keys of a file written over them.                 *)
Overlay(f) == f.set @@ Default

ASSUME LaunchOK ==
  /\ \A edit \in Edits : edit.sound \in BOOLEAN /\ DOMAIN edit.set \subseteq DOMAIN Default
  /\ Absent \notin Edits \cup {Torn, Saved}
  /\ {Failed, None} \cap ({Default} \cup {Overlay(f) : f \in Edits \cup {Saved}}) = {}

VARIABLES
  file,     \* what is at the path of the configuration
  held,     \* another program keeps the file from being read
  saving,   \* --init has the file open and has not yet written it
  stage,    \* where a program is: "off", "printed", "run" or "monitor"
  shown,    \* the configuration printConfig printed, or None
  cfg,      \* the configuration the monitor was made with, or None
  changed,  \* the file was written or held since the program printed it
  written   \* sound files there have been

program == <<stage, shown, cfg>>
launchVars == <<file, held, saving, program, changed, written>>

LaunchInit ==
  /\ file \in Edits \cup {Absent} /\ held = FALSE /\ saving = FALSE
  /\ stage = [p \in Programs |-> "off"]
  /\ shown = [p \in Programs |-> None]
  /\ cfg = [p \in Programs |-> None]
  /\ changed = [p \in Programs |-> FALSE]
  /\ written = {f \in {file} \cap Edits : f.sound}

-----------------------------------------------------------------------------
LoadLenient(f) ==   \* mistaken: the error of Unmarshal is ignored
  IF f = Absent THEN Default ELSE Overlay(f)

(* Unmarshal writes the keys of the file over the defaults, also when it   *)
(* fails in the end; then nothing of them is returned.                     *)
Load(f) ==
  CASE f = Absent -> Default
    [] f # Absent /\ f.sound -> Overlay(f)
    [] OTHER -> Failed

Read == IF held /\ file # Absent THEN Failed ELSE Load(file)

Written(f) ==
  /\ ~held
  /\ file' = f
  /\ changed' = [p \in Programs |-> TRUE]
  /\ written' = IF f # Absent /\ f.sound THEN written \cup {f} ELSE written
  /\ UNCHANGED <<held, program>>

(* os.WriteFile truncates, then writes; --init may fail or die in between. *)
SaveOpens ==
  /\ ~saving
  /\ saving' = TRUE
  /\ Written(Torn)

(* Over what another program wrote meanwhile, which may leave a tail of it.*)
SaveWrites ==
  /\ saving
  /\ saving' = FALSE
  /\ \E f \in {Saved, Torn} : (file = Torn => f = Saved) /\ Written(f)

SaveDies ==
  /\ saving
  /\ saving' = FALSE
  /\ UNCHANGED <<file, held, program, changed, written>>

(* The file is saved by an editor, deleted, or kept open for a while; the  *)
(* last two not while --init has it open, in which Windows refuses them.   *)
Edit ==
  /\ \E f \in (Edits \cup {Absent}) \ {file} : (saving => f # Absent) /\ Written(f)
  /\ UNCHANGED saving

Hold ==
  /\ ~held /\ ~saving /\ file # Absent
  /\ held' = TRUE
  /\ changed' = [p \in Programs |-> TRUE]
  /\ UNCHANGED <<file, saving, program, written>>

Release ==
  /\ held
  /\ held' = FALSE
  /\ UNCHANGED <<file, saving, program, changed, written>>

-----------------------------------------------------------------------------
(* main in a terminal; with an error it exits.                             *)
StartInTerminal(p) ==
  /\ stage[p] = "off" /\ Read # Failed
  /\ stage' = [stage EXCEPT ![p] = "printed"]
  /\ shown' = [shown EXCEPT ![p] = Read]
  /\ changed' = [changed EXCEPT ![p] = FALSE]
  /\ UNCHANGED <<file, held, saving, cfg, written>>

(* The service manager calls Start, which leaves run to a goroutine.       *)
StartAsService(p) ==
  /\ stage[p] = "off"
  /\ stage' = [stage EXCEPT ![p] = "run"]
  /\ UNCHANGED <<file, held, saving, shown, cfg, changed, written>>

InForceUnchecked == Read   \* mistaken: run does not look at the error

(* run: with an error it goes on with the defaults.                        *)
InForce == IF Read = Failed THEN Default ELSE Read

Run(p) ==
  /\ stage[p] \in {"printed", "run"}
  /\ stage' = [stage EXCEPT ![p] = "monitor"]
  /\ cfg' = [cfg EXCEPT ![p] = InForce]
  /\ UNCHANGED <<file, held, saving, shown, changed, written>>

(* A signal, Stop or a crash, at any time.                                 *)
End(p) ==
  /\ stage[p] # "off"
  /\ stage' = [stage EXCEPT ![p] = "off"]
  /\ shown' = [shown EXCEPT ![p] = None]
  /\ cfg' = [cfg EXCEPT ![p] = None]
  /\ UNCHANGED <<file, held, saving, changed, written>>

LaunchNext ==
  \/ SaveOpens \/ SaveWrites \/ SaveDies \/ Edit \/ Hold \/ Release
  \/ \E p \in Programs : StartInTerminal(p) \/ StartAsService(p) \/ Run(p) \/ End(p)

LaunchSpec == LaunchInit /\ [][LaunchNext]_launchVars

-----------------------------------------------------------------------------
Configs == {Load(f) : f \in Files} \ {Failed}

(* Types; a file being saved is there, and nobody else holds it.           *)
LaunchTypeOK ==
  /\ file \in Files /\ held \in BOOLEAN /\ saving \in BOOLEAN
  /\ saving => file # Absent /\ ~held
  /\ stage \in [Programs -> {"off", "printed", "run", "monitor"}]
  /\ shown \in [Programs -> Configs \cup {None}]
  /\ cfg \in [Programs -> Configs \cup {None}]
  /\ \A p \in Programs : cfg[p] # None <=> stage[p] = "monitor"
  /\ changed \in [Programs -> BOOLEAN]
  /\ written \subseteq {f \in Edits \cup {Saved} : f.sound}

(* The monitor runs with the defaults, or with them overlaid by a file     *)
(* that somebody completed: never with what a Save in progress, a crash or *)
(* a slip of the editor left (config.go:63-76).                            *)
NeverPart ==
  \A p \in Programs :
    cfg[p] # None => cfg[p] \in {Default} \cup {Overlay(f) : f \in written}

(* In a terminal it runs with what was printed, unless the file was        *)
(* written or held between the two loads (main.go:54 and 141).             *)
AsPrinted ==
  \A p \in Programs :
    shown[p] # None /\ cfg[p] # None /\ ~changed[p] => cfg[p] = shown[p]

(* The configuration in force is one that was meant.                       *)
ConfigInForce == NeverPart /\ AsPrinted
=============================================================================
