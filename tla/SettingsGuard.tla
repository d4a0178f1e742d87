--------------------------- MODULE SettingsGuard ---------------------------
(***************************************************************************)
(* What a container of specs that reconfigures a cluster promises about    *)
(* one setting: it does not touch the setting before it has a value to go  *)
(* back to, and it ends with the setting at that value or with a failure   *)
(* of its cleanup reported.  The value to go back to is the one read, or   *)
(* the default where the setting cannot be read or cannot be written.      *)
(***************************************************************************)
CONSTANTS Settings, Default
VARIABLES value, saved, phase

guard == <<value, saved, phase>>

Init == value \in Settings /\ saved = Default /\ phase = "idle"

Save ==
  /\ phase = "idle" /\ phase' = "held"
  /\ saved' \in {value, Default} /\ UNCHANGED value

Change == phase = "held" /\ value' \in Settings /\ UNCHANGED <<saved, phase>>

Restore ==
  /\ phase = "held" /\ phase' = "restored"
  /\ value' = saved /\ UNCHANGED saved

Report ==
  /\ phase = "held" /\ phase' = "reported"
  /\ value' \in Settings /\ UNCHANGED saved

Next == Save \/ Change \/ Restore \/ Report

\* A setting that has been saved does not stay that way.
Ends == (phase = "held") ~> (phase \in {"restored", "reported"})

SafeSpec == Init /\ [][Next]_guard
Spec     == SafeSpec /\ Ends
=============================================================================
