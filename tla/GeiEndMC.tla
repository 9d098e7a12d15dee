----------------------------- MODULE GeiEndMC -----------------------------
(* Instances of GeiEnd for TLC. *)
EXTENDS GeiEnd

(* Real advanced hardware, and an emulated legacy chip that keeps ICS
   write-only. *)
ChipsUsed == {[devType |-> "advanced", ics |-> TRUE], [devType |-> "legacy", ics |-> FALSE]}
=============================================================================
