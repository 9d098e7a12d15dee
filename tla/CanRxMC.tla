------------------------------ MODULE CanRxMC ------------------------------
(***************************************************************************)
(* Instances of CanRx for TLC: which readers, which commands.              *)
(***************************************************************************)
EXTENDS CanRx

CONSTANTS r1, r2

OneReader  == {r1}
TwoReaders == {r1, r2}

(* Without WNCAN_CHNCONFIG_GET, which releases frames nobody read, and bus off,
   after which stale bytes are queued; and without what takes
   messages from the ring, masks the receive interrupt for good or may hide
   the receive status again and again. *)
AllButGetAndBusOff == AllCommands \ {"get", "busoff"}
Undisturbing       == AllCommands \ {"flush", "enable", "other"}
=============================================================================
