---------------------------- MODULE NsSioSystem ----------------------------
(***************************************************************************)
(* The serial driver from boot: module NsSioAttach finds the channels and  *)
(* connects them, then one of them lives as module NsSio says.             *)
(***************************************************************************)
EXTENDS NsSio, NsSioAttach

CONSTANT Followed   \* bound: the PCI boards whose channels are followed

(* Bound: a channel is not followed after something failed. *)
ChannelRuns ==
  /\ booted /\ failed = {} /\ board \in Followed

SystemInit == SioInit /\ AttachInit
SystemNext ==
  \/ AttachNext /\ UNCHANGED sioVars
  \/ ChannelRuns /\ SioNext /\ UNCHANGED attachVars

(* What is fair in NsSio cannot happen before the channel is running. *)
SystemSpec == SystemInit /\ [][SystemNext]_<< sioVars, attachVars >> /\ SioFairness
=============================================================================
