----------------------------- MODULE CanDevIOMC -----------------------------
(***************************************************************************)
(* Instance of CanDevIO for TLC: which tasks, which clients.               *)
(***************************************************************************)
EXTENDS CanDevIO, TLC

CONSTANTS t1, t2

TwoTasks == {t1, t2}

(* Everything but flags that do not suit the channel: they only matter to the
   pointers the handler follows. *)
Careless == AllIrregular \ {"wrong_flags"}

(* Clients that keep to the protocol, that only close the device first, that
   spare the driver one kind of misuse, and that spare it nothing. *)
ClientsUsed ==
  {[irregular |-> {}, fds |-> 5],
   [irregular |-> {"device_first"}, fds |-> 4],
   [irregular |-> Careless \ {"no_mode"}, fds |-> 3],
   [irregular |-> Careless \ {"device_first", "no_memory"}, fds |-> 3],
   [irregular |-> Careless, fds |-> 3]}

(* Tasks are alike. *)
TaskSymmetry == Permutations(Tasks)
=============================================================================
