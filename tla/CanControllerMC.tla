--------------------------- MODULE CanControllerMC ---------------------------
(* One standard and one extended identifier, each with its full mask; clients
   that work on the filter, on messages, and on the life of the device. *)
EXTENDS CanController

Std == [ext |-> FALSE, lo |-> 0, hi |-> 0]
Ext == [ext |-> TRUE, lo |-> 0, hi |-> 0]

MCIds == {Std, Ext}

MCMasks == {[Std EXCEPT !.lo = 1], [Ext EXCEPT !.lo = 1, !.hi = 1]}

MCPrograms == {{"halt", "sleep", "rxid", "filter", "readfilter", "enable"},
               {"halt", "sleep", "txid", "txdata", "rtr", "tx", "abort"},
               {"halt", "rxid", "filter", "tx", "rtr", "timing", "reopen"}}
=============================================================================
