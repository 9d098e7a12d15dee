------------------------------ MODULE GeiTxMC ------------------------------
(***************************************************************************)
(* Instances of GeiTx for TLC.                                             *)
(***************************************************************************)
EXTENDS GeiTx, TLC

CONSTANTS p1, p2, csum

TwoSenders == {p1, p2}
Offload    == {NoContext, csum}
Quotas     == (p1 :> 2) @@ (p2 :> 1)
BothTypes  == {"legacy", "advanced"}
=============================================================================
