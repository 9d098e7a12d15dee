------------------------------ MODULE CanTxMC ------------------------------
(***************************************************************************)
(* Instances of CanTx for TLC: which writers, which disturbances.          *)
(***************************************************************************)
EXTENDS CanTx

CONSTANTS w1, w2

OneWriter  == {w1}
TwoWriters == {w1, w2}

NoIllegal == {}

AbortOnly        == {"abort"}
EveryDisturbance == AllDisturbances
=============================================================================
