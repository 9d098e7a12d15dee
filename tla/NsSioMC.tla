----------------------------- MODULE NsSioMC -----------------------------
(* Instances of NsSioSystem for TLC. *)
EXTENDS NsSioSystem

OptionsUsed == {{"CLOCAL", "CREAD", "HUPCL"}, {"CREAD"}}

BoardsUsed == {"PR6120", "CompUSA", "ESD1001", "ESD1002", "ESD1004", "IC0607KB", "LF659KB",
               "LF653KB", "LF662KB1", "LF769KB"}
=============================================================================
