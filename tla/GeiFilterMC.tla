---------------------------- MODULE GeiFilterMC ----------------------------
(* Instance of GeiFilter for TLC: one perfect slot and two hash registers. *)
EXTENDS GeiFilter

CONSTANTS g1, g2, g3, g4

(* Two addresses that differ in both halves. *)
StationsUsed == {<< "a", "b" >>, << "c", "d" >>}

(* g1 has a bit in an even register, the others in the odd one after it: g3
   and g4 the same. *)
HashUsed ==
  [g \in {g1, g2, g3, g4} |->
     CASE g = g1 -> << 0, "x" >> [] g = g2 -> << 1, "x" >> [] OTHER -> << 1, "y" >>]

(* Two clients subscribe to g2. *)
RefsUsed == [g \in {g1, g2, g3, g4} |-> IF g = g2 THEN 2 ELSE 1]
=============================================================================
