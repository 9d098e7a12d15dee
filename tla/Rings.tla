------------------------------- MODULE Rings -------------------------------
(***************************************************************************)
(* A VxWorks ring buffer of whole CAN messages is a sequence, oldest       *)
(* message first; what the models of both directions say about it.         *)
(***************************************************************************)
EXTENDS Naturals, Sequences

(* The messages in a ring, and that none is in it twice. *)
Entries(q)  == { q[i] : i \in 1 .. Len(q) }
Distinct(q) == \A i, j \in 1 .. Len(q) : q[i] = q[j] => i = j
=============================================================================
