----------------------------- MODULE LossyFifo -----------------------------
(***************************************************************************)
(* What the transmit path of one writer and the receive path promise: items *)
(* come out in the order they went in and each at most once; on the way a  *)
(* run of consecutive items may be lost, but none is invented, repeated or *)
(* overtaken.                                                              *)
(***************************************************************************)
EXTENDS Naturals, Sequences

CONSTANT Item

VARIABLES
  queue,   \* items inside, oldest first
  out      \* items that came out, in order

Init ==
  /\ queue = << >>
  /\ out = << >>

Put(x) ==
  /\ queue' = Append(queue, x)
  /\ UNCHANGED out

Get ==
  /\ queue # << >>
  /\ out' = Append(out, Head(queue))
  /\ queue' = Tail(queue)

(* The items after the i-th and before the j-th are lost. *)
Lose ==
  /\ \E i \in 0 .. Len(queue) : \E j \in i + 1 .. Len(queue) + 1 :
        queue' = SubSeq(queue, 1, i) \o SubSeq(queue, j, Len(queue))
  /\ UNCHANGED out

Next == Get \/ Lose \/ \E x \in Item : Put(x)

Spec == Init /\ [][Next]_<< queue, out >>
=============================================================================
