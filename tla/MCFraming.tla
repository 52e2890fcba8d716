------------------------------ MODULE MCFraming ------------------------------
(* Instances of Framing for TLC: bodies shorter, as long and longer than the prefix. *)
EXTENDS Framing

MCBody == <<2, 1, 3>>
=============================================================================
