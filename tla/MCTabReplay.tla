----------------------------- MODULE MCTabReplay -----------------------------
(* Instances of TabReplay for TLC. *)
EXTENDS TabReplay
=============================================================================
