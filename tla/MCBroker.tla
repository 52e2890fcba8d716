------------------------------ MODULE MCBroker ------------------------------
(* Instances of Broker for TLC. *)
EXTENDS Broker, TLC

ClientSymmetry == Permutations(Clients)
=============================================================================
