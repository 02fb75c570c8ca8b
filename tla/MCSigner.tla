------------------------------ MODULE MCSigner ------------------------------
(* Instances of Signer for TLC. *)
EXTENDS Signer, TLC

CONSTANTS sw, kmsA, kmsB, held, k1, k2

Backends == [d \in Dests |->
    CASE d = sw -> "software" [] d = kmsA -> "gcp" [] d = kmsB -> "vault" [] OTHER -> "held"]

TwoClouds == [d \in Dests |-> "gcp"]

=============================================================================
