----------------------------- MODULE MCUpgrades -----------------------------
(* Instances of Upgrades for TLC. *)
EXTENDS Upgrades
=============================================================================
