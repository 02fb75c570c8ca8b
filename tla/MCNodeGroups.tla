---------------------------- MODULE MCNodeGroups ----------------------------
(* Instances of NodeGroups for TLC. *)
EXTENDS NodeGroups

CONSTANT g1

OneGroup == <<g1>>

=============================================================================
