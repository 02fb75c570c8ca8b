---------------------------- MODULE MCDisruption ----------------------------
(* Instances of Disruption for TLC. *)
EXTENDS Disruption, TLC

CONSTANTS n1, n2, n3, validators, fullnodes

\* Two validators, of two node sets, and one full node.
TwoGroups == (n1 :> validators) @@ (n2 :> validators) @@ (n3 :> fullnodes)

=============================================================================
