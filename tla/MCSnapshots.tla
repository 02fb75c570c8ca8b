---------------------------- MODULE MCSnapshots ----------------------------
(* Instances of Snapshots for TLC. *)
EXTENDS Snapshots

Off == [enabled |-> FALSE, verify |-> FALSE, stop |-> FALSE, preserve |-> TRUE,
        retention |-> 0, retain |-> 0]

Verified == [Off EXCEPT !.enabled = TRUE, !.verify = TRUE]
Pruned == [Off EXCEPT !.enabled = TRUE, !.retain = 1, !.retention = 1]
Expiring == [Off EXCEPT !.enabled = TRUE, !.retention = 1]
Stopping == [Off EXCEPT !.enabled = TRUE, !.stop = TRUE]

\* Snapshots that are verified, that are counted and expire, that stop the node, or
\* none at all.
Switching == {Off, Verified, Pruned, Stopping}

\* Only snapshots that stop the node.
AlwaysStopping == {Stopping}

\* Only snapshots that expire.
AlwaysExpiring == {Expiring}

============================================================================
