------------------------------ MODULE MCNodes ------------------------------
(***************************************************************************)
(* One instance of each safety model of a node's life for TLC: upgrades    *)
(* (Upgrades), what the pod starts from (NodeData) and what becomes of a   *)
(* root's objects when it is deleted (Cleanup).  A behaviour is one of one *)
(* of the three, which the variable part names; the others stay as they    *)
(* started.                                                                *)
(***************************************************************************)
EXTENDS Upgrades

VARIABLES part,
          dSpec, dStatus, dSecrets, dExtra, dVol, dGenesis, dInit, dPod, dPass, dCount,
          cWorld, cMgr, cRoots, cObjs, cPods, cSeed, cWork, cNs, cExcused, cCount

upgrades == <<spec, ups, latest, cm, vol, nu, pod, app, height, ran, pc, want, target, faults, lost>>
data == <<dSpec, dStatus, dSecrets, dExtra, dVol, dGenesis, dInit, dPod, dPass, dCount>>
cleanup == <<cWorld, cMgr, cRoots, cObjs, cPods, cSeed, cWork, cNs, cExcused, cCount>>

----------------------------------------------------------------------------
(* NodeData: sizes, resizing, the three sources of a genesis, a snapshot to start from. *)

SpecOf(restore, size, more, auto, from) ==
    [restore |-> restore, size |-> size, extra |-> more, auto |-> auto, genesis |-> from]
NoRestore == [height |-> 0]
NoAuto == [max |-> 0]
Auto == [above |-> 50, by |-> 2, max |-> 3]
SnapshotAt(known, ann) == [known |-> known, ann |-> ann, height |-> 1, size |-> 2]

PlainSpec == SpecOf(NoRestore, 2, 1, NoAuto, "map")
DataSpecs ==
    {PlainSpec,
     SpecOf(NoRestore, 3, 0, Auto, "map"),
     SpecOf(NoRestore, 2, 0, NoAuto, "volume"),
     SpecOf(NoRestore, 2, 0, NoAuto, "init"),
     SpecOf(SnapshotAt(TRUE, 1), 2, 0, Auto, "map"),
     SpecOf(SnapshotAt(TRUE, 0), 2, 0, NoAuto, "volume"),
     SpecOf(SnapshotAt(FALSE, 0), 2, 0, NoAuto, "map")}

D == INSTANCE NodeData WITH
    Specs <- DataSpecs, MaxHeight <- 2, MaxVolumes <- 3, MaxKeys <- 4, MaxFaults <- 2,
    spec <- dSpec, status <- dStatus, secrets <- dSecrets, extra <- dExtra, vol <- dVol,
    genesis <- dGenesis, initPod <- dInit, pod <- dPod, pass <- dPass, count <- dCount

----------------------------------------------------------------------------
(* Cleanup: a set with one child, a seed and a signer, a standalone node, new ones, two children. *)

TwoNodes == {"a", "b"}
WorldOf(parts, owner, rec, life, users, foreign, set, node, deletes, mishaps) ==
    [parts |-> parts, refs |-> [n \in TwoNodes |-> owner], recs |-> [n \in TwoNodes |-> rec],
     life |-> life, users |-> users, foreign |-> foreign,
     deletes |-> [r \in TwoNodes \cup {"set"} |-> IF r = "set" THEN set ELSE node],
     max |-> [deletes |-> deletes, faults |-> mishaps]]

All == {"data", "key", "state"}
Parts == {"a", "seed", "signer"}
KeyOfA == [kind |-> "key", of |-> "a"]

Legacy == WorldOf(Parts, "set", "exact", "legacy", {}, {}, {"key"}, {}, 1, 1)
CleanupWorlds ==
    {Legacy,
     WorldOf(Parts, "set", "exact", "stamped", {}, {}, {"data"}, {"data"}, 2, 0),
     WorldOf(Parts, "set", "exact", "stamped", {KeyOfA}, {}, All, {}, 1, 1),
     WorldOf(Parts, "none", "none", "legacy", {}, {}, {"data"}, {"key"}, 1, 1),
     WorldOf(Parts, "none", "name", "stamped", {}, {}, All, {}, 1, 0),
     WorldOf(Parts, "none", "replaced", "stamped", {}, {}, {}, All, 1, 0),
     WorldOf(Parts, "set", "exact", "stamped", {}, {"a", "seed"}, All, All, 1, 0),
     WorldOf({"a"}, "set", "exact", "new", {}, {}, {"data"}, {}, 1, 1),
     WorldOf({"a"}, "none", "none", "new", {}, {}, {}, All, 1, 1),
     WorldOf(TwoNodes, "set", "exact", "stamped", {}, {}, {}, {}, 1, 0)}

C == INSTANCE Cleanup WITH
    Nodes <- TwoNodes, Worlds <- CleanupWorlds,
    world <- cWorld, mgr <- cMgr, roots <- cRoots, objs <- cObjs, pods <- cPods, seed <- cSeed,
    work <- cWork, ns <- cNs, excused <- cExcused, count <- cCount

----------------------------------------------------------------------------

MCInit ==
    /\ part \in {"upgrades", "data", "cleanup"}
    /\ Init
    /\ D!Init /\ (part # "data" => dSpec = PlainSpec)
    /\ C!Init /\ (part # "cleanup" => cWorld = Legacy)

MCNext ==
    /\ UNCHANGED part
    /\ \/ part = "upgrades" /\ Next /\ UNCHANGED <<data, cleanup>>
       \/ part = "data" /\ D!Next /\ UNCHANGED <<upgrades, cleanup>>
       \/ part = "cleanup" /\ C!Next /\ UNCHANGED <<upgrades, data>>

MCSpec == MCInit /\ [][MCNext]_<<part, upgrades, data, cleanup>>

----------------------------------------------------------------------------
(* The properties of NodeData and Cleanup, under their own names. *)

\* D: a pod starts on initialised data, with its genesis and its key.
StartsOnGoodData == D!StartsOnGoodData

\* D: the height of the data on a volume is known, and never overstated.
KnowsItsHeight == D!KnowsItsHeight

\* C: what the policy retains is not deleted.
RetainedKept == C!RetainedKept

\* C: what the policy deletes is gone when the root is.
DeleteDone == C!DeleteDone

\* C: what is deleted is not in use any more.
StopFirst == C!StopFirst

=============================================================================
