------------------------------ MODULE MCRollouts -----------------------------
(***************************************************************************)
(* One instance for TLC of each model of how a change reaches the pods:    *)
(* restarts under the disruption locks (Disruption), upgrades of the chain *)
(* (Upgrades) and roots that are re-created with other keys (Reservation). *)
(* A behaviour is one of one of the three, which the variable part names;  *)
(* the others are not there.                                               *)
(***************************************************************************)
EXTENDS MCDisruption

CONSTANT Nil \* no object

VARIABLES part,
          uSpec, uUps, uLatest, uCm, uVol, uNu, uPod, uApp, uHeight, uRan, uPc, uWant, uTarget,
          uFaults, uLost,
          rObjects, rGen, rReservations, rWorkloads, rPc, rSeen, rObserved, rFaults

rollouts == <<pods, outdated, built, locks, held, want, pc, changes, faults>>
upgrades == <<uSpec, uUps, uLatest, uCm, uVol, uNu, uPod, uApp, uHeight, uRan, uPc, uWant, uTarget,
              uFaults, uLost>>
roots == <<rObjects, rGen, rReservations, rWorkloads, rPc, rSeen, rObserved, rFaults>>
all == <<part, rollouts, upgrades, roots>>

----------------------------------------------------------------------------
(* Upgrades: a governance plan and a manual upgrade. *)

U == INSTANCE Upgrades WITH
    Heights <- {2, 3}, Plans <- {2}, Docker <- {2}, MaxHeight <- 4, MaxLag <- 1,
    MaxFaults <- 1, MaxLost <- 0, Timely <- TRUE,
    spec <- uSpec, ups <- uUps, latest <- uLatest, cm <- uCm, vol <- uVol, nu <- uNu,
    pod <- uPod, app <- uApp, height <- uHeight, ran <- uRan, pc <- uPc, want <- uWant,
    target <- uTarget, faults <- uFaults, lost <- uLost

----------------------------------------------------------------------------

(* Reservation: three generations of one root, and two keys. *)

R == INSTANCE Reservation WITH
    Roots <- {"a"}, Keys <- {"k1", "k2"}, MaxGen <- 3, MaxFaults <- 2,
    objects <- rObjects, gen <- rGen, reservations <- rReservations, workloads <- rWorkloads,
    pc <- rPc, seen <- rSeen, observed <- rObserved, faults <- rFaults

----------------------------------------------------------------------------

OfRollouts(A) == part = "rollouts" /\ A /\ UNCHANGED <<part, upgrades, roots>>
OfUpgrades(A) == part = "upgrades" /\ A /\ UNCHANGED <<part, rollouts, roots>>
OfRoots(A) == part = "roots" /\ A /\ UNCHANGED <<part, rollouts, upgrades>>

NoUpgrades ==
    /\ uSpec = Nil /\ uUps = Nil /\ uLatest = Nil /\ uCm = Nil /\ uVol = Nil /\ uNu = Nil
    /\ uPod = Nil /\ uApp = Nil /\ uHeight = Nil /\ uRan = Nil /\ uPc = Nil /\ uWant = Nil
    /\ uTarget = Nil /\ uFaults = Nil /\ uLost = Nil

NoRoots ==
    /\ rObjects = Nil /\ rGen = Nil /\ rReservations = Nil /\ rWorkloads = Nil /\ rPc = Nil
    /\ rSeen = Nil /\ rObserved = Nil /\ rFaults = Nil

MCInit ==
    /\ part \in {"rollouts", "upgrades", "roots"}
    /\ Init
    /\ IF part = "upgrades" THEN U!Init ELSE NoUpgrades
    /\ IF part = "roots" THEN R!Init ELSE NoRoots

MCNext == OfRollouts(Next) \/ OfUpgrades(U!Next) \/ OfRoots(R!Next)

\* The fairness of each.  They have nothing in common, so weak fairness of the
\* disjunction of an action of each is weak fairness of all of them.
MCFairSpec ==
    /\ MCInit /\ [][MCNext]_all
    /\ WF_all(OfRollouts(Reconcile(n1)) \/ OfUpgrades(U!Trace) \/ OfRoots(R!Step("a")))
    /\ WF_all(OfRollouts(Reconcile(n2)) \/ OfUpgrades(U!LoadConfig) \/ OfRoots(R!GarbageCollect))
    /\ WF_all(OfRollouts(Reconcile(n3)) \/ OfUpgrades(U!CommitBlock) \/ OfRoots(R!PathGone))
    /\ WF_all(OfRollouts(Kubelet(n1)) \/ OfUpgrades(U!Exit))
    /\ WF_all(OfRollouts(Kubelet(n2)) \/ OfUpgrades(U!KillNodeUtils))
    /\ WF_all(OfRollouts(Kubelet(n3)) \/ OfUpgrades(U!RestartNodeUtils))
    /\ WF_all(OfUpgrades(U!PodGone)) /\ WF_all(OfUpgrades(U!Reconcile))
    /\ SF_all(OfRoots(R!FreshReconcile("a")))

----------------------------------------------------------------------------
(* The properties of Upgrades and Reservation, under their own names. *)

\* U: an upgrade whose height the node reaches is carried out.
UpgradesAreApplied == []<>(part = "upgrades" => U!Applied)

\* R: deleting a root completes.
DeletionCompletes == []<>(part = "roots" => R!NoneBeingDeleted)

\* R: a root comes to sign, also when it replaces one that was force-deleted.
ReplacementSigns == []<>(part = "roots" => R!AllSign)

=============================================================================
