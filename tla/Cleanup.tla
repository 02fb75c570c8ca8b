------------------------------- MODULE Cleanup -------------------------------
(***************************************************************************)
(* What becomes of volumes, keys and signer state when a ChainNode or a    *)
(* ChainNodeSet is deleted: resource_cleanup.go of both controllers,       *)
(* internal/resourcecleanup, and the migration that the manager makes      *)
(* before its controllers start.                                           *)
(*                                                                         *)
(* Durable objects carry a stamp with their root and their immediate owner *)
(* and no owner reference; those of releases before the stamps carry an    *)
(* owner reference, which the garbage collector follows.  A child is       *)
(* finalized by its own controller and, when its ChainNodeSet is deleted,  *)
(* by that of the ChainNodeSet at the same time.  A reconciliation of a    *)
(* child that began before the deletion may still be running.  The manager *)
(* can crash, requests of the migration can fail, owner references of      *)
(* children can be lost, and the namespace can be deleted.  The signer is  *)
(* a pod and its state; SignerObjects models how it is taken down.         *)
(***************************************************************************)
EXTENDS Naturals, FiniteSets

CONSTANTS Nodes,      \* names of ChainNodes
          Worlds      \* [parts, refs, recs, life, users, foreign, deletes, max]: the
                      \* nodes there are and whether there is a seed and a signer,
                      \* owner and status record of each node, whether objects are
                      \* unstamped ("legacy"), stamped or not there yet ("new"),
                      \* objects and pods of others, what each root's policy deletes,
                      \* bounds on deletions and on faults (crashes, failed
                      \* migrations, lost references)

VARIABLES world,   \* the situation of the model
          mgr,     \* the manager: its stage and the roots left in it
          roots,   \* ChainNodes and the ChainNodeSet: state, finalizer, how it is
                   \* deleted, owner, record in the status of the ChainNodeSet
          objs,    \* durable objects: state, owner reference, stamps
          pods,    \* of the nodes, the seed and the signer: none, run, term, foreign
          seed,    \* the seed StatefulSet: up, zero, of another owner (foreign, or
                   \* scaled when that owner scaled it to zero), gone
          work,    \* what each controller is doing
          ns,      \* whether the namespace is being deleted
          excused, \* objects and pods that no promise is made for, see Forfeit, Unowned
                   \* and LeftToSeed
          count    \* deletions, faults

vars == <<world, mgr, roots, objs, pods, seed, work, ns, excused, count>>

None == "none"
Set == "set"
Roots == Nodes \cup {Set}

Data(n) == [kind |-> "data", of |-> n]
Key(n) == [kind |-> "key", of |-> n]
SeedData == [kind |-> "data", of |-> "seed"]
State == [kind |-> "state", of |-> Set]
Objs == {Data(n) : n \in Nodes} \cup {Key(r) : r \in Roots} \cup {SeedData, State}

Absent == [st |-> "gone", fin |-> FALSE, mode |-> None, ref |-> None, rec |-> None]

\* A pass: its step, the root as it was read, what its policy deletes, the
\* children left and the one in hand, whether all are done.
Idle == [pc |-> "idle", read |-> Absent, deletes |-> {}, ns |-> FALSE,
         todo |-> {}, child |-> None, done |-> TRUE]

Goto(r, step) == work' = [work EXCEPT ![r].pc = step]
Return(r) == work' = [work EXCEPT ![r] = Idle]

Fault == count.faults < world.max.faults /\ count' = [count EXCEPT !.faults = @ + 1]

There(r) == roots[r].st # "gone"
Controlled(n) == roots[n].ref = Set
Recorded(n) == roots[n].rec      \* MatchRecordedChild: none, replaced, name, exact

----------------------------------------------------------------------------
(* internal/resourcecleanup *)

\* RootOwnerFor, for a node with the owner reference ref.
RootOwnerFor(n, ref) == IF n = Set \/ ref = Set THEN Set ELSE n

\* A variant that takes the name of an object for its proof.
PrepareByName(o, n, ref) ==
    [objs[o] EXCEPT !.root = RootOwnerFor(n, ref), !.by = n, !.ref = IF @ = n THEN None ELSE @]

\* A variant that drops the reference and forgets the stamp.
PrepareUnstamped(o, n, ref) == [objs[o] EXCEPT !.ref = IF @ = n THEN None ELSE @]

\* PrepareGeneratedResource for an existing object: stamp it if a stamp or the
\* owner reference proves that it was generated, and drop the reference.
PrepareGeneratedResource(o, n, ref) ==
    IF objs[o].root = RootOwnerFor(n, ref) \/ objs[o].ref = n
    THEN [objs[o] EXCEPT !.root = RootOwnerFor(n, ref), !.by = n, !.ref = IF @ = n THEN None ELSE @]
    ELSE objs[o]

User(o) ==
    CASE o.kind = "state" -> "signer"
      [] o = SeedData -> "seed"
      [] OTHER -> o.of

\* The API server's Delete: a volume in use stays until its pod is gone.
Deleted(o, v) ==
    IF v.st = "gone" THEN v
    ELSE [v EXCEPT !.st = IF o.kind = "data" /\ pods[User(o)] # None THEN "going" ELSE "gone"]

\* The objects that FinalizeClass applies to: those of the root, and of the child
\* when it is a child that is finalized.
Applies(o, v, root, r) == v.root = root /\ (r = root \/ v.by = r)

\* FinalizeClass for data volumes and keys.
Finalized(all, root, r, deletes) ==
    [o \in Objs |-> IF Applies(o, all[o], root, r) /\ o.kind \in deletes \ {"state"}
                    THEN Deleted(o, all[o]) ELSE all[o]]

FinalizeDone(all, root, r, deletes) ==
    \A o \in Objs : Applies(o, all[o], root, r) /\ o.kind \in deletes \ {"state"} => all[o].st = "gone"

----------------------------------------------------------------------------
(* The manager: RootProtector and the migration *)

Restart == [pc |-> "protect", todo |-> Roots, again |-> FALSE]

\* protectRoot.  A failed request ends the manager.
Protect(r) ==
    /\ mgr.pc = "protect" /\ r \in mgr.todo
    /\ r = Set => mgr.todo = {Set}
    /\ mgr' = [mgr EXCEPT !.todo = @ \ {r}]
    /\ roots' = [roots EXCEPT ![r].fin = @ \/ roots[r].st = "there"]
    /\ UNCHANGED <<world, objs, pods, seed, work, ns, excused, count>>

\* A root deleted in the meantime has no finalizer yet and nothing is written.
Protected ==
    /\ mgr.pc = "protect" /\ mgr.todo = {}
    /\ mgr' = [pc |-> "migrate", todo |-> Roots, again |-> FALSE]
    /\ UNCHANGED <<world, roots, objs, pods, seed, work, ns, excused, count>>

\* Children that the ChainNodeSet may attribute resources for.
Adoptable(n) == There(n) /\ (Controlled(n) \/ Recorded(n) = "exact")

\* What the migration of a root makes of an object.
Migrated(r, o) ==
    CASE objs[o].st = "gone" -> objs[o]
      [] objs[o].st # "gone" /\ r = Set /\ o = SeedData /\ objs[o].ref = "seed" /\ seed # "gone" ->
            [objs[o] EXCEPT !.root = Set, !.by = Set, !.ref = None]
      [] objs[o].st # "gone" /\ r = Set /\ o = State -> [objs[o] EXCEPT !.root = Set, !.by = Set]
      [] objs[o].st # "gone" /\ r = Set /\ o = Key(Set) /\ objs[o].ref = Set ->
            PrepareGeneratedResource(o, Set, None)
      [] objs[o].st # "gone" /\ r = Set /\ o.of \in Nodes /\ Adoptable(o.of) /\ objs[o].ref = o.of ->
            PrepareGeneratedResource(o, o.of, Set)
      [] objs[o].st # "gone" /\ r \in Nodes /\ o.of = r /\ objs[o].ref = r ->
            PrepareGeneratedResource(o, r, roots[r].ref)
      [] OTHER -> objs[o]

\* isRecordedStartupNodeSetChild: such a child is migrated with its ChainNodeSet.
MigratedAlone(n) == ~(There(Set) /\ Recorded(n) \in {"name", "exact"})

\* Keys of the ChainNodeSet, the seed, volumes and keys of children, signer state.
MigrationOrder(o) ==
    CASE o = Key(Set) -> 1 [] o = SeedData -> 2 [] o = State -> 5
      [] OTHER -> IF o.kind = "data" THEN 3 ELSE 4

\* MigrateLegacyDurableResources of one root: ChainNodeSets first.  An error ends
\* it half way and the root is skipped.
Migrate(r) ==
    /\ mgr.pc = "migrate" /\ r \in mgr.todo
    /\ r # Set => Set \notin mgr.todo
    /\ IF ~There(r) \/ (r # Set /\ ~MigratedAlone(r))
       THEN /\ mgr' = [mgr EXCEPT !.todo = @ \ {r}]
            /\ UNCHANGED <<roots, objs, count>>
       ELSE \/ /\ objs' = [o \in Objs |-> Migrated(r, o)]
               /\ roots' = [x \in Roots |-> IF r = Set /\ x # Set /\ Adoptable(x)
                                            THEN [roots[x] EXCEPT !.ref = Set] ELSE roots[x]]
               /\ mgr' = [mgr EXCEPT !.todo = @ \ {r}, !.again = @ \/ objs'[State] # objs[State]]
               /\ UNCHANGED count
            \/ /\ \E last \in 0..4 : LET some == {o \in Objs : MigrationOrder(o) <= last} IN
                     /\ objs' = [o \in Objs |-> IF o \in some THEN Migrated(r, o) ELSE objs[o]]
                     /\ roots' = [x \in Roots |-> IF r = Set /\ x # Set /\ Adoptable(x) /\ last >= 3
                                                  THEN [roots[x] EXCEPT !.ref = Set] ELSE roots[x]]
               /\ mgr' = [mgr EXCEPT !.todo = @ \ {r}]
               /\ Fault
    /\ UNCHANGED <<world, pods, seed, work, ns, excused>>

\* Once more while something of a signer was migrated, then the controllers start.
Ready ==
    /\ mgr.pc = "migrate" /\ mgr.todo = {}
    /\ mgr' = IF mgr.again THEN [mgr EXCEPT !.todo = Roots, !.again = FALSE]
              ELSE [mgr EXCEPT !.pc = "ready"]
    /\ UNCHANGED <<world, roots, objs, pods, seed, work, ns, excused, count>>

Crash ==
    /\ mgr' = Restart /\ mgr # Restart
    /\ work' = [r \in Roots |-> Idle]
    /\ Fault
    /\ UNCHANGED <<world, roots, objs, pods, seed, ns, excused>>

----------------------------------------------------------------------------
(* The API server, the garbage collector and the user *)

\* What is given up when r is deleted: all that hangs on it, if it is not protected
\* or the collector is told to delete its dependents first.
Forfeit(r, mode) ==
    IF mode = "fg" \/ ~roots[r].fin
    THEN {o \in Objs : objs[o].ref = r \/ (r = Set /\ objs[o].ref = "seed")} ELSE {}

Gone(v) == IF v.mode = "fg" THEN [v EXCEPT !.fin = FALSE] ELSE [v EXCEPT !.st = "gone", !.fin = FALSE]

DeletedRoot(v, mode) ==
    IF v.fin \/ mode = "fg" THEN [v EXCEPT !.st = "going", !.mode = mode] ELSE [v EXCEPT !.st = "gone"]

UserDeletes(r) ==
    /\ count.deletes < world.max.deletes
    /\ count' = [count EXCEPT !.deletes = @ + 1]
    /\ roots[r].st = "there"
    /\ \E mode \in {"bg", "fg"} :
          /\ roots' = [roots EXCEPT ![r] = DeletedRoot(@, mode)]
          /\ excused' = excused \cup Forfeit(r, mode)
    /\ UNCHANGED <<world, mgr, objs, pods, seed, work, ns>>

\* Dependents of r are deleted when it is gone, or before it when that is asked for
\* (the objects, pods and StatefulSets of one owner in one step).
Collected(r) == roots[r].st = "gone" \/ (roots[r].st = "going" /\ roots[r].mode = "fg")

CollectNode(n) ==
    /\ roots[n].st = "there" /\ Controlled(n) /\ Collected(Set)
    /\ LET mode == IF There(Set) THEN "fg" ELSE "bg" IN
          /\ roots' = [roots EXCEPT ![n] = DeletedRoot(@, mode)]
          /\ excused' = excused \cup Forfeit(n, mode)
    /\ UNCHANGED <<world, mgr, objs, pods, seed, work, ns, count>>

CollectDependents(r) ==
    /\ Collected(r)
    /\ objs' = [o \in Objs |->
                  IF objs[o].st = "there" /\ objs[o].ref = r THEN Deleted(o, objs[o]) ELSE objs[o]]
    /\ pods' = [p \in DOMAIN pods |->
                  IF pods[p] = "run" /\ (p = r \/ (p = "signer" /\ r = Set)) THEN "term" ELSE pods[p]]
    /\ seed' = IF r = Set /\ seed \in {"up", "zero"} THEN "gone" ELSE seed
    /\ <<objs', pods', seed'>> # <<objs, pods, seed>>
    /\ UNCHANGED <<world, mgr, roots, work, ns, excused, count>>

\* The StatefulSet controller, and the collector when the StatefulSet is gone.
CollectSeed ==
    /\ seed \in {"zero", "gone"}
    /\ objs' = IF seed = "gone" /\ objs[SeedData].st = "there" /\ objs[SeedData].ref = "seed"
               THEN [objs EXCEPT ![SeedData] = Deleted(SeedData, @)] ELSE objs
    /\ pods' = IF pods.seed = "run" THEN [pods EXCEPT !.seed = "term"] ELSE pods
    /\ <<objs', pods'>> # <<objs, pods>>
    /\ UNCHANGED <<world, mgr, roots, seed, work, ns, excused, count>>

PodEnds(p) ==
    /\ pods[p] = "term"
    /\ pods' = [pods EXCEPT ![p] = None]
    /\ objs' = [o \in Objs |->
                  IF User(o) = p /\ objs[o].st = "going" THEN [objs[o] EXCEPT !.st = "gone"]
                  ELSE objs[o]]
    /\ UNCHANGED <<world, mgr, roots, seed, work, ns, excused, count>>

\* A root that waits for its dependents.
Vanish(r) ==
    /\ roots[r].st = "going" /\ ~roots[r].fin
    /\ \A o \in Objs : objs[o].ref = r => objs[o].st = "gone"
    /\ IF r = Set THEN seed \notin {"up", "zero"} /\ \A n \in Nodes : Controlled(n) => ~There(n)
       ELSE pods[r] \in {None, "foreign"}
    /\ roots' = [roots EXCEPT ![r].st = "gone"]
    /\ UNCHANGED <<world, mgr, objs, pods, seed, work, ns, excused, count>>

\* Someone ends a pod that is in the way, or scales or deletes the StatefulSet.
EndForeign(p) ==
    /\ \/ pods[p] = "foreign" /\ pods' = [pods EXCEPT ![p] = None] /\ UNCHANGED seed
       \/ p = "seed" /\ seed = "foreign" /\ seed' \in {"scaled", "gone"} /\ UNCHANGED pods
    /\ UNCHANGED <<world, mgr, roots, objs, work, ns, excused, count>>

LoseReference(n) ==
    /\ There(n) /\ Controlled(n)
    /\ roots' = [roots EXCEPT ![n].ref = None]
    /\ Fault
    /\ UNCHANGED <<world, mgr, objs, pods, seed, work, ns, excused>>

\* The namespace is deleted, and everything in it.
DeleteNamespace ==
    /\ ~ns /\ count.deletes < world.max.deletes
    /\ count' = [count EXCEPT !.deletes = @ + 1]
    /\ ns' = TRUE
    /\ UNCHANGED <<world, mgr, roots, objs, pods, seed, work, excused>>

PurgeRoot(r) ==
    /\ ns /\ roots[r].st = "there"
    /\ roots' = [roots EXCEPT ![r] = DeletedRoot(@, "bg")]
    /\ UNCHANGED <<world, mgr, objs, pods, seed, work, ns, excused, count>>

Purge ==
    /\ ns
    /\ pods' = [p \in DOMAIN pods |-> IF pods[p] \in {"run", "foreign"} THEN "term" ELSE pods[p]]
    /\ objs' = [o \in Objs |-> Deleted(o, objs[o])]
    /\ seed' = "gone"
    /\ <<pods', objs', seed'>> # <<pods, objs, seed>>
    /\ UNCHANGED <<world, mgr, roots, work, ns, excused, count>>

----------------------------------------------------------------------------
(* The controller of ChainNodes *)

Up(r) == mgr.pc = "ready" /\ work[r].pc = "idle"

Protects(n) ==
    /\ Up(n) /\ ~ns
    /\ roots[n].st = "there" /\ ~roots[n].fin
    /\ roots' = [roots EXCEPT ![n].fin = TRUE]
    /\ UNCHANGED <<world, mgr, objs, pods, seed, work, ns, excused, count>>

\* A reconciliation, as far as it concerns durable objects: the volume and the key,
\* then the pod.  The node is the one that was read at its start.
Reconcile(n) ==
    /\ Up(n) /\ ~ns
    /\ roots[n].st = "there" /\ roots[n].fin
    /\ work' = [work EXCEPT ![n].pc = "volumes", ![n].read = roots[n]]
    /\ UNCHANGED <<world, mgr, roots, objs, pods, seed, ns, excused, count>>

Generated(o, n, ref) == [st |-> "there", ref |-> None, root |-> RootOwnerFor(n, ref), by |-> n]

\* What is created for a node that has gone in the meantime is never cleaned up, and
\* what a recorded child without its reference creates is not the ChainNodeSet's.
Unowned(n) ==
    roots[n].st # "there" \/ (Recorded(n) # None /\ work[n].read.ref = None)

EnsureVolumes(n) ==
    /\ work[n].pc = "volumes"
    /\ IF ns THEN Return(n) /\ UNCHANGED <<objs, excused>>
       ELSE /\ objs' = [o \in Objs |->
                  CASE o.of # n -> objs[o]
                    [] o.of = n /\ objs[o].st = "gone" -> Generated(o, n, work[n].read.ref)
                    [] OTHER -> PrepareGeneratedResource(o, n, work[n].read.ref)]
            /\ excused' = excused \cup {o \in Objs : o.of = n /\ objs[o].st = "gone" /\ Unowned(n)}
            /\ Goto(n, "pod")
    /\ UNCHANGED <<world, mgr, roots, pods, seed, ns, count>>

EnsurePod(n) ==
    /\ work[n].pc = "pod"
    /\ Return(n)
    /\ pods' = IF pods[n] = None /\ ~ns THEN [pods EXCEPT ![n] = "run"] ELSE pods
    /\ excused' = excused \cup (IF roots[n].st # "there" /\ pods' # pods
                               THEN {[kind |-> "pod", of |-> n]} ELSE {})
    /\ UNCHANGED <<world, mgr, roots, objs, seed, ns, count>>

\* effectiveDeletionPolicy
EffectivePolicy(n) == world.deletes[IF Controlled(n) /\ There(Set) THEN Set ELSE n]

\* refuseOrphanedRecordedChild
RefuseOrphanedRecordedChild(n) ==
    There(Set) /\ Recorded(n) \in {"name", "exact"} /\ RootOwnerFor(n, roots[n].ref) # Set

Finalize(n) ==
    /\ Up(n)
    /\ roots[n].st = "going" /\ roots[n].fin
    /\ ~ns => ~RefuseOrphanedRecordedChild(n)
    /\ work' = [work EXCEPT ![n] = [Idle EXCEPT !.pc = "stop", !.read = roots[n], !.ns = ns,
                                              !.deletes = EffectivePolicy(n)]]
    /\ UNCHANGED <<world, mgr, roots, objs, pods, seed, ns, excused, count>>

\* quiesceNodePod
Stop(n) ==
    /\ work[n].pc = "stop"
    /\ IF pods[n] = None THEN Goto(n, IF work[n].ns THEN "drop" ELSE "attribute") ELSE Return(n)
    /\ pods' = IF pods[n] = "run" THEN [pods EXCEPT ![n] = "term"] ELSE pods
    /\ UNCHANGED <<world, mgr, roots, objs, seed, ns, excused, count>>

Attributed(n, ref) ==
    [o \in Objs |->
        IF objs[o].st # "gone" /\ objs[o].ref = n THEN PrepareGeneratedResource(o, n, ref)
        ELSE objs[o]]

Attribute(n) ==
    /\ work[n].pc = "attribute"
    /\ objs' = Attributed(n, work[n].read.ref)
    /\ Goto(n, "apply")
    /\ UNCHANGED <<world, mgr, roots, pods, seed, ns, excused, count>>

Apply(n) ==
    /\ work[n].pc = "apply"
    /\ LET root == RootOwnerFor(n, work[n].read.ref) IN
          /\ objs' = Finalized(objs, root, n, work[n].deletes)
          /\ IF FinalizeDone(objs', root, n, work[n].deletes) THEN Goto(n, "drop") ELSE Return(n)
    /\ UNCHANGED <<world, mgr, roots, pods, seed, ns, excused, count>>

\* The write is refused when the node changed since it was read.  One finalizer
\* stands for those of the cleanup and of the signer, which this write removes
\* together.
Drop(r) ==
    /\ work[r].pc = "drop"
    /\ Return(r)
    /\ roots' = IF roots[r] = work[r].read THEN [roots EXCEPT ![r] = Gone(@)] ELSE roots
    /\ UNCHANGED <<world, mgr, objs, pods, seed, ns, excused, count>>

----------------------------------------------------------------------------
(* The controller of ChainNodeSets *)

ProtectsSet ==
    /\ Up(Set) /\ ~ns
    /\ roots[Set].st = "there" /\ ~roots[Set].fin
    /\ roots' = [roots EXCEPT ![Set].fin = TRUE]
    /\ UNCHANGED <<world, mgr, objs, pods, seed, work, ns, excused, count>>

\* deleteNodeWithCleanupFinalizer and DeleteNodeStatus: a group shrinks.
RemoveNode(n) ==
    /\ Up(Set) /\ ~ns
    /\ count.deletes < world.max.deletes
    /\ count' = [count EXCEPT !.deletes = @ + 1]
    /\ roots[Set].st = "there" /\ roots[Set].fin
    /\ There(n) /\ (Controlled(n) \/ Recorded(n) = "exact")
    /\ roots[n].st = "going" => roots[n].fin
    /\ roots' = [roots EXCEPT ![n] = [@ EXCEPT !.ref = Set, !.rec = None, !.fin = TRUE, !.st = "going",
                                              !.mode = IF @ = "fg" THEN @ ELSE "bg"]]
    /\ UNCHANGED <<world, mgr, objs, pods, seed, work, ns, excused>>

FinalizeSet ==
    /\ Up(Set)
    /\ roots[Set].st = "going" /\ roots[Set].fin
    /\ work' = [work EXCEPT ![Set] = [Idle EXCEPT !.pc = "signer", !.read = roots[Set], !.ns = ns,
                                                !.deletes = world.deletes[Set]]]
    /\ UNCHANGED <<world, mgr, roots, objs, pods, seed, ns, excused, count>>

\* QuiesceOwner
QuiesceSigner ==
    /\ work[Set].pc = "signer"
    /\ IF pods.signer = None
       THEN work' = [work EXCEPT ![Set].pc = "children", ![Set].todo = {n \in Nodes : There(n)}]
       ELSE Return(Set)
    /\ pods' = IF pods.signer = "run" THEN [pods EXCEPT !.signer = "term"] ELSE pods
    /\ UNCHANGED <<world, mgr, roots, objs, seed, ns, excused, count>>

\* What quiesceAndDeleteChildren does next with a child.
Take(n) ==
    CASE ~There(n) -> "skip"
      [] There(n) /\ ~Controlled(n) ->
            (CASE Recorded(n) = None -> "skip" [] Recorded(n) = "exact" -> "restore" [] OTHER -> "refuse")
      [] There(n) /\ Controlled(n) -> IF roots[n].st = "there" THEN "delete" ELSE "stop"

Rest(n) == [work[Set] EXCEPT !.todo = @ \ {n}]

TakeChild(n) ==
    /\ work[Set].pc = "children" /\ n \in work[Set].todo
    /\ \/ /\ Take(n) = "skip"
          /\ work' = [work EXCEPT ![Set] = Rest(n)]
          /\ UNCHANGED roots
       \/ /\ Take(n) = "refuse"
          /\ Return(Set)
          /\ UNCHANGED roots
       \/ /\ Take(n) = "restore"
          /\ Return(Set)
          /\ roots' = [roots EXCEPT ![n].ref = Set]
       \/ /\ Take(n) = "delete"
          /\ work' = [work EXCEPT ![Set] = [Rest(n) EXCEPT !.done = FALSE]]
          /\ roots' = [roots EXCEPT ![n] = [@ EXCEPT !.fin = TRUE, !.st = "going", !.mode = "bg"]]
       \/ /\ Take(n) = "stop"
          /\ work' = [work EXCEPT ![Set] = [Rest(n) EXCEPT !.pc = "stop", !.child = n, !.read = roots[n]]]
          /\ UNCHANGED roots
    /\ UNCHANGED <<world, mgr, objs, pods, seed, ns, excused, count>>

\* The next child, this one not being done.
Later == work' = [work EXCEPT ![Set].pc = "children", ![Set].done = FALSE, ![Set].child = None]

\* A variant that deletes the pod and does not wait.
StopChildAtOnce ==
    /\ work[Set].pc = "stop"
    /\ Goto(Set, "attribute")
    /\ LET n == work[Set].child IN pods' = IF pods[n] = "run" THEN [pods EXCEPT ![n] = "term"] ELSE pods
    /\ UNCHANGED <<world, mgr, roots, objs, seed, ns, excused, count>>

\* quiesceChildPod
StopChild ==
    /\ work[Set].pc = "stop"
    /\ LET n == work[Set].child IN
          /\ CASE pods[n] = None -> Goto(Set, "attribute")
               [] pods[n] = "foreign" -> Return(Set)
               [] OTHER -> Later
          /\ pods' = IF pods[n] = "run" THEN [pods EXCEPT ![n] = "term"] ELSE pods
    /\ UNCHANGED <<world, mgr, roots, objs, seed, ns, excused, count>>

\* attributeControlledLegacyChildResources
AttributeChild ==
    /\ work[Set].pc = "attribute"
    /\ objs' = Attributed(work[Set].child, work[Set].read.ref)
    /\ Goto(Set, "apply")
    /\ UNCHANGED <<world, mgr, roots, pods, seed, ns, excused, count>>

\* finalizeChildDurableResources
ApplyChild ==
    /\ work[Set].pc = "apply"
    /\ LET n == work[Set].child
           root == RootOwnerFor(n, work[Set].read.ref)
       IN /\ objs' = Finalized(objs, root, n, work[Set].deletes)
          /\ IF FinalizeDone(objs', root, n, work[Set].deletes) THEN Goto(Set, "dropChild") ELSE Later
    /\ UNCHANGED <<world, mgr, roots, pods, seed, ns, excused, count>>

DropChild ==
    /\ work[Set].pc = "dropChild"
    /\ LET n == work[Set].child IN
          CASE ~There(n) ->
                 work' = [work EXCEPT ![Set].pc = "children", ![Set].child = None] /\ UNCHANGED roots
            [] There(n) /\ roots[n] # work[Set].read -> Return(Set) /\ UNCHANGED roots
            [] OTHER ->
                 /\ roots' = [roots EXCEPT ![n] = Gone(@)]
                 /\ work' = [work EXCEPT ![Set].pc = "children", ![Set].child = None,
                                        ![Set].done = @ /\ Gone(roots[n]).st = "gone"]
    /\ UNCHANGED <<world, mgr, objs, pods, seed, ns, excused, count>>

ChildrenDone ==
    /\ work[Set].pc = "children" /\ work[Set].todo = {}
    /\ IF work[Set].done THEN Goto(Set, "seed") ELSE Return(Set)
    /\ UNCHANGED <<world, mgr, roots, objs, pods, seed, ns, excused, count>>

\* Only the migration takes a volume over from the StatefulSet that owns it: after
\* one that failed, the collector follows the reference when the StatefulSet goes.
LeftToSeed == IF seed' = "gone" /\ objs[SeedData].ref = "seed" THEN {SeedData} ELSE {}

\* quiesceCosmoseed.  A StatefulSet of another owner is in the way until it is
\* scaled to zero or gone, whether it has pods or not.
QuiesceSeed ==
    /\ work[Set].pc = "seed"
    /\ IF pods.seed = None /\ seed \in {"zero", "scaled", "gone"}
       THEN Goto(Set, IF work[Set].ns THEN "dropSet" ELSE "state") ELSE Return(Set)
    /\ seed' = CASE seed = "up" -> "zero" [] seed = "zero" /\ pods.seed = None -> "gone" [] OTHER -> seed
    /\ pods' = IF seed = "zero" /\ pods.seed = "run" THEN [pods EXCEPT !.seed = "term"] ELSE pods
    /\ excused' = excused \cup LeftToSeed
    /\ UNCHANGED <<world, mgr, roots, objs, ns, count>>

\* FinalizeOwner
FinalizeState ==
    /\ work[Set].pc = "state"
    /\ objs' = IF "state" \in work[Set].deletes THEN [objs EXCEPT ![State] = Deleted(State, @)] ELSE objs
    /\ Goto(Set, "keys")
    /\ UNCHANGED <<world, mgr, roots, pods, seed, ns, excused, count>>

\* attributeControlledLegacyKeys
AttributeKeys ==
    /\ work[Set].pc = "keys"
    /\ objs' = Attributed(Set, None)
    /\ Goto(Set, "applySet")
    /\ UNCHANGED <<world, mgr, roots, pods, seed, ns, excused, count>>

ApplySet ==
    /\ work[Set].pc = "applySet"
    /\ objs' = Finalized(objs, Set, Set, work[Set].deletes)
    /\ IF FinalizeDone(objs', Set, Set, work[Set].deletes) THEN Goto(Set, "dropSet") ELSE Return(Set)
    /\ UNCHANGED <<world, mgr, roots, pods, seed, ns, excused, count>>

DropSet ==
    /\ work[Set].pc = "dropSet"
    /\ Return(Set)
    /\ roots' = [roots EXCEPT ![Set] = Gone(@)]
    /\ UNCHANGED <<world, mgr, objs, pods, seed, ns, excused, count>>

----------------------------------------------------------------------------

InitialObject(w, o) ==
    IF User(o) \notin w.parts \cup {Set} \/ w.life = "new"
    THEN [st |-> "gone", ref |-> None, root |-> None, by |-> None]
    ELSE IF o \in w.users THEN [st |-> "there", ref |-> None, root |-> None, by |-> None]
    ELSE IF w.life = "legacy"
    THEN [st |-> "there", root |-> None, by |-> None,
          ref |-> CASE o = SeedData -> "seed" [] o = State -> None [] OTHER -> o.of]
    ELSE [st |-> "there", ref |-> None,
          root |-> IF o.of \in Nodes THEN RootOwnerFor(o.of, w.refs[o.of]) ELSE Set,
          by |-> IF o.of \in Nodes THEN o.of ELSE Set]

Init ==
    /\ world \in Worlds
    /\ mgr = IF world.life = "new" THEN [Restart EXCEPT !.pc = "ready", !.todo = {}] ELSE Restart
    /\ roots = [r \in Roots |-> IF r \notin world.parts \cup {Set} THEN Absent ELSE
                               [st |-> "there", fin |-> world.life = "stamped", mode |-> None,
                                ref |-> IF r = Set THEN None ELSE world.refs[r],
                                rec |-> IF r = Set THEN None ELSE world.recs[r]]]
    /\ objs = [o \in Objs |-> InitialObject(world, o)]
    /\ pods = [p \in Nodes \cup {"seed", "signer"} |->
                  IF p \notin world.parts \/ world.life = "new" THEN None
                  ELSE IF p \in world.foreign THEN "foreign" ELSE "run"]
    /\ seed = CASE "seed" \notin world.parts -> "gone"
                [] "seed" \in world.foreign -> "foreign"
                [] OTHER -> "up"
    /\ work = [r \in Roots |-> Idle]
    /\ ns = FALSE /\ excused = {}
    /\ count = [deletes |-> 0, faults |-> 0]

Manager == (\E r \in Roots : Protect(r) \/ Migrate(r)) \/ Protected \/ Ready

NodePass(n) ==
    \/ Protects(n) \/ Reconcile(n) \/ EnsureVolumes(n) \/ EnsurePod(n)
    \/ Finalize(n) \/ Stop(n) \/ Attribute(n) \/ Apply(n) \/ Drop(n)

SetPass ==
    \/ ProtectsSet \/ FinalizeSet \/ QuiesceSigner
    \/ \E n \in Nodes : TakeChild(n)
    \/ StopChild \/ AttributeChild \/ ApplyChild \/ DropChild \/ ChildrenDone
    \/ QuiesceSeed \/ FinalizeState \/ AttributeKeys \/ ApplySet \/ DropSet

Cluster ==
    \/ \E n \in Nodes : CollectNode(n)
    \/ \E p \in DOMAIN pods : PodEnds(p)
    \/ \E r \in Roots : CollectDependents(r) \/ Vanish(r) \/ PurgeRoot(r)
    \/ CollectSeed
    \/ Purge

Others ==
    \/ Crash \/ DeleteNamespace
    \/ \E r \in Roots : UserDeletes(r)
    \/ \E n \in Nodes : RemoveNode(n) \/ LoseReference(n)
    \/ \E p \in DOMAIN pods : EndForeign(p)

Next == Manager \/ (\E n \in Nodes : NodePass(n)) \/ SetPass \/ Cluster \/ Others

Spec == Init /\ [][Next]_vars

----------------------------------------------------------------------------

\* The root that an object was made for, and whether its policy deletes it.
RootOf(o) == IF o.of \in Nodes /\ world.refs[o.of] = None THEN o.of ELSE Set

ToDelete(o) == o \notin world.users /\ o.kind \in world.deletes[RootOf(o)]

Deleting(r) == roots[r].st # "there"

\* An object that policy retains, or that the user provided, never goes away: not
\* by the collector, not by a pass of either controller, not while a sibling or a
\* namesake is deleted, nor after a crash.  Even what policy deletes goes only when
\* its owner is being deleted.  A failed migration loses nothing either, with one
\* exception: the volume of a seed whose StatefulSet still owns it, which the set's
\* own pass then gives to the collector (LeftToSeed).  Excused are also objects that
\* hang on a root by reference when it is deleted unprotected or foreground
\* (Forfeit).
RetainedKept ==
    [][\A o \in Objs : objs[o].st = "there" /\ objs'[o].st # "there" =>
          \/ ns \/ o \in excused
          \/ ToDelete(o) /\ (Deleting(RootOf(o)) \/ (o.of \in Nodes /\ Deleting(o.of)))]_vars

\* A ChainNodeSet lets go of its finalizer only when everything generated for it or
\* for a child of it that is gone, and that policy deletes, is gone or has an owner
\* reference for the collector to follow.  (Excused is what is created for a child
\* that is gone, or by one that lost its reference to the set.)
DeleteDone ==
    [][roots[Set].fin /\ ~roots'[Set].fin /\ ~work[Set].ns =>
          \A o \in Objs : ToDelete(o) /\ RootOf(o) = Set /\ (o.of \in Nodes => ~There(o.of)) =>
             objs[o].st = "gone" \/ objs[o].ref # None \/ o \in excused]_vars

\* A root lets go of its finalizer only after the pods that use its objects are gone,
\* whoever of the two controllers finalizes it and also when the namespace goes.
\* (Excused is a pod that a reconciliation from before the deletion creates.)
StopFirst ==
    [][\A r \in Roots : roots[r].fin /\ ~roots'[r].fin =>
          IF r = Set THEN pods.seed = None /\ pods.signer = None
          ELSE pods[r] = None \/ [kind |-> "pod", of |-> r] \in excused]_vars

=============================================================================
