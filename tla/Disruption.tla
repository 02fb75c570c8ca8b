----------------------------- MODULE Disruption -----------------------------
(***************************************************************************)
(* Planned restarts of node pods under disruption control.                 *)
(*                                                                         *)
(* When the desired spec or config of a pod changes, the reconcile of its  *)
(* ChainNode recreates it.  Nodes that serve the same purpose carry the    *)
(* same disruption labels (all validators of a chain; the nodes of a       *)
(* group), and the lock manager hands out one mutex per label set, held    *)
(* from the disruption check until the container of the new pod has        *)
(* started.  Reconciles of different nodes run in concurrent workers.      *)
(*                                                                         *)
(* A pod is recreated without the lock when it failed, and created without *)
(* it when it is missing: neither takes an available pod away.             *)
(***************************************************************************)
EXTENDS Naturals, FiniteSets

CONSTANTS Nodes,          \* ChainNodes
          Labels,         \* disruption label sets, as lock keys
          LabelsOf,       \* the label set of each node
          Halted,         \* nodes that reached their halt height
          MaxLocks,       \* maxLocks, the capacity of the lock manager
          MaxUnavailable, \* the option -disruption-max-unavailable
          MaxChanges,     \* how many changes of the desired pods may happen
          MaxFaults       \* how many errors, pod failures and crashes

ASSUME DisruptionAssumption ==
    /\ LabelsOf \in [Nodes -> Labels]
    /\ Halted \subseteq Nodes
    /\ MaxLocks \in Nat \ {0}
    /\ MaxUnavailable \in Nat
    /\ MaxChanges \in Nat
    /\ MaxFaults \in Nat

VARIABLES pods,     \* the pod of each node, as the API server reports it
          outdated, \* nodes whose pod differs from the desired one
          built,    \* nodes whose reconcile built the pod desired now
          locks,    \* the label sets the lock manager keeps a mutex for
          held,     \* the node whose reconcile holds each mutex, if any
          want,     \* the mutex the reconcile of a node was given, if any
          pc,       \* where the reconcile of each node stands
          changes,  \* changes of the desired pods so far
          faults    \* errors, pod failures and crashes so far

vars == <<pods, outdated, built, locks, held, want, pc, changes, faults>>

PodStates == {"starting", "ready", "failed", "terminating", "gone"}

Steps == {"idle", "lock", "check", "delete", "wait", "create", "started"}

AtMostOne(S) == {{}} \cup {{x} : x \in S}

Goto(n, step) == pc' = [pc EXCEPT ![n] = step]

Group(l) == {n \in Nodes : LabelsOf[n] = l}

----------------------------------------------------------------------------
(* Helpers *)

\* A variant that returns any mutex it has although the manager is not full.
AnyLockFor(l) == locks \cup {l}

\* getLockForLabels: the mutexes a call for label set l may return.  A full
\* manager that does not know l returns whichever its map yields first.
LockFor(l) == IF l \in locks \/ Cardinality(locks) < MaxLocks THEN {l} ELSE locks

\* isPodRunningAndReady
IsReady(status) == status = "ready"

\* The status of the pod getPodSpec builds, which is the one recreatePod is
\* given: nothing was reported about it yet.
BuiltStatus == "unreported"

\* unavailablePodCount of listPodsWithLabels: a missing pod is not listed.
Unavailable(l) ==
    Cardinality({n \in Group(l) : pods[n] # "gone" /\ ~IsReady(pods[n])})

\* checkDisruptionAllowance
Allowed(l) == Unavailable(l) < MaxUnavailable

\* A variant that forgets the mutex it holds.
ReturnLocked(n) ==
    /\ Goto(n, "idle")
    /\ want' = [want EXCEPT ![n] = {}]
    /\ UNCHANGED held

\* recreatePod returns: the deferred unlock runs.
Return(n) ==
    /\ Goto(n, "idle")
    /\ held' = [l \in Labels |-> held[l] \ {n}]
    /\ want' = [want EXCEPT ![n] = {}]

----------------------------------------------------------------------------
(* ensurePod: what to do with the pod that is found *)

\* The spec or the config changed: a planned restart, under the lock.
PlanRestart(n) ==
    /\ pc[n] = "idle"
    /\ n \in outdated
    /\ pods[n] \in {"starting", "ready"}
    /\ \E l \in LockFor(LabelsOf[n]) :
         /\ want' = [want EXCEPT ![n] = {l}]
         /\ locks' = locks \cup {l}
    /\ built' = built \cup {n}
    /\ Goto(n, "lock")
    /\ UNCHANGED <<pods, outdated, held, changes, faults>>

\* A failed pod is recreated at once, without disruption control.
ReplaceFailed(n) ==
    /\ pc[n] = "idle"
    /\ pods[n] = "failed"
    /\ built' = built \cup {n}
    /\ Goto(n, "delete")
    /\ UNCHANGED <<pods, outdated, locks, held, want, changes, faults>>

\* A terminating pod is awaited, then created; a missing pod is created.
EnsureCreated(n) ==
    /\ pc[n] = "idle"
    /\ \/ pods[n] = "terminating"
       \/ pods[n] = "gone" /\ n \notin Halted
    /\ built' = built \cup {n}
    /\ Goto(n, "wait")
    /\ UNCHANGED <<pods, outdated, locks, held, want, changes, faults>>

----------------------------------------------------------------------------
(* recreatePod *)

Lock(n) ==
    /\ pc[n] = "lock"
    /\ \E l \in want[n] :
         /\ held[l] = {}
         /\ held' = [held EXCEPT ![l] = {n}]
    /\ Goto(n, "check")
    /\ UNCHANGED <<pods, outdated, built, locks, want, changes, faults>>

Check(n) ==
    /\ pc[n] = "check"
    /\ IF IsReady(BuiltStatus) /\ ~Allowed(LabelsOf[n])
         THEN Return(n)
         ELSE Goto(n, "delete") /\ UNCHANGED <<held, want>>
    /\ UNCHANGED <<pods, outdated, built, locks, changes, faults>>

\* The pod is deleted; that of a halted node is not awaited.  Deleting a pod
\* that is gone is an error.
Delete(n) ==
    /\ pc[n] = "delete"
    /\ pods' = [pods EXCEPT ![n] = IF pods[n] = "gone" THEN "gone" ELSE "terminating"]
    /\ IF n \in Halted \/ pods[n] = "gone"
         THEN Return(n)
         ELSE Goto(n, "wait") /\ UNCHANGED <<held, want>>
    /\ UNCHANGED <<outdated, built, locks, changes, faults>>

WaitDeleted(n) ==
    /\ pc[n] = "wait"
    /\ pods[n] = "gone"
    /\ IF n \in Halted
         THEN Return(n)
         ELSE Goto(n, "create") /\ UNCHANGED <<held, want>>
    /\ UNCHANGED <<pods, outdated, built, locks, changes, faults>>

Create(n) ==
    /\ pc[n] = "create"
    /\ pods' = [pods EXCEPT ![n] = "starting"]
    /\ outdated' = outdated \ (built \cap {n})
    /\ Goto(n, "started")
    /\ UNCHANGED <<built, locks, held, want, changes, faults>>

\* WaitForContainerStarted returns: the container started, which does not make
\* it ready, or the wait ended with an error.
Started(n) ==
    /\ pc[n] = "started"
    /\ Return(n)
    /\ UNCHANGED <<pods, outdated, built, locks, changes, faults>>

\* Any call of the reconcile fails or times out.
Fail(n) ==
    /\ pc[n] \notin {"idle", "lock"}
    /\ faults < MaxFaults
    /\ faults' = faults + 1
    /\ Return(n)
    /\ UNCHANGED <<pods, outdated, built, locks, changes>>

\* The manager restarts with an empty lock manager.
Crash ==
    /\ faults < MaxFaults
    /\ faults' = faults + 1
    /\ pc' = [n \in Nodes |-> "idle"]
    /\ want' = [n \in Nodes |-> {}]
    /\ held' = [l \in Labels |-> {}]
    /\ locks' = {}
    /\ UNCHANGED <<pods, outdated, built, changes>>

----------------------------------------------------------------------------
(* The environment *)

\* A change of a spec reaches any set of nodes, as a ChainNodeSet spreads it.
Change ==
    /\ changes < MaxChanges
    /\ changes' = changes + 1
    /\ \E S \in SUBSET Nodes \ {{}} :
         /\ outdated' = outdated \cup S
         /\ built' = built \ S
    /\ UNCHANGED <<pods, locks, held, want, pc, faults>>

PodReady(n) ==
    /\ pods[n] = "starting"
    /\ pods' = [pods EXCEPT ![n] = "ready"]
    /\ UNCHANGED <<outdated, built, locks, held, want, pc, changes, faults>>

PodGone(n) ==
    /\ pods[n] = "terminating"
    /\ pods' = [pods EXCEPT ![n] = "gone"]
    /\ UNCHANGED <<outdated, built, locks, held, want, pc, changes, faults>>

\* A container terminates, or somebody else deletes or evicts the pod.
PodFails(n) ==
    /\ pods[n] \in {"starting", "ready"}
    /\ faults < MaxFaults
    /\ faults' = faults + 1
    /\ \E s \in {"failed", "terminating"} : pods' = [pods EXCEPT ![n] = s]
    /\ UNCHANGED <<outdated, built, locks, held, want, pc, changes>>

----------------------------------------------------------------------------
(* The specification *)

Init ==
    /\ pods = [n \in Nodes |-> "ready"]
    /\ outdated = {}
    /\ built = {}
    /\ locks = {}
    /\ held = [l \in Labels |-> {}]
    /\ want = [n \in Nodes |-> {}]
    /\ pc = [n \in Nodes |-> "idle"]
    /\ changes = 0
    /\ faults = 0

Reconcile(n) ==
    \/ PlanRestart(n) \/ ReplaceFailed(n) \/ EnsureCreated(n) \/ Lock(n)
    \/ Check(n) \/ Delete(n) \/ WaitDeleted(n) \/ Create(n) \/ Started(n)

Kubelet(n) == PodReady(n) \/ PodGone(n)

Next ==
    \/ \E n \in Nodes : Reconcile(n) \/ Kubelet(n) \/ Fail(n) \/ PodFails(n)
    \/ Crash
    \/ Change

Spec == Init /\ [][Next]_vars

\* Workers run, the work queue retries, and the kubelet acts.
FairSpec == Spec /\ \A n \in Nodes : WF_vars(Reconcile(n)) /\ WF_vars(Kubelet(n))

----------------------------------------------------------------------------
(* Properties *)

\* Every mutex of the lock manager has at most one holder, and belongs to a
\* label set the manager knows.
TypeOK ==
    /\ pods \in [Nodes -> PodStates]
    /\ outdated \subseteq Nodes
    /\ built \subseteq Nodes
    /\ locks \subseteq Labels
    /\ held \in [Labels -> AtMostOne(Nodes)]
    /\ want \in [Nodes -> AtMostOne(locks)]
    /\ pc \in [Nodes -> Steps]
    /\ changes \in 0..MaxChanges
    /\ faults \in 0..MaxFaults

Down(n) == pods[n] \in {"terminating", "gone"}

\* Nodes with the same disruption labels are taken down one by one: as long
\* as no call failed and nothing crashed, a planned restart deletes a pod
\* only after the previous pod it had deleted was created again.
RollsOneByOne ==
    faults = 0 => \A n, m \in Nodes \ Halted :
        LabelsOf[n] = LabelsOf[m] /\ Down(n) /\ Down(m) => n = m

\* A planned restart takes a ready pod away only while fewer than
\* -disruption-max-unavailable pods with its labels are unavailable.
MaxUnavailableRespected ==
    [][\A n \in Nodes :
         pods[n] = "ready" /\ pods'[n] = "terminating" /\ faults' = faults
           => Unavailable(LabelsOf[n]) < MaxUnavailable]_vars

\* Every change of the desired pods is rolled out to every running node,
\* whatever fails on the way: no mutex is lost and no reconcile waits forever.
RolloutCompletes == \A n \in Nodes \ Halted : []<>(n \notin outdated)

----------------------------------------------------------------------------
(* The inductive invariant behind RollsOneByOne *)

\* The steps that a planned restart takes under the mutex.
Locked == {"check", "delete", "wait", "create", "started"}

\* A reconcile asks for the mutex of its own label set only, which is what a
\* lock manager that never fills up hands out.
WantsOwn == \A n \in Nodes : want[n] \subseteq {LabelsOf[n]}

\* As long as nothing failed, a node whose pod is taken down or that is about to
\* be is in a reconcile that holds the mutex of its labels.
HoldsWhileDown ==
    faults = 0 => \A n \in Nodes \ Halted :
      /\ pods[n] # "failed"
      /\ Down(n) => pc[n] \in {"wait", "create"}
      /\ pc[n] \in Locked => n \in held[LabelsOf[n]]

IInv == TypeOK /\ WantsOwn /\ HoldsWhileDown

=============================================================================
