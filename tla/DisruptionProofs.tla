-------------------------- MODULE DisruptionProofs --------------------------
(***************************************************************************)
(* Proofs about Disruption, for every set of nodes and of labels, every    *)
(* bound and any number of halted nodes.  That restarts of a label set are *)
(* serial rests on the lock manager having room for all label sets: a full *)
(* one hands out mutexes of others, and two nodes of one label set may get *)
(* different ones.                                                         *)
(***************************************************************************)
EXTENDS Disruption, FiniteSetTheorems, TLAPS

\* The lock manager has room for every label set.
Roomy == IsFiniteSet(Labels) /\ Cardinality(Labels) <= MaxLocks

\* A lock manager with room for all hands out the mutex that was asked for.
LEMMA LockForIsOwn ==
    ASSUME Roomy, locks \subseteq Labels, NEW l \in Labels
    PROVE  LockFor(l) = {l}
<1>1. CASE l \in locks
  BY <1>1 DEF LockFor
<1>2. CASE l \notin locks
  <2>1. /\ Cardinality(locks) <= Cardinality(Labels)
        /\ Cardinality(Labels) # Cardinality(locks)
    BY <1>2, FS_Subset DEF Roomy
  <2>2. Cardinality(locks) \in Nat /\ Cardinality(Labels) \in Nat
    BY FS_Subset, FS_CardinalityType DEF Roomy
  <2>3. Cardinality(locks) < MaxLocks
    BY <2>1, <2>2, DisruptionAssumption DEF Roomy
  <2> QED BY <2>3 DEF LockFor
<1> QED BY <1>1, <1>2

\* Returning keeps every mutex with at most one holder.
LEMMA ReturnTypes ==
    ASSUME TypeOK, NEW n \in Nodes, Return(n)
    PROVE  /\ held' \in [Labels -> AtMostOne(Nodes)]
           /\ want' \in [Nodes -> AtMostOne(locks)]
           /\ pc' \in [Nodes -> Steps]
<1>1. held' \in [Labels -> AtMostOne(Nodes)]
  <2>1. held' = [l \in Labels |-> held[l] \ {n}]
    BY DEF Return
  <2>2. ASSUME NEW l \in Labels PROVE held[l] \ {n} \in AtMostOne(Nodes)
    BY DEF TypeOK, AtMostOne
  <2> QED BY <2>1, <2>2
<1>2. want' \in [Nodes -> AtMostOne(locks)]
  BY DEF Return, TypeOK, AtMostOne
<1>3. pc' \in [Nodes -> Steps]
  BY DEF Return, Goto, TypeOK, Steps
<1> QED BY <1>1, <1>2, <1>3

\* Every step keeps the types: at most one holder of a mutex, and a mutex is
\* asked for only if the manager knows it.
LEMMA TypeStep ==
    ASSUME TypeOK, [Next]_vars
    PROVE  TypeOK'
<1>1. CASE UNCHANGED vars
  BY <1>1 DEF vars, TypeOK
<1>2. CASE Crash
  BY <1>2, DisruptionAssumption DEF Crash, TypeOK, AtMostOne, Steps
<1>3. CASE Change
  BY <1>3, DisruptionAssumption DEF Change, TypeOK
<1>4. ASSUME NEW n \in Nodes, PlanRestart(n) PROVE TypeOK'
  <2>1. PICK l \in LockFor(LabelsOf[n]) :
          want' = [want EXCEPT ![n] = {l}] /\ locks' = locks \cup {l}
    BY <1>4 DEF PlanRestart
  <2>2. l \in Labels
    BY DisruptionAssumption DEF LockFor, TypeOK
  <2>3. want' \in [Nodes -> AtMostOne(locks')]
    BY <2>1 DEF TypeOK, AtMostOne
  <2> QED BY <1>4, <2>1, <2>2, <2>3 DEF PlanRestart, Goto, TypeOK, Steps
<1>5. ASSUME NEW n \in Nodes, Lock(n) PROVE TypeOK'
  <2>1. PICK l \in want[n] : held' = [held EXCEPT ![l] = {n}]
    BY <1>5 DEF Lock
  <2>2. held' \in [Labels -> AtMostOne(Nodes)]
    BY <2>1 DEF TypeOK, AtMostOne
  <2> QED BY <1>5, <2>2 DEF Lock, Goto, TypeOK, Steps
<1>6. ASSUME NEW n \in Nodes, ReplaceFailed(n) \/ EnsureCreated(n) \/ Create(n)
      PROVE  TypeOK'
  BY <1>6 DEF ReplaceFailed, EnsureCreated, Create, Goto, TypeOK, Steps, PodStates
<1>7. ASSUME NEW n \in Nodes, Kubelet(n) \/ PodFails(n) PROVE TypeOK'
  BY <1>7, DisruptionAssumption DEF Kubelet, PodReady, PodGone, PodFails, TypeOK, PodStates
<1>8. ASSUME NEW n \in Nodes, Return(n), Started(n) \/ Check(n) \/ WaitDeleted(n) \/ Fail(n)
      PROVE  TypeOK'
  BY <1>8, ReturnTypes, DisruptionAssumption DEF Started, Check, WaitDeleted, Fail, TypeOK
<1>9. ASSUME NEW n \in Nodes, Check(n) \/ WaitDeleted(n), ~Return(n) PROVE TypeOK'
  BY <1>9 DEF Check, WaitDeleted, Goto, TypeOK, Steps
<1>10. ASSUME NEW n \in Nodes, Delete(n) PROVE TypeOK'
  <2>1. pods' \in [Nodes -> PodStates]
    BY <1>10 DEF Delete, TypeOK, PodStates
  <2>2. CASE Return(n)
    BY <1>10, <2>1, <2>2, ReturnTypes DEF Delete, TypeOK
  <2>3. CASE ~Return(n)
    BY <1>10, <2>1, <2>3 DEF Delete, Goto, TypeOK, Steps
  <2> QED BY <2>2, <2>3
<1>11. ASSUME NEW n \in Nodes, Started(n) \/ Fail(n) PROVE Return(n)
  BY <1>11 DEF Started, Fail
<1> QED BY <1>1, <1>2, <1>3, <1>4, <1>5, <1>6, <1>7, <1>8, <1>9, <1>10, <1>11
     DEF Next, Reconcile

\* A reconcile never asks for the mutex of another label set.
LEMMA WantsOwnStep ==
    ASSUME Roomy, TypeOK, WantsOwn, [Next]_vars
    PROVE  WantsOwn'
<1>1. ASSUME NEW n \in Nodes, PlanRestart(n) PROVE WantsOwn'
  <2>1. LockFor(LabelsOf[n]) = {LabelsOf[n]}
    BY LockForIsOwn, DisruptionAssumption DEF TypeOK
  <2>2. want' = [want EXCEPT ![n] = {LabelsOf[n]}]
    BY <1>1, <2>1 DEF PlanRestart
  <2> QED BY <2>2 DEF WantsOwn, TypeOK
<1>2. ASSUME NEW n \in Nodes, Return(n) PROVE WantsOwn'
  BY <1>2 DEF Return, WantsOwn, TypeOK
<1>3. CASE Crash
  BY <1>3 DEF Crash, WantsOwn
<1>4. CASE want' = want
  BY <1>4 DEF WantsOwn
<1>5. ASSUME NEW n \in Nodes, Reconcile(n) \/ Kubelet(n) \/ Fail(n) \/ PodFails(n),
             ~PlanRestart(n), ~Return(n)
      PROVE  want' = want
  BY <1>5 DEF Reconcile, Kubelet, Fail, PodFails, ReplaceFailed, EnsureCreated, Lock, Check,
     Delete, WaitDeleted, Create, Started, PodReady, PodGone
<1>6. CASE Change \/ UNCHANGED vars
  BY <1>4, <1>6 DEF Change, vars
<1> QED BY <1>1, <1>2, <1>3, <1>4, <1>5, <1>6 DEF Next

\* What HoldsWhileDown says of one node.
Holds(n) ==
    /\ pods[n] # "failed"
    /\ Down(n) => pc[n] \in {"wait", "create"}
    /\ pc[n] \in Locked => n \in held[LabelsOf[n]]

\* A step of the reconcile of one node does not concern the others: it moves its
\* own pod and gives or takes a mutex to or from nobody but itself.
LEMMA OthersHold ==
    ASSUME TypeOK, NEW n \in Nodes, Reconcile(n),
           NEW m \in Nodes, m # n, Holds(m)
    PROVE  Holds(m)'
<1>1. pods'[m] = pods[m] /\ pc'[m] = pc[m]
  BY DEF Reconcile, PlanRestart, ReplaceFailed, EnsureCreated, Lock, Check, Delete, WaitDeleted,
     Create, Started, Return, Goto, TypeOK
<1>2. m \in held[LabelsOf[m]] => m \in held'[LabelsOf[m]]
  <2>1. CASE Lock(n)
    BY <2>1, DisruptionAssumption DEF Lock, TypeOK
  <2>2. CASE Return(n)
    BY <2>2, DisruptionAssumption DEF Return
  <2>3. CASE ~Lock(n) /\ ~Return(n)
    BY <2>3 DEF Reconcile, PlanRestart, ReplaceFailed, EnsureCreated, Check, Delete,
       WaitDeleted, Create, Started
  <2> QED BY <2>1, <2>2, <2>3
<1> QED BY <1>1, <1>2 DEF Holds, Down

\* A step of a running node's own reconcile: the pod goes down only under the
\* mutex, and is there again when the mutex is given back.
LEMMA OwnHolds ==
    ASSUME TypeOK, WantsOwn, NEW n \in Nodes \ Halted, Reconcile(n), Holds(n)
    PROVE  Holds(n)'
<1>1. CASE PlanRestart(n)
  BY <1>1 DEF PlanRestart, Goto, TypeOK, Holds, Down, Locked
<1>2. CASE ReplaceFailed(n) \/ EnsureCreated(n)
  BY <1>2 DEF ReplaceFailed, EnsureCreated, Holds, Down
<1>3. CASE Lock(n)
  <2>1. pc'[n] = "check" /\ pc[n] = "lock" /\ pods' = pods
    BY <1>3 DEF Lock, Goto, TypeOK
  <2>2. n \in held'[LabelsOf[n]]
    BY <1>3, DisruptionAssumption DEF Lock, WantsOwn, TypeOK
  <2> QED BY <2>1, <2>2 DEF Holds, Down
<1>4. CASE Check(n)
  BY <1>4 DEF Check, IsReady, BuiltStatus, Goto, TypeOK, Holds, Down, Locked
<1>5. CASE Delete(n)
  <2>1. pc[n] = "delete" /\ pods[n] # "gone" /\ n \in held[LabelsOf[n]]
    BY <1>5 DEF Delete, Holds, Down, Locked
  <2>2. pods'[n] = "terminating" /\ pc'[n] = "wait" /\ held' = held
    BY <1>5, <2>1 DEF Delete, Goto, TypeOK
  <2> QED BY <2>1, <2>2 DEF Holds, Down
<1>6. CASE WaitDeleted(n)
  <2>1. pc[n] = "wait" /\ n \in held[LabelsOf[n]] /\ pods[n] = "gone"
    BY <1>6 DEF WaitDeleted, Holds, Locked
  <2>2. pc'[n] = "create" /\ held' = held /\ pods' = pods
    BY <1>6 DEF WaitDeleted, Goto, TypeOK
  <2> QED BY <2>1, <2>2 DEF Holds, Down
<1>7. CASE Create(n)
  <2>1. n \in held[LabelsOf[n]] /\ held' = held
    BY <1>7 DEF Create, Holds, Locked
  <2>2. pods'[n] = "starting"
    BY <1>7 DEF Create, TypeOK
  <2> QED BY <2>1, <2>2 DEF Holds, Down
<1>8. CASE Started(n)
  <2>1. pc[n] = "started" /\ pc'[n] = "idle" /\ pods' = pods
    BY <1>8 DEF Started, Return, Goto, TypeOK
  <2> QED BY <2>1 DEF Holds, Down, Locked
<1> QED BY <1>1, <1>2, <1>3, <1>4, <1>5, <1>6, <1>7, <1>8 DEF Reconcile

\* Without faults, the pods that are down stay under the mutex.
LEMMA HoldsStep ==
    ASSUME TypeOK, WantsOwn, HoldsWhileDown, [Next]_vars
    PROVE  HoldsWhileDown'
<1> SUFFICES ASSUME faults' = 0, NEW m \in Nodes \ Halted
             PROVE  Holds(m)'
  BY DEF HoldsWhileDown, Holds
<1>1. CASE UNCHANGED vars
  BY <1>1 DEF vars, HoldsWhileDown, Holds, Down
<1>2. CASE Crash
  BY <1>2 DEF Crash, TypeOK
<1>3. CASE Change
  BY <1>3 DEF Change, HoldsWhileDown, Holds, Down
<1>4. ASSUME NEW n \in Nodes, Fail(n) \/ PodFails(n) PROVE FALSE
  BY <1>4 DEF Fail, PodFails, TypeOK
<1>5. ASSUME NEW n \in Nodes, Kubelet(n) PROVE Holds(m)'
  BY <1>5 DEF Kubelet, PodReady, PodGone, HoldsWhileDown, Holds, Down, TypeOK
<1>6. ASSUME NEW n \in Nodes, Reconcile(n) PROVE Holds(m)'
  <2>1. faults = 0
    BY <1>6 DEF Reconcile, PlanRestart, ReplaceFailed, EnsureCreated, Lock, Check, Delete,
       WaitDeleted, Create, Started
  <2>2. Holds(m)
    BY <2>1 DEF HoldsWhileDown, Holds
  <2>3. CASE m = n
    BY <1>6, <2>2, <2>3, OwnHolds
  <2>4. CASE m # n
    BY <1>6, <2>2, <2>4, OthersHold
  <2> QED BY <2>3, <2>4
<1> QED BY <1>1, <1>2, <1>3, <1>4, <1>5, <1>6 DEF Next

\* Every reachable state is well-typed: no mutex ever has two holders.
THEOREM TypeCorrect == Spec => []TypeOK
<1>1. Init => TypeOK
  BY DisruptionAssumption DEF Init, TypeOK, PodStates, AtMostOne, Steps
<1> QED BY <1>1, TypeStep, PTL DEF Spec

\* The invariant holds throughout, if the lock manager has room.
THEOREM Invariance ==
    ASSUME Roomy
    PROVE  Spec => []IInv
<1>1. Init => IInv
  BY DisruptionAssumption
     DEF Init, IInv, TypeOK, PodStates, AtMostOne, Steps, WantsOwn, HoldsWhileDown, Down, Locked
<1>2. IInv /\ [Next]_vars => IInv'
  BY TypeStep, WantsOwnStep, HoldsStep DEF IInv
<1> QED BY <1>1, <1>2, PTL DEF Spec

\* Nodes with the same disruption labels are taken down one by one, for any
\* number of nodes and label sets the lock manager has room for.
THEOREM RestartsAreSerial ==
    ASSUME Roomy
    PROVE  Spec => []RollsOneByOne
<1>1. IInv => RollsOneByOne
  <2> SUFFICES ASSUME IInv, faults = 0, NEW n \in Nodes \ Halted, NEW m \in Nodes \ Halted,
                      LabelsOf[n] = LabelsOf[m], Down(n), Down(m)
               PROVE  n = m
    BY DEF RollsOneByOne
  <2>1. n \in held[LabelsOf[n]] /\ m \in held[LabelsOf[n]]
    BY DEF IInv, HoldsWhileDown, Locked
  <2>2. held[LabelsOf[n]] \in AtMostOne(Nodes)
    BY DisruptionAssumption DEF IInv, TypeOK
  <2> QED BY <2>1, <2>2 DEF AtMostOne
<1> QED BY <1>1, Invariance, PTL

=============================================================================
