------------------------- MODULE ReservationProofs -------------------------
(***************************************************************************)
(* Proofs about Reservation, for every set of roots and of keys and every  *)
(* bound on generations and faults.  First what every step preserves, then *)
(* the steps of deletion, of users and of the cluster, those of a live     *)
(* root's reconcile, and the theorems.                                     *)
(*                                                                         *)
(* MutualExclusion is not inductive: a reconcile starts a signing path     *)
(* several calls after it took the reservation.  IInv adds what every      *)
(* reconcile has established at each of its steps (Established) and that a *)
(* signing path without a reservation is an older release's, whose root    *)
(* still records the key.  A step of one reconcile leaves what the others  *)
(* have established alone: that is lemma Frame, used for every action.     *)
(***************************************************************************)
EXTENDS Reservation, TLAPS

\* A leaf is for Zenon unless it says otherwise.
USE Zenon

USE DEF NameOf

\* A step leaves the local state of every reconcile but n's alone.
OnlyMoves(n) ==
    \A m \in Roots \ {n} :
      pc'[m] = pc[m] /\ seen'[m] = seen[m] /\ observed'[m] = observed[m]

\* What the reconcile of m has established survives a step that leaves its
\* local state alone, keeps the reservations m holds and those of running
\* signing paths, takes no reservation finalizer from m, and adds no signing
\* path except a reserved one of another name.
LEMMA Frame ==
    ASSUME IInv, NEW m \in Roots,
           pc'[m] = pc[m], seen'[m] = seen[m], observed'[m] = observed[m],
           \A p \in objects' : NameOf(p.uid) = m /\ "reservation" \notin p.fin =>
             \/ \E q \in objects : q.uid = p.uid /\ "reservation" \notin q.fin
             \/ p.uid[2] = gen[m] + 1,
           \A w \in workloads' :
             \/ \E v \in workloads : v.owner = w.owner /\ v.key = w.key
             \/ NameOf(w.owner) # m /\ \E r \in reservations' : r.key = w.key /\ r.owner = w.owner,
           \A r \in reservations : NameOf(r.owner) = m => r \in reservations',
           \A r \in reservations' : NameOf(r.owner) = m => r \in reservations,
           \A v \in workloads : IsReserved(v) =>
             \E r \in reservations' : r.key = v.key /\ r.owner = v.owner
    PROVE  \A o \in seen'[m] : Established(m, o)'
<1> SUFFICES ASSUME NEW o \in seen[m]
             PROVE  Established(m, o)'
  OBVIOUS
<1>0. /\ Established(m, o) /\ o \in Object /\ NameOf(o.uid) = m
      /\ o.uid[2] <= gen[m] /\ gen[m] \in Nat /\ o.uid[2] \in Nat
  BY SMT DEF TypeOK, GenerationsCreated, Object, Uids, IInv
<1>1. pc'[m] \in {"recover", "check", "create", "confirm", "deploy", "publish"} =>
        ~KeyMismatch(o)'
  BY <1>0 DEF Established, KeyMismatch, IInv
<1>2. pc'[m] \in {"record", "get", "recover", "check", "create"} =>
        \A p \in objects' : p.uid = o.uid => "reservation" \in p.fin
  BY <1>0, SMT DEF Established, IInv
<1>3. pc'[m] = "recover" => \A uid \in observed'[m] :
        NameOf(uid) = m /\ uid # o.uid /\ WorkloadsOf(uid)' = {}
  BY <1>0, SMT DEF Established, WorkloadsOf, IInv
<1>4. pc'[m] = "create" =>
        /\ ~ConflictingClaim(o)'
        /\ \A w \in workloads' : w.key = o.key => w.owner = o.uid \/ IsReserved(w)'
  BY <1>0, SMT DEF Established, ConflictingClaim, IsReserved, IInv
<1>5. pc'[m] \in {"confirm", "deploy", "publish"} =>
        \E r \in reservations' : r.key = o.key /\ r.owner = o.uid
  BY <1>0 DEF Established, IInv
<1>6. pc'[m] \in {"earlyRelease", "earlyUnfinalize", "release", "unfinalize"} =>
        WorkloadsOf(o.uid)' = {}
  BY <1>0, SMT DEF Established, WorkloadsOf, IInv
<1>7. pc'[m] = "dropCleanup" => \A w \in WorkloadsOf(o.uid)' : IsReserved(w)'
  BY <1>0, SMT DEF Established, WorkloadsOf, IsReserved, IInv
<1> QED
  BY <1>1, <1>2, <1>3, <1>4, <1>5, <1>6, <1>7 DEF Established, IInv

\* A step that changes nothing but the local state of one reconcile.
LEMMA LocalStep ==
    ASSUME IInv, NEW n \in Roots, TypeOK',
           UNCHANGED <<objects, gen, reservations, workloads>>,
           OnlyMoves(n),
           \A o \in seen'[n] : Established(n, o)' /\ o.uid[2] <= gen[n]
    PROVE  IInv'
<1>1. GenerationsCreated'
  BY DEF GenerationsCreated, OnlyMoves, IInv
<1>2. MutualExclusion' /\ OneKeyPerClaim' /\ NoForeignReservation' /\ UnreservedIsLegacy'
  BY DEF MutualExclusion, OneKeyPerClaim, NoForeignReservation, UnreservedIsLegacy, IsReserved, IInv
<1>3. ASSUME NEW m \in Roots, m # n
      PROVE  \A o \in seen'[m] : Established(m, o)'
  BY <1>3, Frame DEF IsReserved, OnlyMoves
<1> QED BY <1>1, <1>2, <1>3 DEF IInv

\* Terminating signing paths changes neither their owners nor their keys.
LEMMA TerminateKeeps ==
    ASSUME IInv, NEW W \in SUBSET workloads, workloads' = Terminate(W)
    PROVE  /\ workloads' \subseteq Workload
           /\ \A w \in workloads' : \E v \in workloads :
                v.owner = w.owner /\ v.key = w.key /\ v.kind = w.kind
           /\ \A v, w \in workloads' :
                NameOf(v.owner) = NameOf(w.owner) /\ v.kind = w.kind => v = w
<1> DEFINE T(v) == [v EXCEPT !.terminating = TRUE]
<1>1. \A v \in W :
        T(v) \in Workload /\ T(v).owner = v.owner /\ T(v).key = v.key /\ T(v).kind = v.kind
  BY DEF TypeOK, Workload, IInv
<1>2. \A w \in workloads' : w \in workloads \ W \/ \E v \in W : w = T(v)
  BY DEF Terminate
<1> HIDE DEF T
<1>3. ASSUME NEW w \in workloads'
      PROVE  /\ w \in Workload
             /\ \E v \in workloads : v.owner = w.owner /\ v.key = w.key /\ v.kind = w.kind
  BY <1>1, <1>2, SMT DEF TypeOK, IInv
<1>4. ASSUME NEW v \in workloads', NEW w \in workloads',
             NameOf(v.owner) = NameOf(w.owner), v.kind = w.kind
      PROVE  v = w
  <2>1. \A x, y \in workloads :
          NameOf(x.owner) = NameOf(y.owner) /\ x.kind = y.kind => x = y
    BY DEF TypeOK, NamesUnique, IInv
  <2>2. CASE v \in workloads \ W /\ w \in workloads \ W
    BY <1>4, <2>1, <2>2
  <2>3. CASE v \in workloads \ W /\ w \notin workloads \ W
    BY <1>1, <1>2, <1>4, <2>1, <2>3, SMT
  <2>4. CASE v \notin workloads \ W /\ w \in workloads \ W
    BY <1>1, <1>2, <1>4, <2>1, <2>4, SMT
  <2>5. CASE v \notin workloads \ W /\ w \notin workloads \ W
    <3>1. PICK x \in W : v = T(x)
      BY <1>2, <2>5
    <3>2. PICK y \in W : w = T(y)
      BY <1>2, <2>5
    <3>3. x = y
      BY <1>1, <1>4, <2>1, <3>1, <3>2, SMT
    <3> QED BY <3>1, <3>2, <3>3
  <2> QED BY <2>2, <2>3, <2>4, <2>5
<1> QED BY <1>3, <1>4

\* A step that terminates or removes signing paths and leaves roots
\* and reservations alone.
LEMMA TeardownStep ==
    ASSUME IInv, TypeOK',
           UNCHANGED <<objects, gen, reservations>>,
           \A w \in workloads' : \E v \in workloads : v.owner = w.owner /\ v.key = w.key,
           \A m \in Roots :
             \/ pc'[m] = pc[m] /\ seen'[m] = seen[m] /\ observed'[m] = observed[m]
             \/ \A o \in seen'[m] : Established(m, o)' /\ o.uid[2] <= gen[m]
    PROVE  IInv'
<1>1. GenerationsCreated'
  BY DEF GenerationsCreated, IInv
<1>2. MutualExclusion' /\ OneKeyPerClaim' /\ NoForeignReservation'
  BY SMT DEF MutualExclusion, OneKeyPerClaim, NoForeignReservation, IInv
<1>3. UnreservedIsLegacy'
  BY SMT DEF UnreservedIsLegacy, IsReserved, IInv
<1>4. ASSUME NEW m \in Roots
      PROVE  \A o \in seen'[m] : Established(m, o)'
  BY Frame DEF IsReserved
<1> QED BY <1>1, <1>2, <1>3, <1>4 DEF IInv

\* A step that deletes reservations of one name whose signing paths are gone.
LEMMA ReleaseStep ==
    ASSUME IInv, NEW n \in Roots, TypeOK',
           UNCHANGED <<objects, gen, workloads, seen>>,
           reservations' \subseteq reservations,
           \A r \in reservations \ reservations' :
             NameOf(r.owner) = n /\ WorkloadsOf(r.owner) = {},
           \A m \in Roots \ {n} : pc'[m] = pc[m] /\ observed'[m] = observed[m],
           \A o \in seen'[n] : Established(n, o)'
    PROVE  IInv'
<1>1. \A w \in workloads : IsReserved(w) =>
        \E r \in reservations' : r.key = w.key /\ r.owner = w.owner
  BY DEF IsReserved, WorkloadsOf
<1>2. GenerationsCreated' /\ MutualExclusion' /\ OneKeyPerClaim' /\ NoForeignReservation'
  BY DEF GenerationsCreated, MutualExclusion, OneKeyPerClaim, NoForeignReservation, IInv
<1>3. UnreservedIsLegacy'
  BY <1>1 DEF UnreservedIsLegacy, IsReserved, IInv
<1>4. ASSUME NEW m \in Roots, m # n
      PROVE  \A o \in seen'[m] : Established(m, o)'
  BY <1>1, <1>4, Frame
<1> QED BY <1>2, <1>3, <1>4 DEF IInv

\* A step that changes only roots and the local state of reconciles.
LEMMA ObjectStep ==
    ASSUME IInv, TypeOK', GenerationsCreated', UnreservedIsLegacy',
           UNCHANGED <<reservations, workloads>>,
           \A m \in Roots :
             \/ /\ pc'[m] = pc[m] /\ seen'[m] = seen[m] /\ observed'[m] = observed[m]
                /\ \A p \in objects' : NameOf(p.uid) = m /\ "reservation" \notin p.fin =>
                     \/ \E q \in objects : q.uid = p.uid /\ "reservation" \notin q.fin
                     \/ p.uid[2] = gen[m] + 1
             \/ \A o \in seen'[m] : Established(m, o)'
    PROVE  IInv'
<1>1. MutualExclusion' /\ OneKeyPerClaim' /\ NoForeignReservation'
  BY DEF MutualExclusion, OneKeyPerClaim, NoForeignReservation, IInv
<1>2. ASSUME NEW m \in Roots
      PROVE  \A o \in seen'[m] : Established(m, o)'
  BY Frame DEF IsReserved
<1> QED BY <1>1, <1>2 DEF IInv

\* What replacing one root by a copy with the same UID preserves.
LEMMA ReplaceKeeps ==
    ASSUME IInv, NEW old \in objects, NEW new \in Object, new.uid = old.uid,
           Replace(old, new), UNCHANGED <<gen, reservations, workloads>>,
           old.pubkey \subseteq new.pubkey, "cleanup" \in old.fin => "cleanup" \in new.fin
    PROVE  /\ objects' \subseteq Object
           /\ \A o, p \in objects' : NameOf(o.uid) = NameOf(p.uid) => o = p
           /\ \A o \in objects' : o.uid[2] <= gen[NameOf(o.uid)]
           /\ UnreservedIsLegacy'
<1>1. objects' = (objects \ {old}) \cup {new}
  BY DEF Replace
<1>2. UnreservedIsLegacy'
  BY <1>1 DEF UnreservedIsLegacy, IsReserved, IInv
<1> QED BY <1>1, <1>2, SMT DEF TypeOK, NamesUnique, GenerationsCreated, IInv

\* Taking a finalizer from a root, or the root itself, when every signing path
\* of its UID is reserved.
LEMMA RemoveKeeps ==
    ASSUME IInv, NEW old \in objects, NEW f,
           \/ RemoveFinalizer(old, f)
           \/ objects' = objects \ {old},
           \A w \in WorkloadsOf(old.uid) : IsReserved(w),
           UNCHANGED <<gen, reservations, workloads>>
    PROVE  /\ objects' \subseteq Object
           /\ \A o, p \in objects' : NameOf(o.uid) = NameOf(p.uid) => o = p
           /\ \A o \in objects' : o.uid[2] <= gen[NameOf(o.uid)]
           /\ UnreservedIsLegacy'
           /\ \A p \in objects' : p \in objects \/ p.uid = old.uid
           /\ [old EXCEPT !.fin = @ \ {f}] \in Object
           /\ [old EXCEPT !.fin = @ \ {f}].uid = old.uid
<1> DEFINE new == [old EXCEPT !.fin = @ \ {f}]
<1>1. new \in Object /\ new.uid = old.uid
  BY SMT DEF TypeOK, Object, IInv
<1>2. objects' = (objects \ {old}) \cup {new} \/ objects' = objects \ {old}
  BY DEF RemoveFinalizer
<1> HIDE DEF new
<1>3. UnreservedIsLegacy'
  BY <1>2 DEF UnreservedIsLegacy, IsReserved, WorkloadsOf, IInv
<1>4. /\ objects' \subseteq Object
      /\ \A o, p \in objects' : NameOf(o.uid) = NameOf(p.uid) => o = p
      /\ \A o \in objects' : o.uid[2] <= gen[NameOf(o.uid)]
      /\ \A p \in objects' : p \in objects \/ p.uid = old.uid
  BY <1>1, <1>2 DEF TypeOK, NamesUnique, GenerationsCreated, IInv
<1> QED BY <1>1, <1>3, <1>4 DEF new

\* A reservation is released only after the last path of the name is gone.
LEMMA SigningPathsStep ==
    ASSUME IInv, NEW n \in Roots, NEW step, NEW release, NEW done,
           \/ release = "earlyRelease" /\ done = "resources"
           \/ release = "release" /\ done = "idle",
           SigningPaths(n, step, release, done)
    PROVE  IInv'
<1>1. PICK o \in seen[n] :
        IF "reservation" \notin o.fin /\ ~HasReservations(o.uid)
        THEN Goto(n, done) /\ UNCHANGED workloads
        ELSE /\ workloads' = Terminate(WorkloadsOf(o.uid))
             /\ Goto(n, IF WorkloadsAt(n) = {} THEN release ELSE "idle")
  BY DEF SigningPaths
<1>2. CASE Goto(n, done) /\ UNCHANGED workloads
  <2>1. TypeOK'
    BY <1>2 DEF SigningPaths, Goto, TypeOK, NamesUnique, Steps, IInv
  <2>2. \A p \in seen'[n] : Established(n, p)' /\ p.uid[2] <= gen[n]
    BY <1>2, SMT DEF SigningPaths, Goto, Established, TypeOK, GenerationsCreated, IInv
  <2>3. OnlyMoves(n) /\ UNCHANGED <<objects, gen, reservations, workloads>>
    BY <1>2, SMT DEF OnlyMoves, SigningPaths, Goto, TypeOK, IInv
  <2> QED BY <1>2, <2>1, <2>2, <2>3, LocalStep
<1>3. CASE /\ workloads' = Terminate(WorkloadsOf(o.uid))
           /\ Goto(n, IF WorkloadsAt(n) = {} THEN release ELSE "idle")
  <2>1. /\ workloads' \subseteq Workload
        /\ \A w \in workloads' : \E v \in workloads : v.owner = w.owner /\ v.key = w.key
        /\ \A v, w \in workloads' :
             NameOf(v.owner) = NameOf(w.owner) /\ v.kind = w.kind => v = w
    BY <1>3, TerminateKeeps DEF WorkloadsOf
  <2>2. TypeOK'
    BY <1>3, <2>1 DEF SigningPaths, Goto, TypeOK, NamesUnique, Steps, IInv
  <2>3. ASSUME NEW p \in seen'[n] PROVE Established(n, p)' /\ p.uid[2] <= gen[n]
    <3>1. NameOf(p.uid) = n /\ p.uid[2] <= gen[n]
      BY DEF SigningPaths, TypeOK, GenerationsCreated, IInv
    <3>2. /\ pc'[n] \in {"idle", "earlyRelease", "release"}
          /\ pc'[n] # "idle" => WorkloadsAt(n) = {}
      BY <1>3, SMT DEF Goto, TypeOK, IInv
    <3>3. pc'[n] # "idle" => WorkloadsOf(p.uid)' = {}
      BY <2>1, <3>1, <3>2, SMT DEF WorkloadsOf, WorkloadsAt
    <3> QED BY <3>1, <3>2, <3>3 DEF Established, IInv
  <2>4. OnlyMoves(n) /\ UNCHANGED <<objects, gen, reservations>>
    BY <1>3, SMT DEF OnlyMoves, SigningPaths, Goto, TypeOK, IInv
  <2> QED BY <1>3, <2>1, <2>2, <2>3, <2>4, TeardownStep DEF OnlyMoves
<1> QED BY <1>1, <1>2, <1>3

\* A root releases its reservations after its own paths are gone.
LEMMA ReleaseActionStep ==
    ASSUME IInv, NEW n \in Roots, NEW step, NEW next,
           \/ step = "earlyRelease" /\ next = "earlyUnfinalize"
           \/ step = "release" /\ next = "unfinalize",
           Release(n, step, next)
    PROVE  IInv'
<1>0. PICK o \in seen[n] :
      \/ \E r \in reservations :
           r.owner = o.uid /\ reservations' = reservations \ {r} /\ UNCHANGED pc
      \/ Goto(n, next) /\ UNCHANGED reservations
  BY DEF Release
<1>1. /\ pc[n] = step /\ (\A p \in seen[n] : p = o) /\ Established(n, o)
      /\ NameOf(o.uid) = n
      /\ UNCHANGED <<objects, gen, workloads, seen, observed, faults>>
  BY DEF Release, TypeOK, IInv
<1>2. WorkloadsOf(o.uid) = {}
  BY <1>1 DEF Established, IInv
<1>3. /\ reservations' \subseteq reservations
      /\ \A r \in reservations \ reservations' : r.owner = o.uid
  BY <1>0
<1>4. /\ pc'[n] \in {"earlyRelease", "earlyUnfinalize", "release", "unfinalize"}
      /\ \A m \in Roots \ {n} : pc'[m] = pc[m]
  BY <1>0, <1>1, SMT DEF Goto, TypeOK, IInv
<1>5. TypeOK'
  BY <1>0, <1>1, <1>3, SMT DEF Goto, TypeOK, NamesUnique, Steps, IInv
<1>6. \A p \in seen'[n] : Established(n, p)'
  BY <1>1, <1>2, <1>4, SMT DEF Established, WorkloadsOf, IInv
<1> QED BY <1>1, <1>2, <1>3, <1>4, <1>5, <1>6, ReleaseStep

\* The reservation finalizer goes when no path of the root is left.
LEMMA UnfinalizeStep ==
    ASSUME IInv, NEW n \in Roots, NEW step, NEW next,
           \/ step = "earlyUnfinalize" /\ next = "resources"
           \/ step = "unfinalize" /\ next = "idle",
           Unfinalize(n, step, next)
    PROVE  IInv'
<1>0. PICK o \in seen[n] :
      \/ \E fresh \in objects :
           fresh.uid = o.uid /\ RemoveFinalizer(fresh, "reservation") /\ Goto(n, next)
      \/ UNCHANGED objects /\ (Goto(n, "idle") \/ Goto(n, next))
  BY DEF Unfinalize
<1>1. /\ pc[n] = step /\ Established(n, o) /\ NameOf(o.uid) = n
      /\ UNCHANGED <<gen, reservations, workloads, seen, observed, faults>>
      /\ Goto(n, "idle") \/ Goto(n, next)
  BY DEF Unfinalize, TypeOK, IInv
<1>2. /\ pc'[n] \in {"idle", "resources"} /\ pc' \in [Roots -> Steps]
      /\ \A m \in Roots \ {n} : pc'[m] = pc[m]
  BY <1>1, SMT DEF Goto, TypeOK, Steps, IInv
<1>3. \A p \in seen'[n] : Established(n, p)' /\ p.uid[2] <= gen[n]
  BY <1>1, <1>2 DEF Established, TypeOK, GenerationsCreated, IInv
<1>4. CASE UNCHANGED objects
  <2>1. TypeOK'
    BY <1>1, <1>2, <1>4 DEF TypeOK, NamesUnique, IInv
  <2> QED BY <1>1, <1>2, <1>3, <1>4, <2>1, LocalStep DEF OnlyMoves
<1>5. CASE ~UNCHANGED objects
  <2>1. PICK fresh \in objects : fresh.uid = o.uid /\ RemoveFinalizer(fresh, "reservation")
    BY <1>0, <1>5
  <2>2. \A w \in WorkloadsOf(fresh.uid) : IsReserved(w)
    BY <1>1, <2>1 DEF Established, IInv
  <2>3. /\ objects' \subseteq Object
        /\ \A x, p \in objects' : NameOf(x.uid) = NameOf(p.uid) => x = p
        /\ \A x \in objects' : x.uid[2] <= gen[NameOf(x.uid)]
        /\ UnreservedIsLegacy'
        /\ \A p \in objects' : p \in objects \/ p.uid = fresh.uid
    BY <1>1, <2>1, <2>2, RemoveKeeps
  <2>4. TypeOK'
    BY <1>1, <1>2, <2>3 DEF TypeOK, NamesUnique, IInv
  <2>5. GenerationsCreated'
    BY <1>1, <2>3 DEF GenerationsCreated, IInv
  <2> QED BY <1>1, <1>2, <1>3, <2>1, <2>3, <2>4, <2>5, ObjectStep, SMT
<1> QED BY <1>4, <1>5

\* The cleanup finalizer is dropped only when the paths left are reserved.
LEMMA ResourcesStep ==
    ASSUME IInv, NEW n \in Roots, Resources(n)
    PROVE  IInv'
<1>1. PICK o \in seen[n] :
        \/ workloads' = Terminate(WorkloadsOf(o.uid)) /\ Goto(n, "idle")
        \/ /\ \A w \in WorkloadsAt(n) : IsReserved(w)
           /\ Goto(n, "dropCleanup") /\ UNCHANGED workloads
  BY DEF Resources
<1>2. CASE workloads' = Terminate(WorkloadsOf(o.uid)) /\ Goto(n, "idle")
  <2>1. /\ workloads' \subseteq Workload
        /\ \A w \in workloads' : \E v \in workloads : v.owner = w.owner /\ v.key = w.key
        /\ \A v, w \in workloads' :
             NameOf(v.owner) = NameOf(w.owner) /\ v.kind = w.kind => v = w
    BY <1>2, TerminateKeeps DEF WorkloadsOf
  <2>2. TypeOK'
    BY <1>2, <2>1 DEF Resources, Goto, TypeOK, NamesUnique, Steps, IInv
  <2>3. \A p \in seen'[n] : Established(n, p)' /\ p.uid[2] <= gen[n]
    BY <1>2, SMT DEF Resources, Goto, Established, TypeOK, GenerationsCreated, IInv
  <2>4. OnlyMoves(n) /\ UNCHANGED <<objects, gen, reservations>>
    BY <1>2, SMT DEF OnlyMoves, Resources, Goto, TypeOK, IInv
  <2> QED BY <1>2, <2>1, <2>2, <2>3, <2>4, TeardownStep DEF OnlyMoves
<1>3. CASE /\ \A w \in WorkloadsAt(n) : IsReserved(w)
           /\ Goto(n, "dropCleanup") /\ UNCHANGED workloads
  <2>1. TypeOK'
    BY <1>3 DEF Resources, Goto, TypeOK, NamesUnique, Steps, IInv
  <2>2. pc'[n] = "dropCleanup" /\ UNCHANGED <<seen, workloads, reservations>>
    BY <1>3, SMT DEF Resources, Goto, TypeOK, IInv
  <2>3. ASSUME NEW p \in seen'[n] PROVE Established(n, p)' /\ p.uid[2] <= gen[n]
    <3>1. NameOf(p.uid) = n /\ p.uid[2] <= gen[n]
      BY <2>2 DEF TypeOK, GenerationsCreated, IInv
    <3>2. \A w \in WorkloadsOf(p.uid)' : IsReserved(w)'
      BY <1>3, <2>2, <3>1 DEF WorkloadsOf, WorkloadsAt, IsReserved
    <3> QED BY <2>2, <3>1, <3>2 DEF Established, IInv
  <2>4. OnlyMoves(n) /\ UNCHANGED <<objects, gen, reservations, workloads>>
    BY <1>3, SMT DEF OnlyMoves, Resources, Goto, TypeOK, IInv
  <2> QED BY <1>3, <2>1, <2>3, <2>4, LocalStep
<1> QED BY <1>1, <1>2, <1>3

\* The cleanup finalizer goes when every path of the root is reserved.
LEMMA DropCleanupStep ==
    ASSUME IInv, NEW n \in Roots, DropCleanup(n)
    PROVE  IInv'
<1>0. PICK o \in seen[n] :
      \/ /\ o \in objects /\ RemoveFinalizer(o, "cleanup")
         /\ seen' = [seen EXCEPT ![n] = {[o EXCEPT !.fin = @ \ {"cleanup"}]}]
         /\ Goto(n, "paths")
      \/ UNCHANGED <<objects, seen>> /\ (Goto(n, "idle") \/ Goto(n, "paths"))
  BY DEF DropCleanup, Unchanged
<1>1. /\ pc[n] = "dropCleanup" /\ Established(n, o) /\ NameOf(o.uid) = n
      /\ o.uid[2] <= gen[n] /\ o \in Object
      /\ UNCHANGED <<gen, reservations, workloads, observed, faults>>
      /\ Goto(n, "idle") \/ Goto(n, "paths")
  BY DEF DropCleanup, TypeOK, GenerationsCreated, IInv
<1>2. /\ pc'[n] \in {"idle", "paths"} /\ pc' \in [Roots -> Steps]
      /\ \A m \in Roots \ {n} : pc'[m] = pc[m]
  BY <1>1, SMT DEF Goto, TypeOK, Steps, IInv
<1>3. \A p \in seen'[n] : Established(n, p)'
  BY <1>2 DEF Established, IInv
<1>4. CASE UNCHANGED <<objects, seen>>
  <2>1. TypeOK'
    BY <1>1, <1>2, <1>4 DEF TypeOK, NamesUnique, IInv
  <2>2. \A p \in seen'[n] : p.uid[2] <= gen[n]
    BY <1>4 DEF GenerationsCreated, IInv
  <2> QED BY <1>1, <1>2, <1>3, <1>4, <2>1, <2>2, LocalStep DEF OnlyMoves
<1>5. CASE /\ o \in objects /\ RemoveFinalizer(o, "cleanup")
           /\ seen' = [seen EXCEPT ![n] = {[o EXCEPT !.fin = @ \ {"cleanup"}]}]
  <2> DEFINE new == [o EXCEPT !.fin = @ \ {"cleanup"}]
  <2>1. \A w \in WorkloadsOf(o.uid) : IsReserved(w)
    BY <1>1 DEF Established, IInv
  <2>2. /\ objects' \subseteq Object
        /\ \A x, p \in objects' : NameOf(x.uid) = NameOf(p.uid) => x = p
        /\ \A x \in objects' : x.uid[2] <= gen[NameOf(x.uid)]
        /\ UnreservedIsLegacy'
        /\ \A p \in objects' : p \in objects \/ p.uid = o.uid
        /\ new \in Object /\ new.uid = o.uid
    BY <1>1, <1>5, <2>1, RemoveKeeps
  <2>3. seen' = [seen EXCEPT ![n] = {new}]
    BY <1>5
  <2> HIDE DEF new
  <2>4. TypeOK'
    BY <1>1, <1>2, <2>2, <2>3, SMT DEF TypeOK, NamesUnique, IInv
  <2>5. GenerationsCreated'
    BY <1>1, <2>2, <2>3 DEF GenerationsCreated, TypeOK, IInv
  <2>6. \A m \in Roots \ {n} : seen'[m] = seen[m]
    BY <2>3, SMT DEF TypeOK, IInv
  <2> QED BY <1>1, <1>2, <1>3, <2>2, <2>4, <2>5, <2>6, ObjectStep
<1> QED BY <1>0, <1>4, <1>5

\* A new root has a UID nobody knows yet.
LEMMA CreateRootStep ==
    ASSUME IInv, NEW n \in Roots, CreateRoot(n)
    PROVE  IInv'
<1>0. PICK k \in Keys, m \in Kinds : objects' = objects \cup
      {[uid |-> <<n, gen[n] + 1>>, deleting |-> FALSE, fin |-> {},
        key |-> k, kind |-> m, pubkey |-> {}]}
  BY DEF CreateRoot
<1> DEFINE new == [uid |-> <<n, gen[n] + 1>>, deleting |-> FALSE, fin |-> {},
                   key |-> k, kind |-> m, pubkey |-> {}]
<1>1. /\ \A o \in objects : NameOf(o.uid) # n
      /\ gen[n] < MaxGen /\ gen[n] \in Nat /\ gen' = [gen EXCEPT ![n] = @ + 1]
      /\ UNCHANGED <<reservations, workloads, pc, seen, observed, faults>>
  BY MaxGenAssumption, SMT DEF CreateRoot, TypeOK, IInv
<1>2. new \in Object /\ new.uid = <<n, gen[n] + 1>>
  BY <1>1, MaxGenAssumption, SMT DEF Object, Uids, Finalizers, Kinds
<1>3. objects' = objects \cup {new}
  BY <1>0
<1> HIDE DEF new
<1>4. gen' \in [Roots -> 0..MaxGen] /\ gen'[n] = gen[n] + 1 /\ \A x \in Roots \ {n} : gen'[x] = gen[x]
  BY <1>1, MaxGenAssumption, SMT DEF TypeOK, IInv
<1>5. TypeOK'
  BY <1>1, <1>2, <1>3, <1>4, SMT DEF TypeOK, NamesUnique, IInv
<1>6. GenerationsCreated'
  <2>1. \A o \in objects' : o.uid[2] <= gen'[NameOf(o.uid)]
    <3>1. ASSUME NEW o \in objects PROVE NameOf(o.uid) \in Roots \ {n}
      BY <1>1 DEF TypeOK, Object, Uids, IInv
    <3>2. \A o \in objects : o.uid[2] <= gen'[NameOf(o.uid)]
      BY <3>1, <1>4 DEF GenerationsCreated, IInv
    <3> QED BY <1>1, <1>2, <1>3, <1>4, <3>2, SMT
  <2>2. ASSUME NEW x \in Roots, NEW o \in seen'[x] PROVE o.uid[2] <= gen'[x]
    <3>1. o.uid[2] <= gen[x] /\ o.uid[2] \in Nat /\ gen[x] \in Nat
      BY <1>1, <2>2, MaxGenAssumption, SMT DEF GenerationsCreated, TypeOK, Object, Uids, IInv
    <3> QED BY <1>1, <1>4, <3>1, SMT
  <2> QED BY <2>1, <2>2 DEF GenerationsCreated, IInv
<1>7. UnreservedIsLegacy'
  BY <1>1, <1>3 DEF UnreservedIsLegacy, IsReserved, IInv
<1>8. \A x \in Roots : \A p \in objects' : NameOf(p.uid) = x /\ "reservation" \notin p.fin =>
        \/ \E q \in objects : q.uid = p.uid /\ "reservation" \notin q.fin
        \/ p.uid[2] = gen[x] + 1
  BY <1>2, <1>3, SMT
<1> QED BY <1>1, <1>5, <1>6, <1>7, <1>8, ObjectStep

\* A deleted root stays while a finalizer protects it.
LEMMA DeleteRootStep ==
    ASSUME IInv, NEW n \in Roots, DeleteRoot(n)
    PROVE  IInv'
<1>1. UNCHANGED <<gen, reservations, workloads, pc, seen, observed, faults>>
  BY DEF DeleteRoot
<1>2. PICK o \in objects : objects' = (objects \ {o}) \cup
        (IF o.fin = {} THEN {} ELSE {[o EXCEPT !.deleting = TRUE]})
  BY DEF DeleteRoot
<1> DEFINE new == [o EXCEPT !.deleting = TRUE]
<1>3. new \in Object /\ new.uid = o.uid /\ new.fin = o.fin /\ new.pubkey = o.pubkey
  BY DEF TypeOK, Object, IInv
<1>4. CASE o.fin # {}
  <2>1. Replace(o, new)
    BY <1>2, <1>4 DEF Replace
  <2> HIDE DEF new
  <2>2. /\ objects' \subseteq Object
        /\ \A x, p \in objects' : NameOf(x.uid) = NameOf(p.uid) => x = p
        /\ \A x \in objects' : x.uid[2] <= gen[NameOf(x.uid)]
        /\ UnreservedIsLegacy'
    BY <1>1, <1>3, <2>1, ReplaceKeeps
  <2>3. TypeOK' /\ GenerationsCreated'
    BY <1>1, <2>2 DEF TypeOK, NamesUnique, GenerationsCreated, IInv
  <2>4. \A p \in objects' : "reservation" \notin p.fin =>
          \E q \in objects : q.uid = p.uid /\ "reservation" \notin q.fin
    BY <1>3, <2>1 DEF Replace
  <2> QED BY <1>1, <2>2, <2>3, <2>4, ObjectStep
<1>5. CASE o.fin = {}
  <2>1. objects' = objects \ {o}
    BY <1>2, <1>5
  <2>2. \A w \in WorkloadsOf(o.uid) : IsReserved(w)
    BY <1>5, SMT DEF WorkloadsOf, UnreservedIsLegacy, TypeOK, NamesUnique, IInv
  <2>3. UnreservedIsLegacy'
    BY <1>1, <2>1, <2>2 DEF UnreservedIsLegacy, IsReserved, WorkloadsOf, IInv
  <2>4. TypeOK' /\ GenerationsCreated'
    BY <1>1, <2>1 DEF TypeOK, NamesUnique, GenerationsCreated, IInv
  <2> QED BY <1>1, <2>1, <2>3, <2>4, ObjectStep
<1> QED BY <1>4, <1>5

\* Replacing the key in the Secret changes no running path.
LEMMA ReplaceKeyStep ==
    ASSUME IInv, NEW n \in Roots, ReplaceKey(n)
    PROVE  IInv'
<1>1. UNCHANGED <<gen, reservations, workloads, pc, seen, observed>> /\ faults' \in 0..MaxFaults
  BY MaxFaultsAssumption, SMT DEF ReplaceKey, TypeOK, IInv
<1>2. PICK o \in objects, k \in Keys : Replace(o, [o EXCEPT !.key = k])
  BY DEF ReplaceKey
<1> DEFINE new == [o EXCEPT !.key = k]
<1>3. new \in Object /\ new.uid = o.uid /\ new.fin = o.fin /\ new.pubkey = o.pubkey
  BY DEF TypeOK, Object, IInv
<1>4. Replace(o, new)
  BY <1>2
<1> HIDE DEF new
<1>5. /\ objects' \subseteq Object
      /\ \A x, p \in objects' : NameOf(x.uid) = NameOf(p.uid) => x = p
      /\ \A x \in objects' : x.uid[2] <= gen[NameOf(x.uid)]
      /\ UnreservedIsLegacy'
  BY <1>1, <1>3, <1>4, ReplaceKeeps
<1>6. TypeOK' /\ GenerationsCreated'
  BY <1>1, <1>5 DEF TypeOK, NamesUnique, GenerationsCreated, IInv
<1>7. \A p \in objects' : "reservation" \notin p.fin =>
        \E q \in objects : q.uid = p.uid /\ "reservation" \notin q.fin
  BY <1>3, <1>4 DEF Replace
<1> QED BY <1>1, <1>5, <1>6, <1>7, ObjectStep

\* A force-deleted root leaves reserved paths only.
LEMMA ForceDeleteStep ==
    ASSUME IInv, NEW n \in Roots, ForceDelete(n)
    PROVE  IInv'
<1>1. UNCHANGED <<gen, reservations, workloads, pc, seen, observed>> /\ faults' \in 0..MaxFaults
  BY MaxFaultsAssumption, SMT DEF ForceDelete, TypeOK, IInv
<1>2. PICK o \in objects :
        (\A w \in WorkloadsOf(o.uid) : IsReserved(w)) /\ objects' = objects \ {o}
  BY DEF ForceDelete
<1>3. UnreservedIsLegacy'
  BY <1>1, <1>2 DEF UnreservedIsLegacy, IsReserved, WorkloadsOf, IInv
<1>4. TypeOK' /\ GenerationsCreated'
  BY <1>1, <1>2 DEF TypeOK, NamesUnique, GenerationsCreated, IInv
<1> QED BY <1>1, <1>2, <1>3, <1>4, ObjectStep

----------------------------------------------------------------------------

\* The garbage collector only terminates paths.
LEMMA GarbageCollectStep ==
    ASSUME IInv, GarbageCollect
    PROVE  IInv'
<1>1. PICK w \in workloads : workloads' = Terminate({w})
  BY DEF GarbageCollect
<1>2. /\ workloads' \subseteq Workload
      /\ \A x \in workloads' : \E v \in workloads : v.owner = x.owner /\ v.key = x.key
      /\ \A v, x \in workloads' :
           NameOf(v.owner) = NameOf(x.owner) /\ v.kind = x.kind => v = x
  BY <1>1, TerminateKeeps
<1>3. TypeOK'
  BY <1>2 DEF GarbageCollect, TypeOK, NamesUnique, IInv
<1> QED BY <1>2, <1>3, TeardownStep DEF GarbageCollect

\* A path that stops is no obstacle to anyone.
LEMMA PathGoneStep ==
    ASSUME IInv, PathGone
    PROVE  IInv'
<1>1. workloads' \subseteq workloads
  BY DEF PathGone
<1>2. TypeOK'
  BY <1>1 DEF PathGone, TypeOK, NamesUnique, IInv
<1> QED BY <1>1, <1>2, TeardownStep DEF PathGone

\* A crash forgets what the pass had established.
LEMMA CrashStep ==
    ASSUME IInv, NEW n \in Roots, Crash(n)
    PROVE  IInv'
<1>1. TypeOK'
  BY MaxFaultsAssumption, SMT DEF Crash, Goto, TypeOK, NamesUnique, Steps, IInv
<1>2. \A o \in seen'[n] : Established(n, o)' /\ o.uid[2] <= gen[n]
  BY SMT DEF Crash, Goto, Established, TypeOK, GenerationsCreated, IInv
<1>3. OnlyMoves(n) /\ UNCHANGED <<objects, gen, reservations, workloads>>
  BY DEF OnlyMoves, Crash, Goto, TypeOK, IInv
<1> QED BY <1>1, <1>2, <1>3, LocalStep

----------------------------------------------------------------------------
(* The steps of a live root's reconcile *)

\* A reconcile that gave up relies on nothing.
LEMMA IdleReliesOnNothing ==
    ASSUME NEW n, NEW o, pc'[n] = "idle"
    PROVE  Established(n, o)'
  BY DEF Established

\* Giving up, and nothing else, preserves the invariant.
LEMMA GiveUpStep ==
    ASSUME IInv, NEW n \in Roots, Goto(n, "idle"),
           UNCHANGED <<objects, gen, reservations, workloads, seen, observed, faults>>
    PROVE  IInv'
<1>1. TypeOK'
  BY DEF Goto, TypeOK, NamesUnique, Steps, IInv
<1>2. pc'[n] = "idle" /\ OnlyMoves(n)
  BY DEF OnlyMoves, Goto, TypeOK, IInv
<1>3. \A o \in seen'[n] : o.uid[2] <= gen[n]
  BY DEF GenerationsCreated, IInv
<1> QED BY <1>1, <1>2, <1>3, IdleReliesOnNothing, LocalStep

\* Creating a reservation preserves the invariant: the scans before it found no
\* root that records the key, so no unreserved path signs with it.
LEMMA CreateReservationStep ==
    ASSUME IInv, NEW n \in Roots, CreateReservation(n)
    PROVE  IInv'
<1>1. TypeOK'
  BY SMT DEF CreateReservation, Goto, TypeOK, NamesUnique, Steps, Reservation, Object, IInv
<1>2. GenerationsCreated'
  BY DEF CreateReservation, GenerationsCreated, IInv
<1>3. MutualExclusion'
  BY DEF CreateReservation, MutualExclusion, IInv
<1>4. OneKeyPerClaim'
  BY SMT DEF CreateReservation, OneKeyPerClaim, Established, ConflictingClaim, IInv
<1>5. NoForeignReservation'
  BY SMT DEF CreateReservation, NoForeignReservation, Established, IsReserved, IInv
<1>6. UnreservedIsLegacy'
  BY DEF CreateReservation, UnreservedIsLegacy, IsReserved, IInv
<1>7. ASSUME NEW o \in seen'[n]
      PROVE  Established(n, o)'
  <2>1. seen'[n] = seen[n] /\ (\A p \in seen[n] : p = o) /\ Established(n, o)
    BY <1>7 DEF CreateReservation, TypeOK, IInv
  <2>2. CASE \A r \in reservations : r.key # o.key
    <3>1. /\ pc[n] = "create" /\ pc'[n] = "confirm"
          /\ reservations' = reservations \cup {[key |-> o.key, owner |-> o.uid]}
      BY <2>1, <2>2, SMT DEF CreateReservation, Goto, TypeOK, IInv
    <3>2. \E r \in reservations' : r.key = o.key /\ r.owner = o.uid
      <4> DEFINE own == [key |-> o.key, owner |-> o.uid]
      <4>1. own \in reservations' /\ own.key = o.key /\ own.owner = o.uid
        BY <3>1
      <4> QED BY <4>1
    <3> QED BY <2>1, <3>1, <3>2 DEF Established, KeyMismatch, IInv
  <2>3. CASE ~\A r \in reservations : r.key # o.key
    <3>1. pc[n] = "create" /\ pc'[n] = "get" /\ objects' = objects
      BY <2>1, <2>3, SMT DEF CreateReservation, Goto, TypeOK, IInv
    <3> QED BY <2>1, <3>1 DEF Established, IInv
  <2> QED BY <2>2, <2>3
<1>8. ASSUME NEW m \in Roots, m # n
      PROVE  \A o \in seen'[m] : Established(m, o)'
  BY <1>8, Frame, SMT DEF CreateReservation, Goto, TypeOK, IsReserved, IInv
<1> QED BY <1>1, <1>2, <1>3, <1>4, <1>5, <1>6, <1>7, <1>8 DEF IInv

\* Starting a pass from a cached copy establishes nothing yet.
LEMMA ReconcileStep ==
    ASSUME IInv, NEW n \in Roots, Reconcile(n)
    PROVE  IInv'
<1>1. TypeOK'
  BY SMT DEF Reconcile, Goto, TypeOK, NamesUnique, Steps, IInv
<1>2. pc'[n] \in {"earlyPaths", "resources", "adopt", "prepare"}
  BY SMT DEF Reconcile, Goto, TypeOK, IInv
<1>3. \A o \in seen'[n] : Established(n, o)' /\ o.uid[2] <= gen[n]
  BY <1>2, SMT DEF Reconcile, Established, TypeOK, GenerationsCreated, IInv
<1>4. OnlyMoves(n) /\ UNCHANGED <<objects, gen, reservations, workloads>>
  BY SMT DEF OnlyMoves, Reconcile, Goto, TypeOK, IInv
<1> QED BY <1>1, <1>3, <1>4, LocalStep

\* The uncached read goes on to record only from a root that has the finalizer.
LEMMA PrepareStep ==
    ASSUME IInv, NEW n \in Roots, Prepare(n)
    PROVE  IInv'
<1>1. TypeOK'
  BY SMT DEF Prepare, Goto, TypeOK, NamesUnique, Steps, IInv
<1>2. ASSUME NEW o \in seen'[n] PROVE Established(n, o)' /\ o.uid[2] <= gen[n]
  <2>1. pc'[n] \in {"idle", "protect", "record"} /\ objects' = objects
    BY SMT DEF Prepare, Goto, TypeOK, IInv
  <2>2. pc'[n] = "record" => o \in objects /\ "reservation" \in o.fin
    BY <1>2, SMT DEF Prepare, Goto, TypeOK, IInv
  <2>3. o.uid[2] <= gen[n]
    BY <1>2, SMT DEF Prepare, TypeOK, GenerationsCreated, IInv
  <2>4. pc'[n] = "record" => \A p \in objects : p.uid = o.uid => "reservation" \in p.fin
    BY <2>2 DEF TypeOK, NamesUnique, IInv
  <2> QED BY <2>1, <2>3, <2>4 DEF Established, IInv
<1>3. OnlyMoves(n) /\ UNCHANGED <<objects, gen, reservations, workloads>>
  BY SMT DEF OnlyMoves, Prepare, Goto, TypeOK, IInv
<1> QED BY <1>1, <1>2, <1>3, LocalStep

\* A stale reservation is recovered only when its owner's paths are gone.
LEMMA GetReservationStep ==
    ASSUME IInv, NEW n \in Roots, GetReservation(n)
    PROVE  IInv'
<1>1. TypeOK'
  BY SMT DEF GetReservation, Goto, TypeOK, NamesUnique, Steps, Reservation, IInv
<1>2. ASSUME NEW o \in seen'[n] PROVE Established(n, o)' /\ o.uid[2] <= gen[n]
  <2>1. /\ o \in seen[n] /\ (\A p \in seen[n] : p = o) /\ Established(n, o)
        /\ pc[n] = "get" /\ NameOf(o.uid) = n /\ o.uid[2] <= gen[n]
    BY <1>2 DEF GetReservation, TypeOK, GenerationsCreated, IInv
  <2>2. UNCHANGED <<objects, gen, reservations, workloads, seen>>
    BY DEF GetReservation
  <2>3. pc'[n] \in {"quiesce", "check", "confirm", "recover"}
    BY SMT DEF GetReservation, Goto, TypeOK, IInv
  <2>4. pc'[n] # "quiesce" => ~KeyMismatch(o)
    BY <2>1, SMT DEF GetReservation, Goto, TypeOK, IInv
  <2>5. pc'[n] = "confirm" => \E r \in reservations : r.key = o.key /\ r.owner = o.uid
    BY <2>1, SMT DEF GetReservation, Goto, TypeOK, IInv
  <2>6. pc'[n] = "recover" => \A uid \in observed'[n] :
          NameOf(uid) = n /\ uid # o.uid /\ Stale(uid) /\ StalePathsGone(uid, o.uid)
    BY <2>1, SMT DEF GetReservation, Goto, TypeOK, IInv
  <2>7. pc'[n] = "recover" => \A uid \in observed'[n] :
          NameOf(uid) = n /\ uid # o.uid /\ WorkloadsOf(uid)' = {}
    BY <2>6, <2>2 DEF StalePathsGone, WorkloadsAt, WorkloadsOf
  <2> QED BY <2>1, <2>2, <2>3, <2>4, <2>5, <2>7 DEF Established, KeyMismatch, IInv
<1>3. OnlyMoves(n) /\ UNCHANGED <<objects, gen, reservations, workloads>>
  BY SMT DEF OnlyMoves, GetReservation, Goto, TypeOK, IInv
<1> QED BY <1>1, <1>2, <1>3, LocalStep

\* With no root recording the key, every path that signs with it is reserved.
LEMMA CheckStep ==
    ASSUME IInv, NEW n \in Roots, Check(n)
    PROVE  IInv'
<1>1. TypeOK'
  BY DEF Check, Goto, TypeOK, NamesUnique, Steps, IInv
<1>2. ASSUME NEW o \in seen'[n] PROVE Established(n, o)' /\ o.uid[2] <= gen[n]
  <2>1. /\ o \in seen[n] /\ (\A p \in seen[n] : p = o) /\ Established(n, o)
        /\ pc[n] = "check" /\ NameOf(o.uid) = n /\ o.uid[2] <= gen[n]
    BY <1>2 DEF Check, TypeOK, GenerationsCreated, IInv
  <2>2. UNCHANGED <<objects, gen, reservations, workloads, seen>>
    BY DEF Check
  <2>3. /\ pc'[n] \in {"quiesce", "create"}
        /\ pc'[n] = "create" => ~ConflictingClaim(o) /\ ~LegacyOwner(o)
    BY <2>1, SMT DEF Check, Goto, TypeOK, IInv
  <2>4. pc'[n] = "create" =>
          \A w \in workloads : w.key = o.key => w.owner = o.uid \/ IsReserved(w)
    BY <2>3 DEF UnreservedIsLegacy, LegacyOwner, IInv
  <2> QED BY <2>1, <2>2, <2>3, <2>4 DEF Established, KeyMismatch, ConflictingClaim, IsReserved, IInv
<1>3. OnlyMoves(n) /\ UNCHANGED <<objects, gen, reservations, workloads>>
  BY SMT DEF OnlyMoves, Check, Goto, TypeOK, IInv
<1> QED BY <1>1, <1>2, <1>3, LocalStep

\* The scans after the reservation is taken leave it taken.
LEMMA ConfirmStep ==
    ASSUME IInv, NEW n \in Roots, Confirm(n)
    PROVE  IInv'
<1>1. TypeOK'
  BY DEF Confirm, Goto, TypeOK, NamesUnique, Steps, IInv
<1>2. ASSUME NEW o \in seen'[n] PROVE Established(n, o)' /\ o.uid[2] <= gen[n]
  <2>1. /\ o \in seen[n] /\ Established(n, o) /\ pc[n] = "confirm" /\ o.uid[2] <= gen[n]
    BY <1>2 DEF Confirm, TypeOK, GenerationsCreated, IInv
  <2>2. UNCHANGED reservations /\ pc'[n] \in {"quiesce", "deploy"}
    BY SMT DEF Confirm, Goto, TypeOK, IInv
  <2> QED BY <2>1, <2>2 DEF Established, KeyMismatch, IInv
<1>3. OnlyMoves(n) /\ UNCHANGED <<objects, gen, reservations, workloads>>
  BY SMT DEF OnlyMoves, Confirm, Goto, TypeOK, IInv
<1> QED BY <1>1, <1>2, <1>3, LocalStep

\* Stopping the paths of a conflicting root preserves the invariant, and so does
\* leaving those that the cache does not show.
LEMMA QuiesceStep ==
    ASSUME IInv, NEW n \in Roots, Quiesce(n)
    PROVE  IInv'
<1>1. \/ \E o \in seen[n] : workloads' = Terminate(WorkloadsOf(o.uid))
      \/ UNCHANGED workloads
  BY DEF Quiesce
<1>2. /\ workloads' \subseteq Workload
      /\ \A w \in workloads' : \E v \in workloads : v.owner = w.owner /\ v.key = w.key
      /\ \A v, w \in workloads' :
           NameOf(v.owner) = NameOf(w.owner) /\ v.kind = w.kind => v = w
  <2>1. CASE \E o \in seen[n] : workloads' = Terminate(WorkloadsOf(o.uid))
    <3>1. PICK o \in seen[n] : workloads' = Terminate(WorkloadsOf(o.uid))
      BY <2>1
    <3> QED BY <3>1, TerminateKeeps DEF WorkloadsOf
  <2>2. CASE UNCHANGED workloads
    BY <2>2 DEF TypeOK, NamesUnique, IInv
  <2> QED BY <1>1, <2>1, <2>2
<1>3. TypeOK'
  BY <1>2 DEF Quiesce, Goto, TypeOK, NamesUnique, Steps, IInv
<1>4. \A p \in seen'[n] : Established(n, p)' /\ p.uid[2] <= gen[n]
  BY SMT DEF Quiesce, Goto, Established, TypeOK, GenerationsCreated, IInv
<1>5. OnlyMoves(n) /\ UNCHANGED <<objects, gen, reservations>>
  BY SMT DEF OnlyMoves, Quiesce, Goto, TypeOK, IInv
<1> QED BY <1>2, <1>3, <1>4, <1>5, TeardownStep DEF OnlyMoves

\* A path is started under the reservation this pass holds, so that no other
\* root has one for the key.
LEMMA DeployStep ==
    ASSUME IInv, NEW n \in Roots, Deploy(n)
    PROVE  IInv'
<1>0. PICK o \in seen[n] :
      LET there == {w \in WorkloadsAt(n) : w.kind = o.kind}
      IN  \/ /\ there = {}
             /\ workloads' = workloads \cup
                  {[owner |-> o.uid, kind |-> o.kind, key |-> o.key, terminating |-> FALSE]}
             /\ Goto(n, "publish")
          \/ Goto(n, "publish") /\ UNCHANGED workloads
          \/ workloads' = Terminate(there) /\ UNCHANGED pc
          \/ Goto(n, "idle") /\ UNCHANGED workloads
  BY DEF Deploy
<1> DEFINE there == {w \in WorkloadsAt(n) : w.kind = o.kind}
           new == [owner |-> o.uid, kind |-> o.kind, key |-> o.key, terminating |-> FALSE]
<1>1. /\ o \in Object /\ NameOf(o.uid) = n /\ (\A p \in seen[n] : p = o)
      /\ Established(n, o) /\ pc[n] = "deploy" /\ o.uid[2] <= gen[n]
      /\ UNCHANGED <<objects, gen, reservations, seen, observed, faults>>
  BY DEF Deploy, TypeOK, GenerationsCreated, IInv
<1>2. PICK r \in reservations : r.key = o.key /\ r.owner = o.uid
  BY <1>1 DEF Established, IInv
<1>3. CASE /\ Goto(n, "publish") \/ Goto(n, "idle")
           /\ UNCHANGED workloads \/ (there = {} /\ workloads' = workloads \cup {new})
  <2>1. ASSUME NEW p \in seen'[n] PROVE Established(n, p)' /\ p.uid[2] <= gen[n]
    <3>1. p = o /\ pc'[n] \in {"publish", "idle"}
      BY <1>1, <1>3 DEF Goto, TypeOK, IInv
    <3> QED BY <1>1, <1>2, <3>1 DEF Established, KeyMismatch, IInv
  <2>2. CASE UNCHANGED workloads
    <3>1. TypeOK'
      BY <1>1, <1>3, <2>2, SMT DEF Goto, TypeOK, NamesUnique, Steps, IInv
    <3>2. OnlyMoves(n) /\ UNCHANGED <<objects, gen, reservations, workloads>>
      BY <1>1, <1>3, <2>2, SMT DEF OnlyMoves, Goto, TypeOK, IInv
    <3> QED BY <1>1, <1>3, <2>1, <2>2, <3>1, <3>2, LocalStep
  <2>3. CASE there = {} /\ workloads' = workloads \cup {new}
    <3>1. /\ new \in Workload /\ new.owner = o.uid /\ new.key = o.key /\ new.kind = o.kind
      BY <1>1 DEF Workload, Object
    <3> HIDE DEF new
    <3>2. \A w \in workloads : NameOf(w.owner) # n \/ w.kind # o.kind
      BY <2>3 DEF WorkloadsAt
    <3>3. NamesUnique'
      BY <1>1, <2>3, <3>1, <3>2, SMT DEF TypeOK, NamesUnique, IInv
    <3>4. TypeOK'
      BY <1>1, <1>3, <2>3, <3>1, <3>3, SMT DEF Goto, TypeOK, Steps, IInv
    <3>5. MutualExclusion'
      BY <1>2, <2>3, <3>1, SMT DEF MutualExclusion, NoForeignReservation, IInv
    <3>6. NoForeignReservation'
      BY <1>1, <1>2, <2>3, <3>1, SMT DEF NoForeignReservation, TypeOK, NamesUnique, IInv
    <3>7. UnreservedIsLegacy'
      BY <1>1, <1>2, <2>3, <3>1 DEF UnreservedIsLegacy, IsReserved, IInv
    <3>8. GenerationsCreated' /\ OneKeyPerClaim'
      BY <1>1 DEF GenerationsCreated, OneKeyPerClaim, IInv
    <3>9. ASSUME NEW m \in Roots, m # n
          PROVE  \A p \in seen'[m] : Established(m, p)'
      <4>1. pc'[m] = pc[m] /\ seen'[m] = seen[m] /\ observed'[m] = observed[m]
        BY <1>1, <1>3, <3>9, SMT DEF Goto, TypeOK, IInv
      <4>2. \A w \in workloads' :
              \/ \E v \in workloads : v.owner = w.owner /\ v.key = w.key
              \/ /\ NameOf(w.owner) # m
                 /\ \E s \in reservations' : s.key = w.key /\ s.owner = w.owner
        BY <1>1, <1>2, <2>3, <3>1, <3>9
      <4> QED BY <1>1, <4>1, <4>2, Frame DEF IsReserved
    <3> QED BY <2>1, <3>4, <3>5, <3>6, <3>7, <3>8, <3>9 DEF IInv
  <2> QED BY <2>2, <2>3, <1>3
<1>4. CASE workloads' = Terminate(there) /\ UNCHANGED pc
  <2>1. there \in SUBSET workloads
    BY DEF WorkloadsAt
  <2>2. /\ workloads' \subseteq Workload
        /\ \A w \in workloads' : \E v \in workloads : v.owner = w.owner /\ v.key = w.key
        /\ \A v, w \in workloads' :
             NameOf(v.owner) = NameOf(w.owner) /\ v.kind = w.kind => v = w
    BY <1>4, <2>1, TerminateKeeps
  <2>3. TypeOK'
    BY <1>1, <1>4, <2>2 DEF TypeOK, NamesUnique, IInv
  <2> QED BY <1>1, <1>4, <2>2, <2>3, TeardownStep
<1> QED BY <1>0, <1>3, <1>4

\* Recovery deletes the reservation of an owner that signs no more.
LEMMA RecoverStep ==
    ASSUME IInv, NEW n \in Roots, Recover(n)
    PROVE  IInv'
<1>0. PICK o \in seen[n], uid \in observed[n] :
      \/ /\ \A r \in {s \in reservations : s.key = o.key} : r.owner = uid
         /\ reservations' = reservations \ {s \in reservations : s.key = o.key}
         /\ Goto(n, "get")
      \/ UNCHANGED reservations /\ Goto(n, "idle")
  BY DEF Recover
<1>1. /\ pc[n] = "recover" /\ (\A p \in seen[n] : p = o) /\ Established(n, o)
      /\ UNCHANGED <<objects, gen, workloads, seen, faults>>
      /\ observed' = [observed EXCEPT ![n] = {}]
  BY DEF Recover, TypeOK, IInv
<1>2. NameOf(uid) = n /\ WorkloadsOf(uid) = {}
  BY <1>1 DEF Established, IInv
<1>3. /\ reservations' \subseteq reservations
      /\ \A r \in reservations \ reservations' : r.owner = uid
  BY <1>0
<1>4. pc'[n] \in {"get", "idle"} /\ \A m \in Roots \ {n} : pc'[m] = pc[m]
  BY <1>0, SMT DEF Goto, TypeOK, IInv
<1>5. TypeOK'
  BY <1>0, <1>1, <1>3 DEF Goto, TypeOK, NamesUnique, Steps, IInv
<1>6. ASSUME NEW p \in seen'[n] PROVE Established(n, p)'
  <2>1. \A q \in objects' : q.uid = p.uid => "reservation" \in q.fin
    BY <1>1 DEF Established
  <2> QED BY <1>4, <2>1 DEF Established
<1>7. \A m \in Roots \ {n} : observed'[m] = observed[m]
  BY <1>1, SMT DEF TypeOK, IInv
<1> QED BY <1>1, <1>2, <1>3, <1>4, <1>5, <1>6, <1>7, ReleaseStep

\* Adding the cleanup finalizer preserves the invariant.
LEMMA AdoptStep ==
    ASSUME IInv, NEW n \in Roots, Adopt(n)
    PROVE  IInv'
<1>1. /\ UNCHANGED <<gen, reservations, workloads, seen, observed, faults>>
      /\ Goto(n, "idle") /\ pc'[n] = "idle"
  BY SMT DEF Adopt, Goto, TypeOK, IInv
<1>2. \A o \in seen'[n] : Established(n, o)' /\ o.uid[2] <= gen[n]
  BY <1>1, IdleReliesOnNothing DEF GenerationsCreated, IInv
<1>3. CASE UNCHANGED objects
  <2>1. TypeOK'
    BY <1>1, <1>3 DEF Goto, TypeOK, NamesUnique, Steps, IInv
  <2>2. OnlyMoves(n) /\ UNCHANGED <<objects, gen, reservations, workloads>>
    BY <1>1, <1>3 DEF OnlyMoves, Goto, TypeOK, IInv
  <2> QED BY <1>1, <1>2, <1>3, <2>1, <2>2, LocalStep
<1>4. CASE ~UNCHANGED objects
  <2>1. PICK o \in seen[n] :
          o \in objects /\ Replace(o, [o EXCEPT !.fin = @ \cup {"cleanup"}])
    BY <1>4 DEF Adopt, Unchanged
  <2> DEFINE new == [o EXCEPT !.fin = @ \cup {"cleanup"}]
  <2>2. /\ new \in Object /\ new.uid = o.uid /\ new.pubkey = o.pubkey
        /\ new.fin = o.fin \cup {"cleanup"}
    BY SMT DEF TypeOK, Object, Finalizers, IInv
  <2> HIDE DEF new
  <2>3. /\ objects' \subseteq Object
        /\ \A x, p \in objects' : NameOf(x.uid) = NameOf(p.uid) => x = p
        /\ \A x \in objects' : x.uid[2] <= gen[NameOf(x.uid)]
        /\ UnreservedIsLegacy'
    BY <1>1, <2>1, <2>2, ReplaceKeeps DEF new
  <2>4. TypeOK'
    BY <1>1, <2>3 DEF Goto, TypeOK, NamesUnique, Steps, IInv
  <2>5. GenerationsCreated'
    BY <1>1, <2>3 DEF GenerationsCreated, IInv
  <2>6. \A p \in objects' : "reservation" \notin p.fin =>
          \E q \in objects : q.uid = p.uid /\ "reservation" \notin q.fin
    BY <2>1, <2>2 DEF Replace, new
  <2>7. OnlyMoves(n) /\ UNCHANGED <<reservations, workloads>>
    BY <1>1, SMT DEF OnlyMoves, Goto, TypeOK, IInv
  <2> QED BY <1>1, <1>2, <2>3, <2>4, <2>5, <2>6, <2>7, ObjectStep DEF OnlyMoves
<1> QED BY <1>3, <1>4

\* The patch protects whichever root has the name; the pass goes on only if it
\* is the root it read.
LEMMA ProtectStep ==
    ASSUME IInv, NEW n \in Roots, Protect(n)
    PROVE  IInv'
<1>0. PICK o \in seen[n] :
      \/ \E fresh \in objects :
           /\ NameOf(fresh.uid) = n
           /\ Replace(fresh, [fresh EXCEPT !.fin = @ \cup {"reservation"}])
           /\ IF fresh.uid = o.uid
              THEN /\ seen' = [seen EXCEPT ![n] =
                                {[fresh EXCEPT !.fin = @ \cup {"reservation"}]}]
                   /\ Goto(n, "record")
              ELSE UNCHANGED seen /\ Goto(n, "idle")
      \/ Goto(n, "idle") /\ UNCHANGED <<objects, seen>>
  BY DEF Protect
<1>1. UNCHANGED <<gen, reservations, workloads, observed, faults>>
  BY DEF Protect
<1>2. CASE Goto(n, "idle") /\ UNCHANGED <<objects, seen>>
  BY <1>1, <1>2, GiveUpStep
<1>3. CASE ~(Goto(n, "idle") /\ UNCHANGED <<objects, seen>>)
  <2>0. PICK fresh \in objects :
        /\ NameOf(fresh.uid) = n
        /\ Replace(fresh, [fresh EXCEPT !.fin = @ \cup {"reservation"}])
        /\ IF fresh.uid = o.uid
           THEN /\ seen' = [seen EXCEPT ![n] =
                             {[fresh EXCEPT !.fin = @ \cup {"reservation"}]}]
                /\ Goto(n, "record")
           ELSE UNCHANGED seen /\ Goto(n, "idle")
    BY <1>0, <1>3
  <2> DEFINE new == [fresh EXCEPT !.fin = @ \cup {"reservation"}]
  <2>1. /\ new \in Object /\ new.uid = fresh.uid /\ new.pubkey = fresh.pubkey
        /\ new.fin = fresh.fin \cup {"reservation"}
    BY SMT DEF TypeOK, Object, Finalizers, IInv
  <2>2. /\ Replace(fresh, new)
        /\ \/ seen' = [seen EXCEPT ![n] = {new}] /\ Goto(n, "record")
           \/ UNCHANGED seen /\ Goto(n, "idle")
    BY <2>0
  <2> HIDE DEF new
  <2>3. /\ objects' \subseteq Object
        /\ \A x, p \in objects' : NameOf(x.uid) = NameOf(p.uid) => x = p
        /\ \A x \in objects' : x.uid[2] <= gen[NameOf(x.uid)]
        /\ UnreservedIsLegacy'
    BY <1>1, <2>1, <2>2, ReplaceKeeps
  <2>4. new \in objects'
    BY <2>2 DEF Replace
  <2>5. TypeOK'
    <3>1. /\ pc' \in [Roots -> Steps] /\ seen' \in [Roots -> SUBSET Object]
          /\ \A m \in Roots : \A x, y \in seen'[m] : x = y /\ NameOf(x.uid) = m
      BY <2>0, <2>1, <2>2, SMT DEF Goto, TypeOK, Steps, IInv
    <3> QED BY <1>1, <2>3, <3>1 DEF TypeOK, NamesUnique, IInv
  <2>6. GenerationsCreated'
    <3>1. \A m \in Roots : seen'[m] = seen[m] \/ (m = n /\ seen'[m] = {new})
      BY <2>2, SMT DEF TypeOK, IInv
    <3>2. new.uid[2] <= gen[n]
      BY <2>0, <2>1 DEF GenerationsCreated, IInv
    <3> QED BY <1>1, <2>3, <3>1, <3>2, SMT DEF GenerationsCreated, IInv
  <2>7. \A m \in Roots \ {n} :
          /\ pc'[m] = pc[m] /\ seen'[m] = seen[m] /\ observed'[m] = observed[m]
          /\ \A p \in objects' : NameOf(p.uid) = m => p \in objects
    <3>1. \A p \in objects' : p \in objects \/ NameOf(p.uid) = n
      BY <2>0, <2>1, <2>2 DEF Replace
    <3> QED BY <1>1, <2>2, <3>1, SMT DEF Goto, TypeOK, IInv
  <2>8. ASSUME NEW p \in seen'[n] PROVE Established(n, p)'
    <3>1. CASE pc'[n] = "idle"
      BY <3>1 DEF Established, IInv
    <3>2. CASE pc'[n] # "idle"
      <4>1. p = new /\ pc'[n] = "record"
        BY <2>2, <3>2, SMT DEF Goto, TypeOK, IInv
      <4>2. \A q \in objects' : q.uid = p.uid => "reservation" \in q.fin
        BY <2>1, <2>3, <2>4, <4>1
      <4> QED BY <4>1, <4>2 DEF Established, IInv
    <3> QED BY <3>1, <3>2
  <2> QED BY <1>1, <2>3, <2>5, <2>6, <2>7, <2>8, ObjectStep
<1> QED BY <1>2, <1>3

\* The status update of Record and of Publish: the copy records no other key.
LEMMA RecordKeyStep ==
    ASSUME IInv, NEW n \in Roots, NEW o \in seen[n], NEW next \in {"get", "idle"},
           RecordKey(n, o, next), UNCHANGED <<gen, reservations, workloads, observed, faults>>,
           o.pubkey \subseteq {o.key}, next = "get" => pc[n] = "record"
    PROVE  IInv'
<1> DEFINE new == [o EXCEPT !.pubkey = {o.key}]
<1>1. /\ new \in Object /\ new.uid = o.uid /\ new.fin = o.fin /\ new.pubkey = {o.key}
      /\ o \in Object /\ NameOf(o.uid) = n /\ o.uid[2] <= gen[n] /\ Established(n, o)
      /\ \A p \in seen[n] : p = o
  BY SMT DEF TypeOK, Object, GenerationsCreated, IInv
<1>2. \/ /\ o \in objects /\ Replace(o, new)
         /\ seen' = [seen EXCEPT ![n] = {new}] /\ Goto(n, next)
      \/ UNCHANGED <<objects, seen>> /\ Goto(n, "idle")
  BY DEF RecordKey, Unchanged
<1> HIDE DEF new
<1>3. CASE UNCHANGED <<objects, seen>> /\ Goto(n, "idle")
  BY <1>3, GiveUpStep
<1>4. CASE /\ o \in objects /\ Replace(o, new)
           /\ seen' = [seen EXCEPT ![n] = {new}] /\ Goto(n, next)
  <2>1. /\ objects' \subseteq Object
        /\ \A x, p \in objects' : NameOf(x.uid) = NameOf(p.uid) => x = p
        /\ \A x \in objects' : x.uid[2] <= gen[NameOf(x.uid)]
        /\ UnreservedIsLegacy'
    BY <1>1, <1>4, ReplaceKeeps
  <2>2. TypeOK'
    BY <1>1, <1>4, <2>1, SMT DEF Goto, TypeOK, NamesUnique, Steps, IInv
  <2>3. GenerationsCreated'
    BY <1>1, <1>4, <2>1 DEF GenerationsCreated, TypeOK, IInv
  <2>4. \A m \in Roots \ {n} :
          /\ pc'[m] = pc[m] /\ seen'[m] = seen[m]
          /\ \A p \in objects' : NameOf(p.uid) = m => p \in objects
    BY <1>1, <1>4 DEF Goto, TypeOK, Replace, IInv
  <2>5. ASSUME NEW p \in seen'[n] PROVE Established(n, p)'
    <3>1. p = new /\ pc'[n] = next
      BY <1>4, SMT DEF Goto, TypeOK, IInv
    <3>2. next = "get" => \A q \in objects' : q.uid = p.uid => "reservation" \in q.fin
      <4>1. next = "get" => \A q \in objects : q.uid = o.uid => "reservation" \in q.fin
        BY <1>1 DEF Established
      <4>2. \A q \in objects' : q = new \/ q \in objects
        BY <1>4 DEF Replace
      <4> QED BY <1>1, <1>4, <3>1, <4>1, <4>2
    <3> QED BY <3>1, <3>2 DEF Established, IInv
  <2> QED BY <2>1, <2>2, <2>3, <2>4, <2>5, ObjectStep
<1> QED BY <1>2, <1>3, <1>4

\* A root without a recorded key may record the one it has.
LEMMA RecordStep ==
    ASSUME IInv, NEW n \in Roots, Record(n)
    PROVE  IInv'
<1>0. PICK o \in seen[n] :
      \/ o.pubkey = {} /\ RecordKey(n, o, "get")
      \/ Goto(n, "get") /\ UNCHANGED <<objects, seen>>
  BY DEF Record
<1>1. pc[n] = "record" /\ UNCHANGED <<gen, reservations, workloads, observed, faults>>
  BY DEF Record
<1>2. CASE o.pubkey = {} /\ RecordKey(n, o, "get")
  BY <1>1, <1>2, RecordKeyStep
<1>3. CASE Goto(n, "get") /\ UNCHANGED <<objects, seen>>
  <2>1. TypeOK'
    BY <1>1, <1>3 DEF Goto, TypeOK, NamesUnique, Steps, IInv
  <2>0. pc'[n] = "get" /\ UNCHANGED <<objects, seen>>
    BY <1>3, SMT DEF Goto, TypeOK, IInv
  <2>2. ASSUME NEW p \in seen'[n] PROVE Established(n, p)' /\ p.uid[2] <= gen[n]
    <3>1. p \in seen[n] /\ Established(n, p) /\ p.uid[2] <= gen[n]
      BY <2>0 DEF GenerationsCreated, IInv
    <3>2. \A q \in objects' : q.uid = p.uid => "reservation" \in q.fin
      BY <1>1, <2>0, <3>1 DEF Established
    <3>3. Established(n, p)'
      BY <2>0, <3>2 DEF Established
    <3> QED BY <3>1, <3>3
  <2>3. OnlyMoves(n) /\ UNCHANGED <<objects, gen, reservations, workloads>>
    BY <1>1, <1>3, SMT DEF OnlyMoves, Goto, TypeOK, IInv
  <2> QED BY <1>1, <1>3, <2>1, <2>2, <2>3, LocalStep
<1> QED BY <1>0, <1>2, <1>3

\* The key a root publishes is the one it recorded before, if any.
LEMMA PublishStep ==
    ASSUME IInv, NEW n \in Roots, Publish(n)
    PROVE  IInv'
<1>0. PICK o \in seen[n] :
      \/ RecordKey(n, o, "idle")
      \/ Goto(n, "idle") /\ UNCHANGED <<objects, seen>>
  BY DEF Publish
<1>1. pc[n] = "publish" /\ UNCHANGED <<gen, reservations, workloads, observed, faults>>
  BY DEF Publish
<1>2. CASE RecordKey(n, o, "idle")
  <2>1. o \in Object /\ ~KeyMismatch(o)
    BY <1>1 DEF TypeOK, Established, IInv
  <2>2. o.pubkey \subseteq {o.key}
    BY <2>1 DEF Object, KeyMismatch
  <2> QED BY <1>1, <1>2, <2>2, RecordKeyStep
<1>3. CASE Goto(n, "idle") /\ UNCHANGED <<objects, seen>>
  BY <1>1, <1>3, GiveUpStep
<1> QED BY <1>0, <1>2, <1>3

\* The invariant holds in the initial states: an older release's roots run
\* distinct keys and record them.
LEMMA Initially ==
    Init => IInv
<1> SUFFICES ASSUME Init PROVE IInv
  OBVIOUS
<1>a. PICK L \in SUBSET Roots : \E k \in [L -> Keys], m \in [L -> Kinds], R \in SUBSET L :
      /\ L # {} => MaxGen >= 1
      /\ \A a, b \in L : k[a] = k[b] => a = b
      /\ objects = {LegacyObject(n, k[n], m[n]) : n \in L}
      /\ gen = [n \in Roots |-> IF n \in L THEN 1 ELSE 0]
      /\ reservations = {[key |-> k[n], owner |-> <<n, 1>>] : n \in R}
      /\ workloads = {[owner |-> <<n, 1>>, kind |-> m[n], key |-> k[n],
                       terminating |-> FALSE] : n \in L}
  BY DEF Init
<1>0. PICK k \in [L -> Keys], m \in [L -> Kinds], R \in SUBSET L :
      /\ L # {} => MaxGen >= 1
      /\ \A a, b \in L : k[a] = k[b] => a = b
      /\ objects = {LegacyObject(n, k[n], m[n]) : n \in L}
      /\ gen = [n \in Roots |-> IF n \in L THEN 1 ELSE 0]
      /\ reservations = {[key |-> k[n], owner |-> <<n, 1>>] : n \in R}
      /\ workloads = {[owner |-> <<n, 1>>, kind |-> m[n], key |-> k[n],
                       terminating |-> FALSE] : n \in L}
  BY <1>a
<1>1. /\ pc = [n \in Roots |-> "idle"] /\ seen = [n \in Roots |-> {}]
      /\ observed = [n \in Roots |-> {}] /\ faults = 0
  BY DEF Init
<1>2. \A n \in L : <<n, 1>> \in Uids /\ <<n, 1>>[1] = n
  BY <1>0, MaxGenAssumption, SMT DEF Uids
<1> DEFINE root(n) == LegacyObject(n, k[n], m[n])
           held(n) == [key |-> k[n], owner |-> <<n, 1>>]
           path(n) == [owner |-> <<n, 1>>, kind |-> m[n], key |-> k[n], terminating |-> FALSE]
<1>3. \A n \in L : /\ root(n) \in Object /\ root(n).uid = <<n, 1>>
                  /\ root(n).pubkey = {k[n]} /\ root(n).fin = {"cleanup"}
  BY <1>2 DEF LegacyObject, Object, Finalizers
<1>4. \A n \in L : held(n) \in Reservation /\ held(n).key = k[n] /\ held(n).owner = <<n, 1>>
  BY <1>2 DEF Reservation
<1>5. \A n \in L : path(n) \in Workload /\ path(n).owner = <<n, 1>> /\ path(n).key = k[n]
  BY <1>2 DEF Workload
<1>6. /\ objects = {root(n) : n \in L} /\ reservations = {held(n) : n \in R}
      /\ workloads = {path(n) : n \in L}
  BY <1>0
<1> HIDE DEF root, held, path
<1>7. NamesUnique
  <2>1. \A o, p \in objects : NameOf(o.uid) = NameOf(p.uid) => o = p
    <3>1. \A n \in L : NameOf(root(n).uid) = n
      BY <1>2, <1>3
    <3> HIDE DEF NameOf
    <3> QED BY <1>6, <3>1, SMT
  <2>2. \A r, s \in reservations : r.key = s.key => r = s
    <3>1. \A a, b \in R : held(a).key = held(b).key => a = b
      BY <1>0, <1>4
    <3> QED BY <1>6, <3>1, SMT
  <2>3. \A v, w \in workloads :
          NameOf(v.owner) = NameOf(w.owner) /\ v.kind = w.kind => v = w
    BY <1>2, <1>5, <1>6, SMT
  <2> QED BY <2>1, <2>2, <2>3 DEF NamesUnique
<1>8. gen \in [Roots -> 0..MaxGen]
  BY <1>0, MaxGenAssumption, SMT
<1>9. TypeOK
  <2>1. objects \subseteq Object /\ reservations \subseteq Reservation /\ workloads \subseteq Workload
    BY <1>3, <1>4, <1>5, <1>6
  <2> QED BY <1>1, <1>7, <1>8, <2>1, MaxFaultsAssumption, SMT DEF TypeOK, Steps, IInv
<1>10. GenerationsCreated
  <2>1. \A n \in L : root(n).uid[2] <= gen[NameOf(root(n).uid)]
    BY <1>0, <1>3, SMT
  <2>2. \A o \in objects : o.uid[2] <= gen[NameOf(o.uid)]
    BY <1>6, <2>1
  <2> QED BY <1>1, <2>2 DEF GenerationsCreated
<1>11. MutualExclusion /\ OneKeyPerClaim /\ NoForeignReservation
  <2>1. \A a, b \in L : k[a] = k[b] => a = b
    BY <1>0
  <2>2. \A a, b \in L : <<a, 1>> = <<b, 1>> => a = b
    OBVIOUS
  <2>3. MutualExclusion
    BY <1>5, <1>6, <2>1, SMT DEF MutualExclusion
  <2>4. OneKeyPerClaim
    BY <1>4, <1>6, <2>2, SMT DEF OneKeyPerClaim
  <2>5. NoForeignReservation
    BY <1>4, <1>5, <1>6, <2>1, SMT DEF NoForeignReservation
  <2> QED BY <2>3, <2>4, <2>5
<1>12. UnreservedIsLegacy
  <2>1. \A n \in L : root(n) \in objects
    BY <1>6
  <2>2. ASSUME NEW w \in workloads
        PROVE  \E o \in objects : o.uid = w.owner /\ w.key \in o.pubkey /\ "cleanup" \in o.fin
    <3>1. PICK n \in L : w = path(n)
      BY <1>6
    <3>2. root(n).uid = w.owner /\ w.key \in root(n).pubkey /\ "cleanup" \in root(n).fin
      BY <1>3, <1>5, <3>1
    <3> QED BY <2>1, <3>2
  <2> QED BY <2>2 DEF UnreservedIsLegacy, IInv
<1> QED BY <1>1, <1>9, <1>10, <1>11, <1>12 DEF IInv

\* Every step preserves the invariant.
LEMMA Inductive ==
    IInv /\ [Next]_vars => IInv'
<1> SUFFICES ASSUME IInv, [Next]_vars PROVE IInv'
  OBVIOUS
<1>1. CASE UNCHANGED vars
  <2>1. TypeOK'
    BY <1>1 DEF vars, TypeOK, NamesUnique, IInv
  <2>2. GenerationsCreated' /\ MutualExclusion' /\ OneKeyPerClaim'
    BY <1>1 DEF vars, GenerationsCreated, MutualExclusion, OneKeyPerClaim, IInv
  <2>3. NoForeignReservation' /\ UnreservedIsLegacy'
    BY <1>1 DEF vars, NoForeignReservation, UnreservedIsLegacy, IsReserved, IInv
  <2>4. ASSUME NEW n \in Roots, NEW o \in seen'[n] PROVE Established(n, o)'
    <3>1. Established(n, o)
      BY <1>1 DEF vars, IInv
    <3> QED BY <1>1, <3>1 DEF vars, Established, KeyMismatch, ConflictingClaim, WorkloadsOf,
          IsReserved
  <2> QED BY <2>1, <2>2, <2>3, <2>4 DEF IInv
<1>2. CASE GarbageCollect
  BY <1>2, GarbageCollectStep
<1>3. CASE PathGone
  BY <1>3, PathGoneStep
<1>4. ASSUME NEW n \in Roots, Reconcile(n) \/ Step(n) \/ User(n) \/ Crash(n)
      PROVE  IInv'
  <2>1. CASE Reconcile(n)
    BY <2>1, ReconcileStep
  <2>2. CASE Crash(n)
    BY <2>2, CrashStep
  <2>3. CASE User(n)
    BY <2>3, CreateRootStep, DeleteRootStep, ReplaceKeyStep, ForceDeleteStep DEF User
  <2>4. CASE Finalize(n)
    <3>1. CASE SigningPaths(n, "earlyPaths", "earlyRelease", "resources")
      BY <3>1, SigningPathsStep
    <3>2. CASE SigningPaths(n, "paths", "release", "idle")
      BY <3>2, SigningPathsStep
    <3>3. CASE Release(n, "earlyRelease", "earlyUnfinalize")
      BY <3>3, ReleaseActionStep
    <3>4. CASE Release(n, "release", "unfinalize")
      BY <3>4, ReleaseActionStep
    <3>5. CASE Unfinalize(n, "earlyUnfinalize", "resources")
      BY <3>5, UnfinalizeStep
    <3>6. CASE Unfinalize(n, "unfinalize", "idle")
      BY <3>6, UnfinalizeStep
    <3>7. CASE Resources(n) \/ DropCleanup(n)
      BY <3>7, ResourcesStep, DropCleanupStep
    <3> QED BY <2>4, <3>1, <3>2, <3>3, <3>4, <3>5, <3>6, <3>7 DEF Finalize
  <2>5. CASE Step(n) /\ ~Finalize(n)
    BY <2>5, AdoptStep, PrepareStep, ProtectStep, RecordStep, GetReservationStep,
       RecoverStep, CheckStep, CreateReservationStep, ConfirmStep, QuiesceStep,
       DeployStep, PublishStep DEF Step
  <2> QED BY <1>4, <2>1, <2>2, <2>3, <2>4, <2>5
<1> QED BY <1>1, <1>2, <1>3, <1>4 DEF Next

\* The invariant holds throughout: what every reconcile relies on between two
\* of its calls stays true, whatever the others do in between.
THEOREM Invariance == Spec => []IInv
  BY Initially, Inductive, PTL DEF Spec

\* Every reachable state is well-typed and names are unique in it.
THEOREM TypeCorrect == Spec => []TypeOK
  BY Invariance, PTL DEF IInv

\* No two roots ever run signing paths for one consensus key, for any number
\* of roots, keys, re-creations, crashes and forced deletions.
THEOREM NoDoubleSigning == Spec => []MutualExclusion
  BY Invariance, PTL DEF IInv

\* No claim ever reserves two keys.
THEOREM ClaimsReserveOneKey == Spec => []OneKeyPerClaim
  BY Invariance, PTL DEF IInv

\* Whoever deletes a reservation, its owner has no signing path left.
THEOREM ReleasedAfterTeardown == Spec => ReleaseAfterTeardown
<1> DEFINE A == \A r \in reservations \ reservations' : WorkloadsOf(r.owner) = {}
<1>1. IInv /\ [Next]_vars => [A]_vars
  <2> SUFFICES ASSUME IInv, Next PROVE A
    OBVIOUS
  <2>1. CASE GarbageCollect \/ PathGone
    BY <2>1 DEF GarbageCollect, PathGone
  <2>2. ASSUME NEW n \in Roots, Reconcile(n) \/ User(n) \/ Crash(n)
        PROVE  A
    BY <2>2 DEF Reconcile, User, Crash, CreateRoot, DeleteRoot, ReplaceKey, ForceDelete
  <2>3. ASSUME NEW n \in Roots, Recover(n)
        PROVE  A
    BY <2>3 DEF Recover, Established, IInv
  <2>4. ASSUME NEW n \in Roots, NEW step \in {"earlyRelease", "release"}, NEW next,
               Release(n, step, next)
        PROVE  A
    BY <2>4, SMT DEF Release, Established, IInv
  <2>5. ASSUME NEW n \in Roots, Step(n), ~Recover(n),
               ~Release(n, "earlyRelease", "earlyUnfinalize"),
               ~Release(n, "release", "unfinalize")
        PROVE  A
    <3>1. reservations \subseteq reservations'
      BY <2>5 DEF Step, Finalize, Adopt, Prepare, Protect, Record, GetReservation, Check,
         CreateReservation, Confirm, Quiesce, Deploy, Publish, SigningPaths, Unfinalize,
         Resources, DropCleanup
    <3> QED BY <3>1
  <2> QED BY <2>1, <2>2, <2>3, <2>4, <2>5 DEF Next
<1> QED BY <1>1, Invariance, PTL DEF Spec, ReleaseAfterTeardown

\* Whoever creates a reservation has protected its owner first.
THEOREM ReservedAfterProtection == Spec => ReservationIsProtected
<1> DEFINE A == \A r \in reservations' \ reservations :
                  \A o \in objects : o.uid = r.owner => "reservation" \in o.fin
<1>1. IInv /\ [Next]_vars => [A]_vars
  <2> SUFFICES ASSUME IInv, Next PROVE A
    OBVIOUS
  <2>1. CASE GarbageCollect \/ PathGone
    BY <2>1 DEF GarbageCollect, PathGone
  <2>2. ASSUME NEW n \in Roots, Reconcile(n) \/ User(n) \/ Crash(n)
        PROVE  A
    BY <2>2 DEF Reconcile, User, Crash, CreateRoot, DeleteRoot, ReplaceKey, ForceDelete
  <2>3. ASSUME NEW n \in Roots, CreateReservation(n)
        PROVE  A
    BY <2>3, SMT DEF CreateReservation, Established, IInv
  <2>4. ASSUME NEW n \in Roots, Step(n), ~CreateReservation(n)
        PROVE  A
    <3>1. reservations' \subseteq reservations
      BY <2>4 DEF Step, Finalize, Adopt, Prepare, Protect, Record, GetReservation, Recover,
         Check, Confirm, Quiesce, Deploy, Publish, SigningPaths, Release, Unfinalize,
         Resources, DropCleanup
    <3> QED BY <3>1
  <2> QED BY <2>1, <2>2, <2>3, <2>4 DEF Next
<1> QED BY <1>1, Invariance, PTL DEF Spec, ReservationIsProtected

----------------------------------------------------------------------------
(* Reservation implements OneSigner.  MutualExclusion says that two roots  *)
(* never sign at once; what is left to show is that a step never exchanges *)
(* one for another: it starts paths for one root, or stops one path, or    *)
(* does neither.                                                           *)

\* Who signs, with which key: what Signers depends on.
Signings(W) == {<<w.key, w.owner>> : w \in W}

\* Asking a path to end does not change who signs.
LEMMA TerminateKeepsSigners ==
    ASSUME workloads \subseteq Workload, NEW W \in SUBSET workloads, workloads' = Terminate(W)
    PROVE  Signings(workloads') = Signings(workloads)
<1>1. ASSUME NEW w \in workloads PROVE \E v \in workloads' : v.key = w.key /\ v.owner = w.owner
  <2>1. CASE w \in W
    <3>1. [w EXCEPT !.terminating = TRUE] \in workloads'
      BY <2>1 DEF Terminate
    <3>2. w \in [owner : Uids, kind : Kinds, key : Keys, terminating : BOOLEAN]
      BY DEF Workload
    <3> QED BY <3>1, <3>2
  <2>2. CASE w \notin W
    BY <2>2 DEF Terminate
  <2> QED BY <2>1, <2>2
<1>2. ASSUME NEW v \in workloads' PROVE \E w \in workloads : v.key = w.key /\ v.owner = w.owner
  <2>1. CASE v \in workloads
    BY <2>1
  <2>2. CASE v \notin workloads
    <3>1. PICK w \in W : v = [w EXCEPT !.terminating = TRUE]
      BY <2>2 DEF Terminate
    <3>2. w \in [owner : Uids, kind : Kinds, key : Keys, terminating : BOOLEAN]
      BY DEF Workload
    <3> QED BY <3>1, <3>2
  <2> QED BY <2>1, <2>2
<1> QED BY <1>1, <1>2, SMT DEF Signings

\* A step leaves the signers as they are, adds one path or ends one path.
Starts == \E w \in Workload : workloads' = workloads \cup {w}
Ends == \E w \in workloads : workloads' = workloads \ {w}

LEMMA StepOfSigners ==
    ASSUME IInv, Next
    PROVE  Signings(workloads') = Signings(workloads) \/ Starts \/ Ends
<1> DEFINE Kept == Signings(workloads') = Signings(workloads)
<1>0. workloads \subseteq Workload
  BY DEF TypeOK, IInv
<1>1. CASE GarbageCollect
  <2>1. PICK w \in workloads : workloads' = Terminate({w})
    BY <1>1 DEF GarbageCollect
  <2> QED BY <1>0, <2>1, TerminateKeepsSigners
<1>2. CASE PathGone
  BY <1>2 DEF PathGone, Ends
<1>3. ASSUME NEW n \in Roots, Reconcile(n) \/ User(n) \/ Crash(n)
      PROVE  Kept
  <2>1. workloads' = workloads
    BY <1>3 DEF Reconcile, User, Crash, CreateRoot, DeleteRoot, ReplaceKey, ForceDelete
  <2> QED BY <2>1
<1>4. ASSUME NEW n \in Roots, Deploy(n)
      PROVE  Kept \/ Starts
  <2>1. PICK o \in seen[n] :
          LET there == {w \in WorkloadsAt(n) : w.kind = o.kind}
          IN  \/ workloads' = workloads \cup
                   {[owner |-> o.uid, kind |-> o.kind, key |-> o.key, terminating |-> FALSE]}
              \/ workloads' = workloads
              \/ workloads' = Terminate(there)
    BY <1>4 DEF Deploy
  <2>2. CASE workloads' = workloads
    BY <2>2
  <2>3. CASE workloads' = Terminate({w \in WorkloadsAt(n) : w.kind = o.kind})
    <3>1. {w \in WorkloadsAt(n) : w.kind = o.kind} \in SUBSET workloads
      BY DEF WorkloadsAt
    <3> QED BY <1>0, <2>3, <3>1, TerminateKeepsSigners
  <2>4. CASE workloads' = workloads \cup
               {[owner |-> o.uid, kind |-> o.kind, key |-> o.key, terminating |-> FALSE]}
    <3>1. o \in Object
      BY DEF TypeOK, IInv
    <3>2. [owner |-> o.uid, kind |-> o.kind, key |-> o.key, terminating |-> FALSE] \in Workload
      BY <3>1 DEF Object, Workload
    <3> QED BY <2>4, <3>2 DEF Starts
  <2> QED BY <2>1, <2>2, <2>3, <2>4
<1>5. ASSUME NEW n \in Roots, Step(n), ~Deploy(n)
      PROVE  Kept
  <2>1. workloads' = workloads \/ \E o \in seen[n] : workloads' = Terminate(WorkloadsOf(o.uid))
    BY <1>5 DEF Step, Finalize, Adopt, Prepare, Protect, Record, GetReservation, Recover,
       Check, CreateReservation, Confirm, Quiesce, Publish, SigningPaths, Release,
       Unfinalize, Resources, DropCleanup
  <2>2. CASE workloads' = workloads
    BY <2>2
  <2>3. ASSUME NEW o \in seen[n], workloads' = Terminate(WorkloadsOf(o.uid))
        PROVE  Kept
    <3>1. WorkloadsOf(o.uid) \in SUBSET workloads
      BY DEF WorkloadsOf
    <3> QED BY <1>0, <2>3, <3>1, TerminateKeepsSigners
  <2> QED BY <2>1, <2>2, <2>3
<1> QED BY <1>1, <1>2, <1>3, <1>4, <1>5 DEF Next

\* Of each key there is at most one signer.
LEMMA AtMostOneSigner ==
    ASSUME IInv
    PROVE  Signers \in [Keys -> {{}} \cup {{u} : u \in Uids}]
<1> SUFFICES ASSUME NEW k \in Keys
             PROVE  Signers[k] \in {{}} \cup {{u} : u \in Uids}
  BY DEF Signers
<1>1. Signers[k] = {w.owner : w \in {v \in workloads : v.key = k}}
  BY DEF Signers
<1>2. CASE Signers[k] = {}
  BY <1>2
<1>3. CASE Signers[k] # {}
  <2>1. PICK w \in workloads : w.key = k /\ w.owner \in Signers[k]
    BY <1>1, <1>3
  <2>2. \A v \in workloads : v.key = k => v.owner = w.owner
    BY <2>1 DEF MutualExclusion, IInv
  <2>3. Signers[k] = {w.owner}
    BY <1>1, <2>1, <2>2
  <2>4. w.owner \in Uids
    BY DEF TypeOK, Workload, IInv
  <2> QED BY <2>3, <2>4
<1> QED BY <1>2, <1>3

\* The same pairs of key and owner, the same signers.
LEMMA SignersOfSignings ==
    ASSUME Signings(workloads') = Signings(workloads)
    PROVE  Signers' = Signers
<1>1. ASSUME NEW k \in Keys PROVE Signers'[k] = Signers[k]
  <2>1. ASSUME NEW u PROVE u \in Signers[k] <=> <<k, u>> \in Signings(workloads)
    BY DEF Signers, Signings
  <2>2. ASSUME NEW u PROVE u \in Signers'[k] <=> <<k, u>> \in Signings(workloads')
    BY DEF Signers, Signings
  <2> QED BY <2>1, <2>2
<1> QED BY <1>1 DEF Signers

\* A path that starts takes a key nobody signs with, or joins its own root's.
LEMMA StartTakes ==
    ASSUME IInv, IInv', Starts
    PROVE  Signers' = Signers \/ \E k \in Keys : Abstract!Take(k)
<1>1. PICK w \in Workload : workloads' = workloads \cup {w}
  BY DEF Starts
<1>2. w.key \in Keys /\ w.owner \in Uids
  BY DEF Workload
<1>3. ASSUME NEW k \in Keys, k # w.key PROVE Signers'[k] = Signers[k]
  BY <1>1, <1>3 DEF Signers
<1>4. Signers'[w.key] = Signers[w.key] \cup {w.owner}
  BY <1>1, <1>2 DEF Signers
<1>5. Signers[w.key] \in {{}} \cup {{u} : u \in Uids}
  BY <1>2, AtMostOneSigner
<1>6. \A u \in Signers[w.key] : u = w.owner
  <2>1. \A v \in workloads' : v.key = w.key => v.owner = w.owner
    BY <1>1 DEF MutualExclusion, IInv
  <2> QED BY <1>1, <1>2, <2>1 DEF Signers
<1>7. DOMAIN Signers = Keys /\ DOMAIN Signers' = Keys
  BY DEF Signers
<1>8. CASE Signers[w.key] = {}
  <2>1. Signers'[w.key] = {w.owner}
    BY <1>4, <1>8
  <2>2. Signers' = [Signers EXCEPT ![w.key] = {w.owner}]
    BY <1>2, <1>3, <1>7, <2>1 DEF Signers
  <2> QED BY <1>2, <1>8, <2>2 DEF Abstract!Take
<1>9. CASE Signers[w.key] # {}
  <2>1. Signers'[w.key] = Signers[w.key]
    BY <1>4, <1>6, <1>9
  <2>2. \A k \in Keys : Signers'[k] = Signers[k]
    BY <1>3, <2>1
  <2> QED BY <2>2 DEF Signers
<1> QED BY <1>8, <1>9

\* A path that ends leaves its key to its root's other path, or to nobody.
LEMMA EndLeaves ==
    ASSUME IInv, IInv', Ends
    PROVE  Signers' = Signers \/ \E k \in Keys : Abstract!Leave(k)
<1>1. PICK w \in workloads : workloads' = workloads \ {w}
  BY DEF Ends
<1>2. w.key \in Keys
  BY DEF TypeOK, Workload, IInv
<1>3. ASSUME NEW k \in Keys, k # w.key PROVE Signers'[k] = Signers[k]
  BY <1>1, <1>3 DEF Signers
<1>4. Signers'[w.key] \subseteq Signers[w.key]
  BY <1>1, <1>2 DEF Signers
<1>5. Signers[w.key] \in {{}} \cup {{u} : u \in Uids}
  BY <1>2, AtMostOneSigner
<1>6. CASE Signers'[w.key] = {}
  <2>1. Signers' = [Signers EXCEPT ![w.key] = {}]
    BY <1>2, <1>3, <1>6 DEF Signers
  <2> QED BY <1>2, <2>1 DEF Abstract!Leave
<1>7. CASE Signers'[w.key] # {}
  <2>1. Signers'[w.key] = Signers[w.key]
    BY <1>4, <1>5, <1>7
  <2>2. \A k \in Keys : Signers'[k] = Signers[k]
    BY <1>3, <2>1
  <2> QED BY <2>2 DEF Signers
<1> QED BY <1>6, <1>7

\* Towards a chain the protocol is one signer per key: whatever interleaves, a
\* key changes hands only after its last signer stopped.
THEOREM HandsOverStopped == Spec => ImplementsOneSigner
<1>1. Init => Abstract!Init
  BY Initially, AtMostOneSigner DEF Abstract!Init
<1>2. IInv /\ IInv' /\ [Next]_vars => [Abstract!Next]_Signers
  <2>1. ASSUME IInv, IInv', Next PROVE [Abstract!Next]_Signers
    <3>1. CASE Signings(workloads') = Signings(workloads)
      BY <3>1, SignersOfSignings
    <3>2. CASE Starts
      BY <2>1, <3>2, StartTakes DEF Abstract!Next
    <3>3. CASE Ends
      BY <2>1, <3>3, EndLeaves DEF Abstract!Next
    <3> QED BY <2>1, <3>1, <3>2, <3>3, StepOfSigners
  <2>2. ASSUME UNCHANGED vars PROVE [Abstract!Next]_Signers
    BY <2>2 DEF vars, Signers
  <2> QED BY <2>1, <2>2
<1> QED BY <1>1, <1>2, Invariance, PTL DEF Spec, Abstract!Spec, ImplementsOneSigner

============================================================================
