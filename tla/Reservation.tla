---------------------------- MODULE Reservation ----------------------------
(***************************************************************************)
(* The consensus-key reservation protocol of standalone ChainNode roots.   *)
(*                                                                         *)
(* A cluster-scoped ConsensusKeyReservation, named after one chain and one *)
(* consensus public key, is the lock that keeps two controller roots from  *)
(* running independent signers for the same key.  A reconcile of a root    *)
(* protects the root with a finalizer, takes the reservation of its key    *)
(* and only then starts a signing path (a validator pod holding the key,   *)
(* or a cosmosigner StatefulSet).  Deleting the root tears the paths down  *)
(* before the reservation is released.  A root whose finalizers were       *)
(* stripped by hand leaves a stale reservation, which only a root of the   *)
(* same name may recover, once the old signing paths are gone.             *)
(*                                                                         *)
(* Every action is one interaction of a reconcile with the API server, so  *)
(* reconciles of different roots, the user, the garbage collector and      *)
(* crashes of the manager interleave between any two of them.  Reconciles  *)
(* of one root name are serialised by the work queue.  One chain is        *)
(* modelled: reservations of different chains never meet.  A terminating   *)
(* namespace, whose live roots take the way out of a deleted one, is not   *)
(* modelled here.                                                          *)
(***************************************************************************)
EXTENDS Naturals, FiniteSets

CONSTANTS Roots,    \* namespaced names of ChainNode roots
          Keys,     \* consensus public keys
          MaxGen,   \* how often an object of one name may be created
          MaxFaults \* how many crashes, forced deletions and replaced Secrets

ASSUME MaxGenAssumption == MaxGen \in Nat

ASSUME MaxFaultsAssumption == MaxFaults \in Nat

VARIABLES objects,      \* the ChainNode roots in the API server
          gen,          \* the last generation created under each name
          reservations, \* the ConsensusKeyReservation objects
          workloads,    \* the signing paths: validator pods and signers
          pc,           \* where the reconcile of each name stands
          seen,         \* its copy of the root: none, or one object
          observed,     \* the owner of the stale reservation it recovers
          faults        \* crashes, forced deletions and replaced Secrets so far

vars == <<objects, gen, reservations, workloads, pc, seen, observed, faults>>

----------------------------------------------------------------------------
(* Types *)

\* An object's UID is never reused: the name and the generation.
Uids == Roots \X (1..MaxGen)

NameOf(uid) == uid[1]

\* A validator signs with a key mounted in its pod, or through a cosmosigner.
Kinds == {"pod", "signer"}

\* resourcecleanup.Finalizer and cosmosigner.ReservationOwnerFinalizer
Finalizers == {"cleanup", "reservation"}

\* A root: the key its Secret holds, its signing mode and the public key
\* recorded in its status (none or one).
Object == [uid : Uids, deleting : BOOLEAN, fin : SUBSET Finalizers,
           key : Keys, kind : Kinds, pubkey : {{}} \cup {{k} : k \in Keys}]

\* The claim of a standalone root is its name, so the owner UID implies it.
Reservation == [key : Keys, owner : Uids]

Workload == [owner : Uids, kind : Kinds, key : Keys, terminating : BOOLEAN]

Steps == {"idle", "adopt", "prepare", "protect", "record", "get", "recover",
          "check", "create", "confirm", "quiesce", "deploy", "publish",
          "earlyPaths", "earlyRelease", "earlyUnfinalize", "resources",
          "dropCleanup", "paths", "release", "unfinalize"}

----------------------------------------------------------------------------
(* Helpers *)

Goto(n, step) == pc' = [pc EXCEPT ![n] = step]

WorkloadsOf(uid) == {w \in workloads : w.owner = uid}

WorkloadsAt(n) == {w \in workloads : NameOf(w.owner) = n}

IsReserved(w) == \E r \in reservations : r.key = w.key /\ r.owner = w.owner

Terminate(W) == (workloads \ W) \cup {[w EXCEPT !.terminating = TRUE] : w \in W}

Replace(old, new) == objects' = (objects \ {old}) \cup {new}

\* The API server removes a terminating object with its last finalizer.
RemoveFinalizer(o, f) ==
    LET new == [o EXCEPT !.fin = @ \ {f}]
    IN  objects' = (objects \ {o}) \cup
                   (IF o.deleting /\ new.fin = {} THEN {} ELSE {new})

\* An update carries the resource version of the copy it was made from.
Unchanged(o) == o \in objects

\* Faulty variant: an owner counts as alive when its name exists again.
StaleByName(uid) == \A o \in objects : NameOf(o.uid) # NameOf(uid)

Stale(uid) == \A o \in objects : o.uid # uid

\* Faulty variant: the claim's other reservations are not looked at.
NoClaimScan(o) == FALSE

\* ensureNoConflictingReservationClaim: the claim holds no other key.
ConflictingClaim(o) == \E r \in reservations : r.owner = o.uid /\ r.key # o.key

\* ensureNoLegacyConsensusKeyOwner: no other root records the key in its status.
LegacyOwner(o) == \E p \in objects : p.uid # o.uid /\ o.key \in p.pubkey

\* Faulty variant: the signing paths of a stale owner are not looked at.
StalePathsIgnored(uid, holder) == TRUE

\* staleReservationSigningPathsGone: no workload of the stale owner is left, and
\* none that matches its names without belonging to the current holder.
StalePathsGone(uid, holder) ==
    \A w \in WorkloadsAt(NameOf(uid)) : w.owner = holder

----------------------------------------------------------------------------
(* The initial states: an empty cluster, or one with roots that an older   *)
(* release runs.  Those have signing paths and a recorded key; they may    *)
(* have a reservation, but not the reservation finalizer, which is newer.  *)
(* ProtectExistingRoots gave them the cleanup finalizer before any         *)
(* reconcile.  No two of them run the same key.                            *)

LegacyObject(n, k, m) ==
    [uid |-> <<n, 1>>, deleting |-> FALSE, fin |-> {"cleanup"},
     key |-> k, kind |-> m, pubkey |-> {k}]

Init ==
    /\ \E L \in SUBSET Roots :
         \E k \in [L -> Keys], m \in [L -> Kinds], R \in SUBSET L :
           /\ L # {} => MaxGen >= 1
           /\ \A a, b \in L : k[a] = k[b] => a = b
           /\ objects = {LegacyObject(n, k[n], m[n]) : n \in L}
           /\ gen = [n \in Roots |-> IF n \in L THEN 1 ELSE 0]
           /\ reservations = {[key |-> k[n], owner |-> <<n, 1>>] : n \in R}
           /\ workloads = {[owner |-> <<n, 1>>, kind |-> m[n], key |-> k[n],
                            terminating |-> FALSE] : n \in L}
    /\ pc = [n \in Roots |-> "idle"]
    /\ seen = [n \in Roots |-> {}]
    /\ observed = [n \in Roots |-> {}]
    /\ faults = 0

----------------------------------------------------------------------------
(* The reconcile of a root that is not being deleted *)

\* Reconcile: r.Get reads the informer cache, which may still serve the copy
\* the previous reconcile of this name worked from.
Reconcile(n) ==
    /\ pc[n] = "idle"
    /\ \E o \in objects \cup seen[n] :
         /\ NameOf(o.uid) = n
         /\ seen' = [seen EXCEPT ![n] = {o}]
         /\ Goto(n, CASE o.deleting /\ "reservation" \notin o.fin -> "earlyPaths"
                      [] o.deleting /\ "reservation" \in o.fin -> "resources"
                      [] ~o.deleting /\ "cleanup" \notin o.fin -> "adopt"
                      [] OTHER -> "prepare")
    /\ UNCHANGED <<objects, gen, reservations, workloads, observed, faults>>

\* The cleanup finalizer is added by an Update that ends the pass.
Adopt(n) ==
    /\ pc[n] = "adopt"
    /\ \E o \in seen[n] :
         IF Unchanged(o) THEN Replace(o, [o EXCEPT !.fin = @ \cup {"cleanup"}])
                         ELSE UNCHANGED objects
    /\ Goto(n, "idle")
    /\ UNCHANGED <<gen, reservations, workloads, seen, observed, faults>>

\* Faulty variant: the finalizer is left for a later pass.
PrepareUnprotected(n) ==
    /\ pc[n] = "prepare"
    /\ Goto(n, "record")
    /\ UNCHANGED <<objects, gen, reservations, workloads, seen, observed, faults>>

\* EnsureConsensusKeyReservationOwnerFinalizer, its uncached read: the exact
\* UID must exist and not be terminating.
Prepare(n) ==
    /\ pc[n] = "prepare"
    /\ \E o \in seen[n] :
         \/ \E fresh \in objects :
              /\ fresh.uid = o.uid /\ ~fresh.deleting
              /\ seen' = [seen EXCEPT ![n] = {fresh}]
              /\ Goto(n, IF "reservation" \in fresh.fin THEN "record" ELSE "protect")
         \/ /\ \A fresh \in objects : fresh.uid = o.uid => fresh.deleting
            /\ Goto(n, "idle")
            /\ UNCHANGED seen
    /\ UNCHANGED <<objects, gen, reservations, workloads, observed, faults>>

\* Its merge patch names the object, not the UID, so it may land on a
\* successor; the read that confirms it compares the UID.
Protect(n) ==
    /\ pc[n] = "protect"
    /\ \E o \in seen[n] :
         \/ \E fresh \in objects :
              LET patched == [fresh EXCEPT !.fin = @ \cup {"reservation"}]
              IN  /\ NameOf(fresh.uid) = n /\ ~fresh.deleting
                  /\ Replace(fresh, patched)
                  /\ IF fresh.uid = o.uid
                     THEN seen' = [seen EXCEPT ![n] = {patched}] /\ Goto(n, "record")
                     ELSE UNCHANGED seen /\ Goto(n, "idle")
         \/ /\ \A fresh \in objects : NameOf(fresh.uid) = n => fresh.deleting
            /\ Goto(n, "idle")
            /\ UNCHANGED <<objects, seen>>
    /\ UNCHANGED <<gen, reservations, workloads, observed, faults>>

\* A status update to public key {o.key}, from the copy o.
RecordKey(n, o, next) ==
    LET new == [o EXCEPT !.pubkey = {o.key}]
    IN  IF Unchanged(o)
        THEN Replace(o, new) /\ seen' = [seen EXCEPT ![n] = {new}] /\ Goto(n, next)
        ELSE UNCHANGED <<objects, seen>> /\ Goto(n, "idle")

\* ensureSigningKey records the key of a node that initialises its chain or
\* creates its validator before it is reserved; other nodes skip it.
Record(n) ==
    /\ pc[n] = "record"
    /\ \E o \in seen[n] :
         \/ o.pubkey = {} /\ RecordKey(n, o, "get")
         \/ Goto(n, "get") /\ UNCHANGED <<objects, seen>>
    /\ UNCHANGED <<gen, reservations, workloads, observed, faults>>

\* A recorded key that differs from the one the Secret holds.
KeyMismatch(o) == o.pubkey # {} /\ o.key \notin o.pubkey

\* The top of EnsureConsensusKeyReservation's loop, with the verdict of
\* recoverStaleConsensusKeyReservation on a reservation held by another UID.
GetReservation(n) ==
    /\ pc[n] = "get"
    /\ \E o \in seen[n] :
         \/ KeyMismatch(o) /\ Goto(n, "quiesce") /\ UNCHANGED observed
         \/ /\ ~KeyMismatch(o)
            /\ \A r \in reservations : r.key # o.key
            /\ Goto(n, "check") /\ UNCHANGED observed
         \/ /\ ~KeyMismatch(o)
            /\ \E r \in reservations :
                 /\ r.key = o.key
                 /\ IF r.owner = o.uid
                    THEN Goto(n, "confirm") /\ UNCHANGED observed
                    ELSE IF /\ NameOf(r.owner) = n
                            /\ Stale(r.owner)
                            /\ StalePathsGone(r.owner, o.uid)
                            /\ ~ConflictingClaim(o)
                            /\ ~LegacyOwner(o)
                         THEN /\ Goto(n, "recover")
                              /\ observed' = [observed EXCEPT ![n] = {r.owner}]
                         ELSE Goto(n, "quiesce") /\ UNCHANGED observed
    /\ UNCHANGED <<objects, gen, reservations, workloads, seen, faults>>

\* The stale reservation is deleted with its own UID as a precondition.  Its
\* owner's UID identifies it: a root reserves a key once in its life.
Recover(n) ==
    /\ pc[n] = "recover"
    /\ \E o \in seen[n], uid \in observed[n] :
         LET held == {r \in reservations : r.key = o.key}
         IN  IF \A r \in held : r.owner = uid
             THEN reservations' = reservations \ held /\ Goto(n, "get")
             ELSE UNCHANGED reservations /\ Goto(n, "idle")
    /\ observed' = [observed EXCEPT ![n] = {}]
    /\ UNCHANGED <<objects, gen, workloads, seen, faults>>

\* The conflict scans before the reservation is created ...
Check(n) ==
    /\ pc[n] = "check"
    /\ \E o \in seen[n] :
         Goto(n, IF ConflictingClaim(o) \/ LegacyOwner(o) THEN "quiesce" ELSE "create")
    /\ UNCHANGED <<objects, gen, reservations, workloads, seen, observed, faults>>

\* Faulty variant: an existing reservation of the name is not noticed.
CreateBlindly(n) ==
    /\ pc[n] = "create"
    /\ \E o \in seen[n] :
         reservations' = reservations \cup {[key |-> o.key, owner |-> o.uid]}
    /\ Goto(n, "confirm")
    /\ UNCHANGED <<objects, gen, workloads, seen, observed, faults>>

\* ... the Create, which the API server refuses when the name exists ...
CreateReservation(n) ==
    /\ pc[n] = "create"
    /\ \E o \in seen[n] :
         IF \A r \in reservations : r.key # o.key
         THEN /\ reservations' = reservations \cup {[key |-> o.key, owner |-> o.uid]}
              /\ Goto(n, "confirm")
         ELSE UNCHANGED reservations /\ Goto(n, "get")
    /\ UNCHANGED <<objects, gen, workloads, seen, observed, faults>>

\* ... and the same scans once more, when the reservation is held.
Confirm(n) ==
    /\ pc[n] = "confirm"
    /\ \E o \in seen[n] :
         Goto(n, IF ConflictingClaim(o) \/ LegacyOwner(o) THEN "quiesce" ELSE "deploy")
    /\ UNCHANGED <<objects, gen, reservations, workloads, seen, observed, faults>>

\* A conflict stops the signing paths this UID owns and ends the pass.  It looks
\* them up in the informer cache, which may not show yet a path that the previous
\* pass created: that one is left running, and the pass ends all the same.
Quiesce(n) ==
    /\ pc[n] = "quiesce"
    /\ \/ \E o \in seen[n] : workloads' = Terminate(WorkloadsOf(o.uid))
       \/ UNCHANGED workloads
    /\ Goto(n, "idle")
    /\ UNCHANGED <<objects, gen, reservations, seen, observed, faults>>

\* ensurePod and ApplyOwned.  A pod of the same name that belongs to another
\* UID is kept when its spec is current, and otherwise replaced; a StatefulSet
\* of another UID is refused.  Either way a terminating path is waited for.
Deploy(n) ==
    /\ pc[n] = "deploy"
    /\ \E o \in seen[n] :
         LET there == {w \in WorkloadsAt(n) : w.kind = o.kind}
         IN  \/ /\ there = {}
                /\ workloads' = workloads \cup
                     {[owner |-> o.uid, kind |-> o.kind, key |-> o.key, terminating |-> FALSE]}
                /\ Goto(n, "publish")
             \/ /\ \E w \in there : ~w.terminating
                /\ o.kind = "pod" \/ \A w \in there : w.owner = o.uid
                /\ Goto(n, "publish") /\ UNCHANGED workloads
             \/ /\ \E w \in there : ~w.terminating
                /\ o.kind = "pod"
                /\ workloads' = Terminate(there) /\ UNCHANGED pc
             \/ /\ o.kind = "signer" /\ \E w \in there : w.owner # o.uid
                /\ Goto(n, "idle") /\ UNCHANGED workloads
    /\ UNCHANGED <<objects, gen, reservations, seen, observed, faults>>

\* updateValidatorStatus and recordCosmosignerAppliedState record the key that
\* signs, once the chain knows the validator or the signer rolled out.
Publish(n) ==
    /\ pc[n] = "publish"
    /\ \E o \in seen[n] :
         \/ RecordKey(n, o, "idle")
         \/ Goto(n, "idle") /\ UNCHANGED <<objects, seen>>
    /\ UNCHANGED <<gen, reservations, workloads, observed, faults>>

----------------------------------------------------------------------------
(* The reconcile of a terminating root.  finalizeConsensusKeyReservation-   *)
(* Owner runs before finalizeResources when the copy has no reservation     *)
(* finalizer, and after it in any case.                                     *)

\* Faulty variant: reservations are attributed by name, not by UID.
HasReservationsByName(uid) == \E r \in reservations : NameOf(r.owner) = NameOf(uid)

HasReservations(uid) == \E r \in reservations : r.owner = uid

\* Faulty variant: deletion is requested, but not waited for.
SigningPathsUnconfirmed(n, step, release, done) ==
    /\ pc[n] = step
    /\ \E o \in seen[n] : workloads' = Terminate(WorkloadsOf(o.uid))
    /\ Goto(n, release)
    /\ UNCHANGED <<objects, gen, reservations, seen, observed, faults>>

\* FinalizeConsensusKeySigningPaths and finalizeOwnedSigningPods: delete what
\* the UID owns, refuse what it does not, and go on when nothing is left.
SigningPaths(n, step, release, done) ==
    /\ pc[n] = step
    /\ \E o \in seen[n] :
         IF "reservation" \notin o.fin /\ ~HasReservations(o.uid)
         THEN Goto(n, done) /\ UNCHANGED workloads
         ELSE /\ workloads' = Terminate(WorkloadsOf(o.uid))
              /\ Goto(n, IF WorkloadsAt(n) = {} THEN release ELSE "idle")
    /\ UNCHANGED <<objects, gen, reservations, seen, observed, faults>>

\* ReleaseConsensusKeyReservations: one guarded delete for each reservation of
\* the UID, then a list that confirms that none is left.
Release(n, step, next) ==
    /\ pc[n] = step
    /\ \E o \in seen[n] :
         \/ \E r \in reservations :
              r.owner = o.uid /\ reservations' = reservations \ {r} /\ UNCHANGED pc
         \/ ~HasReservations(o.uid) /\ Goto(n, next) /\ UNCHANGED reservations
    /\ UNCHANGED <<objects, gen, workloads, seen, observed, faults>>

\* removeConsensusKeyReservationFinalizer, on the exact UID read afresh.
Unfinalize(n, step, next) ==
    /\ pc[n] = step
    /\ \E o \in seen[n] :
         \/ \E fresh \in objects :
              /\ NameOf(fresh.uid) = n
              /\ IF fresh.uid = o.uid
                 THEN RemoveFinalizer(fresh, "reservation") /\ Goto(n, next)
                 ELSE UNCHANGED objects /\ Goto(n, "idle")
         \/ (\A p \in objects : NameOf(p.uid) # n) /\ Goto(n, next) /\ UNCHANGED objects
    /\ UNCHANGED <<gen, reservations, workloads, seen, observed, faults>>

\* finalizeResources stops the signing paths too, but lists them from the
\* informer cache, which may not show yet a path this controller created, and
\* so reserved.  A path of an older release is always in it.
Resources(n) ==
    /\ pc[n] = "resources"
    /\ \E o \in seen[n] :
         \/ workloads' = Terminate(WorkloadsOf(o.uid)) /\ WorkloadsAt(n) # {} /\ Goto(n, "idle")
         \/ /\ \A w \in WorkloadsAt(n) : IsReserved(w)
            /\ Goto(n, "dropCleanup") /\ UNCHANGED workloads
    /\ UNCHANGED <<objects, gen, reservations, seen, observed, faults>>

\* The Update that removes the cleanup finalizer; skipped when it is gone.
DropCleanup(n) ==
    /\ pc[n] = "dropCleanup"
    /\ \E o \in seen[n] :
         \/ /\ "cleanup" \in o.fin /\ Unchanged(o)
            /\ RemoveFinalizer(o, "cleanup")
            /\ seen' = [seen EXCEPT ![n] = {[o EXCEPT !.fin = @ \ {"cleanup"}]}]
            /\ Goto(n, "paths")
         \/ "cleanup" \in o.fin /\ ~Unchanged(o) /\ Goto(n, "idle") /\ UNCHANGED <<objects, seen>>
         \/ "cleanup" \notin o.fin /\ Goto(n, "paths") /\ UNCHANGED <<objects, seen>>
    /\ UNCHANGED <<gen, reservations, workloads, observed, faults>>

Finalize(n) ==
    \/ SigningPaths(n, "earlyPaths", "earlyRelease", "resources")
    \/ Release(n, "earlyRelease", "earlyUnfinalize")
    \/ Unfinalize(n, "earlyUnfinalize", "resources")
    \/ Resources(n)
    \/ DropCleanup(n)
    \/ SigningPaths(n, "paths", "release", "idle")
    \/ Release(n, "release", "unfinalize")
    \/ Unfinalize(n, "unfinalize", "idle")

----------------------------------------------------------------------------
(* The environment: users, Kubernetes and failures *)

\* A user creates a root, again after an earlier one of the name is gone.
CreateRoot(n) ==
    /\ \A o \in objects : NameOf(o.uid) # n
    /\ gen[n] < MaxGen
    /\ \E k \in Keys, m \in Kinds :
         objects' = objects \cup
           {[uid |-> <<n, gen[n] + 1>>, deleting |-> FALSE, fin |-> {},
             key |-> k, kind |-> m, pubkey |-> {}]}
    /\ gen' = [gen EXCEPT ![n] = @ + 1]
    /\ UNCHANGED <<reservations, workloads, pc, seen, observed, faults>>

\* A user deletes a root: it is removed at once when nothing protects it.
DeleteRoot(n) ==
    /\ \E o \in objects :
         /\ NameOf(o.uid) = n /\ ~o.deleting
         /\ objects' = (objects \ {o}) \cup
              (IF o.fin = {} THEN {} ELSE {[o EXCEPT !.deleting = TRUE]})
    /\ UNCHANGED <<gen, reservations, workloads, pc, seen, observed, faults>>

\* A user replaces the key in the Secret the root names.
ReplaceKey(n) ==
    /\ faults < MaxFaults
    /\ \E o \in objects, k \in Keys :
         NameOf(o.uid) = n /\ k # o.key /\ Replace(o, [o EXCEPT !.key = k])
    /\ faults' = faults + 1
    /\ UNCHANGED <<gen, reservations, workloads, pc, seen, observed>>

\* A user strips the finalizers and deletes the root.  The root of an older
\* release that never took its reservation is left out: no record would name
\* its orphaned signing paths.
ForceDelete(n) ==
    /\ faults < MaxFaults
    /\ \E o \in objects :
         /\ NameOf(o.uid) = n
         /\ \A w \in WorkloadsOf(o.uid) : IsReserved(w)
         /\ objects' = objects \ {o}
    /\ faults' = faults + 1
    /\ UNCHANGED <<gen, reservations, workloads, pc, seen, observed>>

\* The garbage collector deletes what a removed owner left behind.
GarbageCollect ==
    /\ \E w \in workloads :
         Stale(w.owner) /\ ~w.terminating /\ workloads' = Terminate({w})
    /\ UNCHANGED <<objects, gen, reservations, pc, seen, observed, faults>>

\* A terminating path has stopped: its pods are gone.
PathGone ==
    /\ \E w \in workloads : w.terminating /\ workloads' = workloads \ {w}
    /\ UNCHANGED <<objects, gen, reservations, pc, seen, observed, faults>>

\* The manager crashes, loses its lease, or a call of the reconcile fails: the
\* pass ends where it stands and the next one starts from the beginning.
Crash(n) ==
    /\ pc[n] # "idle"
    /\ faults < MaxFaults
    /\ faults' = faults + 1
    /\ Goto(n, "idle")
    /\ observed' = [observed EXCEPT ![n] = {}]
    /\ UNCHANGED <<objects, gen, reservations, workloads, seen>>

----------------------------------------------------------------------------

Step(n) ==
    \/ Adopt(n) \/ Prepare(n) \/ Protect(n) \/ Record(n)
    \/ GetReservation(n) \/ Recover(n) \/ Check(n) \/ CreateReservation(n)
    \/ Confirm(n) \/ Quiesce(n) \/ Deploy(n) \/ Publish(n)
    \/ Finalize(n)

User(n) == CreateRoot(n) \/ DeleteRoot(n) \/ ReplaceKey(n) \/ ForceDelete(n)

Next ==
    \/ \E n \in Roots : Reconcile(n) \/ Step(n) \/ User(n) \/ Crash(n)
    \/ GarbageCollect
    \/ PathGone

Spec == Init /\ [][Next]_vars

\* A reconcile that reads the current object: the informer cache catches up.
FreshReconcile(n) == Reconcile(n) /\ seen'[n] \subseteq objects

\* The work queue retries until the object is converged, the API server
\* answers, kubelets stop what is terminating and the collector runs.
Fairness ==
    /\ \A n \in Roots : WF_vars(Step(n)) /\ SF_vars(FreshReconcile(n))
    /\ WF_vars(GarbageCollect)
    /\ WF_vars(PathGone)

FairSpec == Spec /\ Fairness

----------------------------------------------------------------------------
(* Properties *)

\* The API server keeps names unique: of roots, of reservations (named after
\* the key) and of workloads (named after the root and the kind).
NamesUnique ==
    /\ \A o, p \in objects : NameOf(o.uid) = NameOf(p.uid) => o = p
    /\ \A r, s \in reservations : r.key = s.key => r = s
    /\ \A v, w \in workloads :
         NameOf(v.owner) = NameOf(w.owner) /\ v.kind = w.kind => v = w

\* Every variable has its type, names are unique, and a reconcile holds at
\* most one copy, of a root of its name.
TypeOK ==
    /\ objects \subseteq Object
    /\ gen \in [Roots -> 0..MaxGen]
    /\ reservations \subseteq Reservation
    /\ workloads \subseteq Workload
    /\ pc \in [Roots -> Steps]
    /\ seen \in [Roots -> SUBSET Object]
    /\ observed \in [Roots -> SUBSET Uids]
    /\ faults \in 0..MaxFaults
    /\ NamesUnique
    /\ \A n \in Roots : \A o, p \in seen[n] : o = p /\ NameOf(o.uid) = n

\* No two controller roots run signing paths for one consensus key, however
\* deletions, re-creations, crashes, stale caches and forced deletions fall
\* between the calls of their reconciles: the reservation "atomically prevents
\* independent roots or claims from managing separate double-sign state".
MutualExclusion ==
    \A v, w \in workloads : v.key = w.key => v.owner = w.owner

\* One claim never reserves two keys, although the key may be replaced between
\* and during reconciles (ensureNoConflictingReservationClaim).
OneKeyPerClaim ==
    \A r, s \in reservations : r.owner = s.owner => r = s

\* A reservation is only ever deleted, by its owner or by recovery, when no
\* signing path of its owner is left.
ReleaseAfterTeardown ==
    [][\A r \in reservations \ reservations' : WorkloadsOf(r.owner) = {}]_vars

\* A reservation is created only for a root that carries the reservation
\* finalizer, unless that root was force-deleted since.
ReservationIsProtected ==
    [][\A r \in reservations' \ reservations :
         \A o \in objects : o.uid = r.owner => "reservation" \in o.fin]_vars

\* The roots that run a signing path for each key.
Signers == [k \in Keys |-> {w.owner : w \in {v \in workloads : v.key = k}}]

Abstract == INSTANCE OneSigner WITH Owners <- Uids, signers <- Signers

\* To a chain the cluster behaves as one signer per key that hands over only
\* after it stopped: a successor, a rival or a recovered claim never starts to
\* sign in the step, or before the step, in which its predecessor ends.
ImplementsOneSigner == Abstract!Spec

\* The root signs, or is not to: it is deleted, or the Secret no longer holds the
\* key recorded or reserved for it.
SignsIfItMay(o) ==
    \/ \E w \in WorkloadsOf(o.uid) : ~w.terminating
    \/ o.deleting \/ KeyMismatch(o) \/ ConflictingClaim(o)

NoneBeingDeleted == \A o \in objects : ~o.deleting
AllSign == \A o \in objects : SignsIfItMay(o)

\* Deleting a root completes: its paths stop, its reservations are released and
\* the object goes away.
DeletionCompletes == []<>NoneBeingDeleted

\* A root that nobody competes with comes to sign, also when it replaces a
\* force-deleted root: the stale reservation is recovered once the old signing
\* paths are gone.  (Stated for instances with one root.)
ReplacementSigns == []<>AllSign

----------------------------------------------------------------------------
(* The inductive invariant behind MutualExclusion *)

\* UIDs in use belong to generations already created.
GenerationsCreated ==
    /\ \A o \in objects : o.uid[2] <= gen[NameOf(o.uid)]
    /\ \A n \in Roots : \A o \in seen[n] : o.uid[2] <= gen[n]

\* A key that is signed with is not reserved by anyone else.
NoForeignReservation ==
    \A w \in workloads : \A r \in reservations : r.key = w.key => r.owner = w.owner

\* A signing path without a reservation is an older release's: its root is
\* there, records the key and is protected by the cleanup finalizer.
UnreservedIsLegacy ==
    \A w \in workloads : ~IsReserved(w) =>
      \E o \in objects : o.uid = w.owner /\ w.key \in o.pubkey /\ "cleanup" \in o.fin

\* What a reconcile of n, working from copy o, has established so far.
Established(n, o) ==
    /\ pc[n] \in {"recover", "check", "create", "confirm", "deploy", "publish"} =>
         ~KeyMismatch(o)
    /\ pc[n] \in {"record", "get", "recover", "check", "create"} =>
         \A p \in objects : p.uid = o.uid => "reservation" \in p.fin
    /\ pc[n] = "recover" => \A uid \in observed[n] :
         NameOf(uid) = n /\ uid # o.uid /\ WorkloadsOf(uid) = {}
    /\ pc[n] = "create" =>
         /\ ~ConflictingClaim(o)
         /\ \A w \in workloads : w.key = o.key => w.owner = o.uid \/ IsReserved(w)
    /\ pc[n] \in {"confirm", "deploy", "publish"} =>
         \E r \in reservations : r.key = o.key /\ r.owner = o.uid
    /\ pc[n] \in {"earlyRelease", "earlyUnfinalize", "release", "unfinalize"} =>
         WorkloadsOf(o.uid) = {}
    /\ pc[n] = "dropCleanup" => \A w \in WorkloadsOf(o.uid) : IsReserved(w)

IInv ==
    /\ TypeOK
    /\ GenerationsCreated
    /\ MutualExclusion
    /\ OneKeyPerClaim
    /\ NoForeignReservation
    /\ UnreservedIsLegacy
    /\ \A n \in Roots : \A o \in seen[n] : Established(n, o)

============================================================================
