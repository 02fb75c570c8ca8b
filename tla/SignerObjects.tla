--------------------------- MODULE SignerObjects ---------------------------
(***************************************************************************)
(* The Kubernetes objects of one managed signer (cosmosigner) and the      *)
(* library calls that the ChainNode and ChainNodeSet controllers make on   *)
(* them.                                                                   *)
(*                                                                         *)
(* The objects are a record k:                                             *)
(*   sts    - the StatefulSet, None when there is none:                    *)
(*              conf    what its pod template pins (backend, key, version) *)
(*              shape   replicas and volume claim template                 *)
(*              up      spec.replicas is not zero                          *)
(*              latched the annotation that its retained state was lost    *)
(*              ever    the annotation that it was once rolled out         *)
(*              keep    the claims survive the StatefulSet's deletion      *)
(*              guarded its claim template carries the state finalizer     *)
(*              seen    status.observedGeneration is the generation        *)
(*   pods   - the pod of each ordinal, None when there is none             *)
(*   claims - the raft-state claim of each ordinal, None when there is     *)
(*            none; history is the set of keys whose signatures its        *)
(*            slash-protection state covers                                *)
(*   cm     - what the ConfigMap holds, None when there is none            *)
(*   taken  - another owner's object holds one of the signer's names       *)
(*                                                                         *)
(* A call is an operator from k to [ok, k]: what it returned and what it   *)
(* left behind.  Kubernetes' own steps are at the end of the module.       *)
(***************************************************************************)
EXTENDS Naturals, FiniteSets

CONSTANTS None,     \* no object, no value
          Ordinals  \* the replicas of the signer

Result(k, ok) == [k |-> k, ok |-> ok]

NoPods == [o \in Ordinals |-> None]

NoObjects == [sts |-> None, pods |-> NoPods, claims |-> [o \in Ordinals |-> None],
              cm |-> None, taken |-> FALSE]

SignerPodsGone(k) == \A o \in Ordinals : k.pods[o] = None

Owned(claim) == claim # None /\ claim.owner = "mine"

Unlabelled(claim) == claim # None /\ claim.owner = "unlabelled"

OwnedPVCsGone(k) == \A o \in Ordinals : ~Owned(k.claims[o])

NoForeignDataPVCs(k) == \A o \in Ordinals : k.claims[o] # None => Owned(k.claims[o])

\* A claim the StatefulSet of this owner could bind although nobody can tell
\* which raft membership formed it.
OrphanedClaim(k) == \E o \in Ordinals : Owned(k.claims[o]) \/ Unlabelled(k.claims[o])

----------------------------------------------------------------------------
(* apply.go *)

Ready(k, o) == k.pods[o] # None /\ k.pods[o].st = "ready"

IsRolledOut(k) ==
    /\ k.sts # None
    /\ k.sts.seen
    /\ \A o \in Ordinals : Ready(k, o) /\ k.pods[o].conf = k.sts.conf

\* What the pod template pins: the backend, the key it must serve, the version.
LifecycleConfig(dest, key, ver) == [dest |-> dest, key |-> key, ver |-> ver]

EverRolledOut(k) == k.sts.ever \/ (k.sts.up /\ IsRolledOut(k))

\* The API server bumps the generation with every change of the spec.
Changed(k, sts) == [k EXCEPT !.sts = [sts EXCEPT !.seen = FALSE]]

\* A missing StatefulSet may still have pods; a scaled one is quiesced when its
\* controller observed it and no pod, terminating ones included, is left.
ScaleDown(k) ==
    CASE k.sts = None -> Result(k, SignerPodsGone(k))
      [] k.sts # None /\ k.sts.up -> Result(Changed(k, [k.sts EXCEPT !.up = FALSE]), FALSE)
      [] OTHER -> Result(k, k.sts.seen /\ SignerPodsGone(k))

RetainStatefulSetPVCs(k) ==
    CASE k.sts = None -> Result(k, TRUE)
      [] k.sts # None /\ ~k.sts.keep -> Result(Changed(k, [k.sts EXCEPT !.keep = TRUE]), FALSE)
      [] OTHER -> Result(k, k.sts.seen)

\* Without retention the claims follow the StatefulSet: they are marked, and go
\* when no finalizer and no pod holds them.
WithoutSts(k) ==
    [k EXCEPT !.sts = None,
              !.claims = [o \in Ordinals |->
                  IF k.claims[o] = None \/ k.sts.keep THEN k.claims[o]
                                                      ELSE [k.claims[o] EXCEPT !.going = TRUE]]]

\* Retain, then scale to zero, then delete: each is observed before the next.
DeleteStatefulSet(k) ==
    LET retained == RetainStatefulSetPVCs(k)
        scaled   == ScaleDown(retained.k)
    IN  CASE ~retained.ok -> retained
          [] retained.ok /\ ~scaled.ok -> scaled
          [] OTHER -> Result(IF scaled.k.sts = None THEN scaled.k ELSE WithoutSts(scaled.k), TRUE)

\* Latch an unsafe signer at zero replicas.
QuiesceUnsafeRetainedState(k) ==
    IF k.sts = None \/ (k.sts.latched /\ ~k.sts.up) THEN k
    ELSE Changed(k, [k.sts EXCEPT !.latched = TRUE, !.up = FALSE])

EnsureRetainedDataPVCs(k) ==
    \A o \in Ordinals : Owned(k.claims[o]) /\ ~k.claims[o].going /\ k.claims[o].guard

ReplicaPodNamesAvailable(k) == k.sts = None => SignerPodsGone(k)

\* The deploy-time blockers, checked before anything is recorded or imported.
PreflightDeployable(k, required) ==
    LET need == CASE k.sts = None -> required
                  [] k.sts # None /\ k.sts.latched -> FALSE
                  [] OTHER -> required \/ EverRolledOut(k)
    IN  CASE k.taken \/ ~ReplicaPodNamesAvailable(k) -> Result(k, FALSE)
          [] ~k.taken /\ ReplicaPodNamesAvailable(k)
             /\ (~NoForeignDataPVCs(k) \/ (need /\ ~EnsureRetainedDataPVCs(k))) ->
                Result(QuiesceUnsafeRetainedState(k), FALSE)
          [] OTHER -> Result(k, TRUE)

StatefulSetPVCsForApply(k, required) ==
    /\ k.sts # None => ~k.sts.latched /\ (k.sts.up \/ k.sts.guarded)
    /\ NoForeignDataPVCs(k)
    /\ (required \/ (k.sts # None /\ EverRolledOut(k))) => EnsureRetainedDataPVCs(k)

NewStatefulSet(conf, shape) ==
    [conf |-> conf, shape |-> shape, up |-> TRUE, latched |-> FALSE, ever |-> FALSE,
     keep |-> FALSE, guarded |-> TRUE, seen |-> FALSE]

\* Create the StatefulSet, or update its template and replicas; its claim
\* template and the rollout mark of the live one are kept.
ApplyStatefulSet(k, conf, shape, required) ==
    CASE k.taken -> Result(k, FALSE)
      [] ~k.taken /\ ~StatefulSetPVCsForApply(k, required) ->
            Result(QuiesceUnsafeRetainedState(k), FALSE)
      [] ~k.taken /\ StatefulSetPVCsForApply(k, required) /\ k.sts = None ->
            Result([k EXCEPT !.sts = NewStatefulSet(conf, shape)], TRUE)
      [] OTHER ->
            LET desired == [k.sts EXCEPT !.conf = conf, !.up = TRUE, !.keep = FALSE]
            IN  Result(IF desired = k.sts THEN k ELSE Changed(k, desired), TRUE)

MarkEverRolledOut(k) ==
    IF IsRolledOut(k) THEN Result([k EXCEPT !.sts.ever = TRUE], TRUE) ELSE Result(k, FALSE)

OnOwnedClaims(k, Change(_)) ==
    [k EXCEPT !.claims = [o \in Ordinals |->
        IF Owned(k.claims[o]) THEN Change(k.claims[o]) ELSE k.claims[o]]]

Release(claim) == [claim EXCEPT !.guard = FALSE]

Discard(claim) == [claim EXCEPT !.guard = FALSE, !.going = TRUE]

DeletePVCs(k) == OnOwnedClaims(k, Discard)

\* A variant that deletes the claims without waiting for the pods.
UndeployAtOnce(k) == DeletePVCs([k EXCEPT !.cm = None, !.sts = None])

Undeploy(k) ==
    LET deleted == IF k.sts = None THEN Result(k, SignerPodsGone(k)) ELSE DeleteStatefulSet(k)
    IN  IF deleted.ok THEN DeletePVCs([deleted.k EXCEPT !.cm = None]) ELSE deleted.k

IsTornDown(k) == k.sts = None /\ SignerPodsGone(k) /\ ~OrphanedClaim(k)

----------------------------------------------------------------------------
(* migration.go, lock.go, recovery.go *)

\* Whether the claims must still be there: always once the signer was
\* established, except while a migration to another key resets them.
RetainedStateRequired(established, mig) ==
    CASE mig = None -> established
      [] mig # None /\ ~mig.reset -> TRUE
      [] OTHER -> mig.phase \in {"quiescing", "deleting"}

\* The StatefulSet is not applied in the middle of a migration.
ApplyAllowed(mig) == mig # None => mig.phase = "rollingOut"

Phases == {"quiescing", "deleting", "resettingState", "recreating", "rollingOut"}

\* One persisted phase of a break-before-make migration: the next phase, and
\* the objects.  The last phase before the rollout is left when it is ready.
MigrationStep(k, mig) ==
    CASE mig.phase = "quiescing" ->
            LET retained == RetainStatefulSetPVCs(k)
                scaled   == ScaleDown(retained.k)
            IN  CASE ~retained.ok -> [k |-> retained.k, next |-> "quiescing"]
                  [] retained.ok /\ ~scaled.ok -> [k |-> scaled.k, next |-> "quiescing"]
                  [] OTHER -> [k |-> scaled.k, next |-> "deleting"]
      [] mig.phase = "deleting" ->
            LET deleted == DeleteStatefulSet(k)
            IN  [k |-> deleted.k, next |-> IF deleted.ok THEN "resettingState" ELSE "deleting"]
      [] mig.phase = "resettingState" ->
            LET reset == IF mig.reset THEN DeletePVCs(k) ELSE k
            IN  [k |-> reset, next |-> IF mig.reset /\ ~OwnedPVCsGone(reset)
                                       THEN "resettingState" ELSE "recreating"]
      [] mig.phase = "recreating" ->
            LET deleted == DeleteStatefulSet(k)
            IN  [k |-> deleted.k, next |-> IF deleted.ok THEN "rollingOut" ELSE "recreating"]

\* A variant that forgets the first rollout.
LockOfLiveSigner(k, shape) == IF k.sts = None \/ ~k.sts.up THEN None ELSE k.sts.shape

\* The lock to record when status has none: the live StatefulSet's shape, the
\* requested one on a first rollout, None when neither can be told.
ReadSignerLock(k, shape) ==
    CASE k.sts # None -> IF k.sts.up THEN k.sts.shape ELSE None
      [] k.sts = None /\ OrphanedClaim(k) -> None
      [] OTHER -> shape

\* The key a live signer pins: [live, ok, key].  The ConfigMap must be the one
\* the template was rendered from, and its backend the desired one.
RecoveredSigningPublicKey(k, dest, ver) ==
    CASE k.sts = None -> [live |-> FALSE, ok |-> ~OrphanedClaim(k), key |-> None]
      [] OTHER ->
            [live |-> TRUE,
             ok   |-> k.cm = k.sts.conf /\ k.cm.dest = dest /\ k.cm.ver = ver,
             key  |-> k.sts.conf.key]

----------------------------------------------------------------------------
(* cleanup.go *)

\* Guard the live claims, and retire a StatefulSet whose claim template would
\* create unguarded ones.  ok says that nothing had to change.
Guard(claim) == IF claim.going THEN claim ELSE [claim EXCEPT !.guard = TRUE]

ProtectRetainedStatePVCs(k) ==
    LET guarded == OnOwnedClaims(k, Guard)
    IN  IF k.sts # None /\ ~k.sts.guarded
        THEN Result(DeleteStatefulSet(guarded).k, FALSE)
        ELSE Result(guarded, guarded = k)

QuiesceOwner(k) == IF k.sts = None THEN Result(k, TRUE) ELSE DeleteStatefulSet(k)

\* The state is kept, released from the guard, or deleted, by the policy.  A
\* claim whose guard was just released is deleted by the next pass.
ReleaseThenDiscard(claim) == IF claim.guard THEN Release(claim) ELSE Discard(claim)

FinalizeState(k, policy) ==
    CASE ~SignerPodsGone(k) -> Result(k, FALSE)
      [] SignerPodsGone(k) /\ policy = "Retain" -> Result(OnOwnedClaims(k, Release), TRUE)
      [] OTHER -> Result(OnOwnedClaims(k, ReleaseThenDiscard), OwnedPVCsGone(k))

FinalizeOwner(k, policy) ==
    LET quiesced == QuiesceOwner(k)
    IN  IF quiesced.ok THEN FinalizeState(quiesced.k, policy) ELSE quiesced

\* A namespace that is being deleted takes the claims anyway: the pods are
\* deleted directly, and the StatefulSet only when they are gone.
QuiesceOwnerForNamespaceTermination(k) ==
    CASE ~SignerPodsGone(k) ->
            Result([k EXCEPT !.pods = [o \in Ordinals |->
                IF k.pods[o] = None THEN None ELSE [k.pods[o] EXCEPT !.st = "going"]]], FALSE)
      [] OTHER -> Result([k EXCEPT !.sts = None], TRUE)

ReleaseOwnerStateFinalizers(k) == OnOwnedClaims(k, Release)

----------------------------------------------------------------------------
(* Kubernetes: the StatefulSet controller and the kubelet *)

ObserveSts(k) ==
    IF k.sts # None /\ ~k.sts.seen THEN {[k EXCEPT !.sts.seen = TRUE]} ELSE {}

\* A pod is started with the template's configuration, on the claim of its
\* ordinal, which is created from the claim template when there is none.
StartPods(k) ==
    {[k EXCEPT !.pods[o] = [conf |-> k.sts.conf, st |-> "starting"],
               !.claims[o] = IF k.claims[o] = None
                             THEN [owner |-> "mine", guard |-> k.sts.guarded, going |-> FALSE,
                                   history |-> {}, shape |-> k.sts.shape]
                             ELSE k.claims[o]] :
        o \in {o \in Ordinals :
                 /\ k.sts # None /\ k.sts.up /\ k.sts.seen /\ k.pods[o] = None
                 /\ k.claims[o] # None => ~k.claims[o].going}}

\* A signer serves only the key it expects, when its backend has that key.
ServePods(k, Serves(_)) ==
    {[k EXCEPT !.pods[o].st = "ready",
               !.claims[o].history = @ \cup {k.pods[o].conf.key}] :
        o \in {o \in Ordinals : k.pods[o] # None /\ k.pods[o].st = "starting"
                                 /\ Serves(k.pods[o].conf)}}

StopPods(k) ==
    {[k EXCEPT !.pods[o].st = "going"] :
        o \in {o \in Ordinals :
                 /\ k.pods[o] # None /\ k.pods[o].st # "going"
                 /\ k.sts = None \/ (~k.sts.up /\ k.sts.seen)}}

RemovePods(k) ==
    {[k EXCEPT !.pods[o] = None] :
        o \in {o \in Ordinals : k.pods[o] # None /\ k.pods[o].st = "going"}}

RemoveClaims(k) ==
    {[k EXCEPT !.claims[o] = None] :
        o \in {o \in Ordinals : /\ k.claims[o] # None /\ k.claims[o].going /\ ~k.claims[o].guard
                                 /\ k.pods[o] = None}}

KubeSteps(k, Serves(_)) ==
    ObserveSts(k) \cup StartPods(k) \cup ServePods(k, Serves) \cup StopPods(k) \cup RemovePods(k)
    \cup RemoveClaims(k)

=============================================================================
