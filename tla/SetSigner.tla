------------------------------ MODULE SetSigner ------------------------------
(***************************************************************************)
(* The managed signers of a ChainNodeSet: the top-level one, which serves  *)
(* any groups, and a group's own.  A signer signs for the pods that carry  *)
(* its target label, so a change of backend, key or targets must stop the  *)
(* signer, move the labels, and only then start it again; a signer that    *)
(* moves in the manifest takes its objects along; a removed one is torn    *)
(* down before its nodes get another signing path.                         *)
(*                                                                         *)
(* A reconcile is a sequence of steps (pc) over the spec it read at its    *)
(* start (loc.spec); between two of them the user may edit the spec,       *)
(* Kubernetes and the ChainNode controller act, and the pass may die.      *)
(*                                                                         *)
(* Abstractions: every signer has one replica and one shape (Signer models *)
(* the locks), an import is one step and always into Vault (Signer models  *)
(* its pod and imports into Google Cloud KMS), and a rollout token is      *)
(* whether a node carries the current one.  A group has one node: the      *)
(* order in which the further instances of a group become targets of its   *)
(* signer (cosmosignerSecondariesDiscoverable) is left out.  The chain ID  *)
(* is known, so no validator initialises a genesis and none is waited for. *)
(***************************************************************************)
EXTENDS SignerObjects, Sequences, TLC

CONSTANTS Order,      \* the signer names in the order they are resolved
          Groups,     \* node groups; a group's own signer has its name
          Validators, \* the groups that are validators
          Generates,  \* the validators that create their own key
          Dests,      \* backends
          KindOf,     \* software, vault (imports), held (pre-provisioned)
          KeyOf,      \* the key of a held backend or of a validator
          First,      \* the configurations the set may start with
          Edits,      \* the changes a user may ask for: from, to
          MaxEdits,   \* how many edits
          MaxFaults   \* how many crashes, refused writes, losses, deletions

VARIABLES spec,   \* the signer each name has: dest, groups; or None
          st,     \* .status.cosmosigners, by name
          k,      \* the objects of each stable resource name
          node,   \* the child of each group and its pod; None when missing
          own,    \* each validator's key: none, made, recorded
          ckr,    \* the set's consensus-key reservations: claim, key
          pc, loc,
          served, \* keys that some signer pod served
          dropped, \* keys whose signer the user gave up
          lost,   \* the status was lost: no, yes, or while only it named the state (orphaning)
          edits, faults

run   == <<pc, loc>>
ghost == <<served, dropped, lost>>
count == <<edits, faults>>
vars  == <<spec, st, k, node, own, ckr, pc, loc, served, dropped, lost, edits, faults>>

Names == {Order[i] : i \in DOMAIN Order}

NoLoc == [spec |-> None, key |-> None, blocked |-> {}]

Goto(step) == pc' = step /\ UNCHANGED loc

Return == pc' = "idle" /\ loc' = NoLoc

Fault == faults < MaxFaults /\ faults' = faults + 1

----------------------------------------------------------------------------
(* Resolved signers: cosmosigner_resolve.go *)

Desired(sp) == {n \in Names : sp[n] # None}

Before(n) == {Order[i] : i \in {i \in DOMAIN Order : \E j \in DOMAIN Order : Order[j] = n /\ i < j}}

ValidatorGroup(s) ==
    IF s.groups \cap Validators = {} THEN None ELSE CHOOSE g \in s.groups : g \in Validators

TargetsValidator(s) == ValidatorGroup(s) # None

\* A software signer is identified by the validator's Secret, any other by its
\* backend.
Identity(s) == [dest |-> s.dest, of |-> IF KindOf[s.dest] = "software" THEN ValidatorGroup(s) ELSE None]

\* The signing digest is the signer: identity, targets, validator group.
LifecycleDigest(s, key) == [sig |-> s, key |-> key]

ResourceName(n) == IF st[n] # None THEN st[n].res ELSE n

K(n) == k[ResourceName(n)]

UsesLocalKey(s) == KindOf[s.dest] \in {"software", "vault"}

\* signerImportSourcePending: the child creates the key when it runs.
KeyPending(s) ==
    UsesLocalKey(s) /\ ValidatorGroup(s) \in Generates /\ own[ValidatorGroup(s)] # "recorded"

PublicKey(s) == IF UsesLocalKey(s) THEN KeyOf[ValidatorGroup(s)] ELSE KeyOf[s.dest]

\* nodeSetCosmosignerReservationClaim: the validator's node, or the identity.
Claim(s) == IF TargetsValidator(s) THEN ValidatorGroup(s) ELSE s.dest

\* DesiredReplacementSigner: the signer that takes over what a recorded one
\* served; None when there is none.
Replaces(s, old) ==
    CASE old.sgrp = None -> old.sdig = None /\ s.groups = old.tgts
      [] OTHER -> /\ ValidatorGroup(s) = old.sgrp
                  /\ old.sdig # None => Identity(s) = Identity(old.sdig)

Replacement(sp, old) ==
    LET found == {n \in Desired(sp) : Replaces(sp[n], old)}
    IN  IF found = {} THEN None ELSE CHOOSE n \in found : Before(n) \cap found = {}

Stale(sp) == {n \in Names : st[n] # None /\ sp[n] = None}

\* A variant that publishes the target of a blocked signer.
LabelForAny(sp, g, blocked) ==
    LET found == {n \in Desired(sp) : g \in sp[n].groups}
    IN  IF found = {} THEN None ELSE ResourceName(CHOOSE n \in found : TRUE)

\* signerNameForNodeWithBlockedTargets
LabelFor(sp, g, blocked) ==
    LET found == {n \in Desired(sp) \ blocked : g \in sp[n].groups}
    IN  IF found = {} THEN None ELSE ResourceName(CHOOSE n \in found : Before(n) \cap found = {})

\* A variant that reserves whatever it is asked to.
ReservesAnything(claim, key) == TRUE

\* EnsureConsensusKeyReservation among the claims of the set.
Reservable(claim, key) == \A r \in ckr : r.key = key <=> r.claim = claim

NewStatus(n) == [res |-> n, adig |-> None, pub |-> None, tgts |-> {}, sdig |-> None, sgrp |-> None,
                 mig |-> None, imp |-> None]

Mig(n) == IF st[n] = None THEN None ELSE st[n].mig

Established(n) == st[n] # None /\ (st[n].adig # None \/ st[n].sdig # None \/ st[n].pub # None)

NeedsRecovery(n) == st[n] = None \/ (st[n].adig = None /\ st[n].sdig = None)

\* The API server takes a status write of the copy that was read, unless it
\* fails.
Saved(new) == spec = loc.spec /\ st' = new /\ UNCHANGED faults

Unsaved == st' = st /\ ((spec # loc.spec /\ UNCHANGED faults) \/ Fault)

----------------------------------------------------------------------------
(* The checks of a pass *)

\* prepareCosmosignerOwner: guard the state first; a change ends the pass.
Prepare ==
    /\ pc = "idle"
    /\ LET guarded == [r \in Names |-> ProtectRetainedStatePVCs(k[r])]
       IN  /\ k' = [r \in Names |-> guarded[r].k]
           /\ IF \A r \in Names : guarded[r].ok
              THEN pc' = "names" /\ loc' = [NoLoc EXCEPT !.spec = spec]
              ELSE (\E r \in Names : ~guarded[r].ok) /\ UNCHANGED run
    /\ UNCHANGED <<spec, st, node, own, ckr, ghost, count>>

\* initCosmosignerReplacementNames: a signer that moved in the manifest keeps
\* the resources, the records and the history of the one it replaces.
Inherited(sp, n, old) ==
    [NewStatus(n) EXCEPT
        !.res = old.res, !.adig = IF old.adig = None /\ old.sdig # None
                                  THEN LifecycleDigest(old.sdig, None) ELSE old.adig,
        !.pub = old.pub, !.tgts = old.tgts, !.sdig = old.sdig, !.sgrp = old.sgrp, !.imp = old.imp,
        !.mig = IF (old.adig # None \/ old.sdig # None) /\ old.pub # None
                THEN [want |-> LifecycleDigest(sp[n], None), phase |-> "quiescing", reset |-> FALSE,
                      seen |-> FALSE]
                ELSE None]

MovedFrom(sp, n) == {o \in Stale(sp) : Replacement(sp, st[o]) = n}

ReplacementNames ==
    /\ pc = "names"
    /\ LET moved == {n \in Desired(loc.spec) : st[n] = None /\ MovedFrom(loc.spec, n) # {}}
           new   == [n \in Names |-> IF n \in moved
                        THEN Inherited(loc.spec, n, st[CHOOSE o \in MovedFrom(loc.spec, n) : TRUE])
                        ELSE st[n]]
       IN  IF moved = {} THEN Goto("preflight") /\ UNCHANGED <<st, faults>>
           ELSE Return /\ (Saved(new) \/ Unsaved)
    /\ UNCHANGED <<spec, k, node, own, ckr, ghost, edits>>

\* validateTrackedSignerStatefulSets: every StatefulSet is desired or recorded.
Tracked(sp) ==
    \A r \in Names : k[r].sts # None =>
        \/ \E n \in Desired(sp) : ResourceName(n) = r
        \/ \E n \in Names : st[n] # None /\ st[n].res = r

DistinctResources(sp) ==
    \A n, m \in Desired(sp) : ResourceName(n) = ResourceName(m) => n = m

\* validateRecoveredSignerTargets: the nodes a signer was left serving are the
\* ones the spec names, and there are some unless its own mark says it is new.
TargetsRecovered(n, s, required) ==
    LET r        == ResourceName(n)
        observed == {g \in Groups : /\ node[g] # None
                                    /\ \/ node[g].label = r
                                       \/ node[g].pod # None /\ node[g].pod.label = r}
    IN  observed \subseteq s.groups /\ (required => observed # {})

\* What a signer without a record can be told from the objects it left: the key
\* it pins for the backend of the spec, and the nodes it was serving.
Recovered(n, s) ==
    LET live == RecoveredSigningPublicKey(K(n), Identity(s), 0)
        same == live.live /\ K(n).ann = LifecycleDigest(s, live.key)
    IN  /\ live.ok
        /\ live.live \/ st[n] # None => TargetsRecovered(n, s, live.live /\ ~same)

PreflightSigner(n, s) ==
    LET o   == K(n)
        can == PreflightDeployable(o, RetainedStateRequired(Established(n), Mig(n)))
    IN  CASE ~can.ok -> can
          [] can.ok /\ NeedsRecovery(n) /\ ~RecoveredSigningPublicKey(o, Identity(s), 0).ok ->
                Result(ScaleDown(o).k, FALSE)
          [] OTHER -> Result(o, NeedsRecovery(n) => Recovered(n, s))

\* preflightRemovedSignerFallbacks: a signer that serves a validator is only
\* removed when another one takes over.
RemovalRefused(sp, n) ==
    /\ Replacement(sp, st[n]) = None
    /\ st[n].sdig # None \/ (st[n].sgrp # None /\ k[st[n].res].sts # None)

\* preflightCosmosigners: the first signer that cannot be deployed ends the pass.
Preflight ==
    /\ pc = "preflight"
    /\ LET sp    == loc.spec
           check == [n \in Desired(sp) |-> PreflightSigner(n, sp[n])]
           bad   == {n \in Desired(sp) : ~check[n].ok}
           first == CHOOSE n \in bad : Before(n) \cap bad = {}
       IN  CASE ~Tracked(sp) \/ ~DistinctResources(sp) -> Return /\ UNCHANGED k
             [] Tracked(sp) /\ DistinctResources(sp) /\ bad # {} ->
                   Return /\ k' = [k EXCEPT ![ResourceName(first)] = check[first].k]
             [] OTHER ->
                   /\ UNCHANGED k
                   /\ IF \E n \in Stale(sp) : RemovalRefused(sp, n) THEN Return ELSE Goto("params")
    /\ UNCHANGED <<spec, st, node, own, ckr, ghost, count>>

\* The key of a signer: the one a live signer pins when nothing is recorded.
SignerKey(n, s) ==
    LET live == RecoveredSigningPublicKey(K(n), Identity(s), 0)
    IN  IF NeedsRecovery(n) /\ live.live THEN live.key ELSE PublicKey(s)

\* validateValidatorSignerPublicKey
KeyAllowed(n, s, key) ==
    TargetsValidator(s) =>
        /\ own[ValidatorGroup(s)] = "recorded" => key = KeyOf[ValidatorGroup(s)]
        /\ st[n] # None => st[n].pub \in {None, key}

\* prepareCosmosignerParams: the signers in order, each with its own key and
\* its reservation; a conflict stops the signers it is about.
Params ==
    /\ pc = "params"
    /\ LET sp    == loc.spec
           ready == {n \in Desired(sp) :
                       KeyPending(sp[n]) => own[ValidatorGroup(sp[n])] # "none"}
           key   == [n \in ready |-> SignerKey(n, sp[n])]
           twin  == [n \in ready |-> {m \in ready \cap Before(n) : key[m] = key[n]}]
           unread == {n \in ready : NeedsRecovery(n)
                                    /\ ~RecoveredSigningPublicKey(K(n), Identity(sp[n]), 0).ok}
           held  == {n \in ready : ~Reservable(Claim(sp[n]), key[n])}
           bad   == {n \in ready : \/ twin[n] # {} \/ n \in unread \/ n \in held
                                   \/ ~KeyAllowed(n, sp[n], key[n])}
           first == CHOOSE n \in bad : Before(n) \cap bad = {}
           known == IF bad = {} THEN ready ELSE ready \cap Before(first)
           peers == {m \in Desired(sp) : st[m] # None /\ st[m].pub = key[first]}
           stop  == {ResourceName(m) : m \in {first} \cup twin[first]
                        \cup (IF first \in held THEN peers ELSE {})}
       IN  /\ ckr' = ckr \cup {[claim |-> Claim(sp[n]), key |-> key[n]] : n \in known}
           /\ IF bad = {}
              THEN pc' = "locks" /\ loc' = [loc EXCEPT !.key = key] /\ UNCHANGED k
              ELSE Return /\ k' = [r \in Names |-> IF r \in stop THEN ScaleDown(k[r]).k ELSE k[r]]
    /\ UNCHANGED <<spec, st, node, own, ghost, count>>

\* initCosmosignerLocks: an entry for every signer before any of its objects.
Locks ==
    /\ pc = "locks"
    /\ LET sp  == loc.spec
           new == [n \in Names |->
                     LET entry == IF st[n] = None THEN NewStatus(n) ELSE st[n]
                     IN  CASE n \notin Desired(sp) -> st[n]
                           [] n \in Desired(sp) /\ TargetsValidator(sp[n]) /\ entry.sdig = None
                              /\ entry.sgrp = None ->
                                 [entry EXCEPT !.sgrp = ValidatorGroup(sp[n])]
                           [] OTHER -> entry]
       IN  IF new = st THEN Goto("migrations") /\ UNCHANGED <<st, faults>>
           ELSE Return /\ (Saved(new) \/ Unsaved)
    /\ UNCHANGED <<spec, k, node, own, ckr, ghost, edits>>

----------------------------------------------------------------------------
(* Migrations, imports and teardown *)

\* reconcileCosmosignerMigrations, for one signer: its objects and its entry
\* afterwards, whether the pass must wait, whether it fails.
Step(o, e, wait, ok) == [k |-> o, st |-> e, wait |-> wait, ok |-> ok]

\* A variant that starts the signer again before its targets have moved.
StraightToRecreating(mig, next) == next

\* The set moves the targets between deleting the state and recreating.
AfterPhase(mig, next) ==
    IF mig.phase = "resettingState" /\ next = "recreating" THEN "retargeting" ELSE next

\* A variant that resets the state whenever the configuration changes.
AlwaysResets(e, want) == e.adig # want

\* A change of key resets the state.
Resets(e, want) == want.key # e.pub

MigrationOf(n, s) ==
    LET o    == K(n)
        e    == st[n]
        want == LifecycleDigest(s, loc.key[n])
        step == MigrationStep(o, e.mig)
    IN  CASE e.adig = None /\ e.sdig \notin {None, s} -> Step(o, e, FALSE, FALSE)
          [] e.adig = None /\ e.sdig \in {None, s} /\ ~IsRolledOut(o) -> Step(o, e, FALSE, TRUE)
          [] e.adig = None /\ e.sdig \in {None, s} /\ IsRolledOut(o) ->
                Step(MarkEverRolledOut(o).k,
                     [e EXCEPT !.adig = o.ann, !.pub = want.key, !.tgts = s.groups], TRUE, TRUE)
          [] e.adig = want /\ e.pub = want.key /\ e.mig = None -> Step(o, e, FALSE, TRUE)
          [] /\ e.adig # None
             /\ IF e.mig = None THEN <<e.adig, e.pub>> # <<want, want.key>> ELSE e.mig.want # want ->
                IF e.pub = None THEN Step(o, e, FALSE, FALSE)
                ELSE Step(o, [e EXCEPT !.mig = [want |-> want, phase |-> "quiescing",
                                                reset |-> Resets(e, want), seen |-> FALSE]],
                          TRUE, TRUE)
          [] e.mig # None /\ e.mig.want = want /\ e.mig.phase \in {"retargeting", "rollingOut"} ->
               Step(o, e, FALSE, TRUE)
          [] OTHER -> Step(step.k, [e EXCEPT !.mig.phase = AfterPhase(e.mig, step.next)], TRUE, TRUE)

Prepared == DOMAIN loc.key

Migrations ==
    /\ pc = "migrations"
    /\ LET step  == [n \in Prepared |-> MigrationOf(n, loc.spec[n])]
           bad   == {n \in Prepared : ~step[n].ok}
           done  == IF bad = {} THEN Prepared
                    ELSE {n \in Prepared : \A b \in bad : n # b /\ b \notin Before(n)}
           by(r) == {n \in done : ResourceName(n) = r}
           new   == [n \in Names |-> IF n \in done THEN step[n].st ELSE st[n]]
       IN  /\ k' = [r \in Names |-> IF by(r) = {} THEN k[r]
                                         ELSE step[CHOOSE n \in by(r) : TRUE].k]
           /\ IF bad # {} \/ \E n \in Prepared : step[n].wait
              THEN /\ Return
                   /\ IF bad = {} /\ new # st THEN Saved(new) \/ Unsaved ELSE UNCHANGED <<st, faults>>
              ELSE Goto("imports") /\ UNCHANGED <<st, faults>>
    /\ UNCHANGED <<spec, node, own, ckr, ghost, edits>>

\* prepareCosmosignerImports and maybeImportCosmosignerKey, for one signer.  A
\* signer whose key does not exist yet is blocked: its targets stay local.
ImportOf(n, s) ==
    LET fresh == KeyPending(s) /\ own[ValidatorGroup(s)] = "none"
    IN  CASE \/ KindOf[s.dest] = "software" /\ KeyPending(s)
             \/ KindOf[s.dest] = "vault" /\ st[n].sdig # s /\ fresh /\ st[n].imp # Identity(s) ->
                IF K(n).sts # None THEN "failed" ELSE "blocked"
          [] KindOf[s.dest] = "vault" /\ st[n].sdig # s /\ ~fresh /\ st[n].imp # Identity(s) ->
                IF n \in Prepared THEN "import" ELSE "failed"
          [] OTHER -> "done"

\* An import runs with the signer stopped; the first one ends the pass.
Import ==
    /\ pc = "imports"
    /\ LET by(what) == {n \in Desired(loc.spec) : ImportOf(n, loc.spec[n]) = what}
           stop     == by("failed") \cup by("import")
           first    == CHOOSE n \in stop : Before(n) \cap stop = {}
           scaled   == ScaleDown(K(first))
       IN  IF stop = {}
           THEN /\ pc' = "teardown" /\ loc' = [loc EXCEPT !.blocked = by("blocked")]
                /\ UNCHANGED <<st, k, faults>>
           ELSE /\ Return
                /\ IF first \in by("failed") THEN UNCHANGED <<st, k, faults>>
                   ELSE /\ k' = [k EXCEPT ![ResourceName(first)] = scaled.k]
                        /\ IF scaled.ok
                           THEN \/ Saved([st EXCEPT ![first].imp = Identity(loc.spec[first])])
                                \/ Unsaved
                           ELSE UNCHANGED <<st, faults>>
    /\ UNCHANGED <<spec, node, own, ckr, ghost, edits>>

\* desiredConsensusKeyReservationClaims
DesiredClaims(sp) ==
    {Claim(sp[n]) : n \in Desired(sp)}
    \cup {g \in Validators : \A n \in Desired(sp) : g \notin sp[n].groups}

RetiringKeys(sp) == {r.key : r \in {r \in ckr : r.claim \notin DesiredClaims(sp)}}

\* cosmosignerStatusHasReservation: the entry still names the resources that a
\* reservation to be released is about.
HasReservation(e, keys) ==
    \/ e.pub = None /\ keys # {}
    \/ e.pub \in keys
    \/ e.mig # None /\ e.mig.want.key \in keys

\* The Services go with the ConfigMap.
UndeploySigner(o) ==
    LET left == Undeploy(o) IN [left EXCEPT !.svc = @ /\ left.cm # None]

\* reconcileSignerTeardown, for one recorded signer that is not desired.
Inherits(sp, n) ==
    LET m == Replacement(sp, st[n])
    IN  /\ m # None /\ st[m] # None /\ st[m].mig # None
        /\ st[m].mig.phase \in {"retargeting", "recreating"}

Awaited(sp, n) == Replacement(sp, st[n]) # None /\ ~Inherits(sp, n)

HandedOver(sp, n) == Inherits(sp, n) /\ st[Replacement(sp, st[n])].res = st[n].res

\* It checks Tracked again, which holds since the preflight.
Teardown(sp) ==
    /\ pc = "teardown"
    /\ LET torn  == {n \in Stale(sp) : ~Awaited(sp, n) /\ ~HandedOver(sp, n)}
           after == [r \in Names |-> IF \E n \in torn : st[n].res = r
                                     THEN UndeploySigner(k[r]) ELSE k[r]]
           gone  == {n \in torn : IsTornDown(after[st[n].res])}
           drop  == {n \in gone : ~HasReservation(st[n], RetiringKeys(sp))}
                    \cup {n \in Stale(sp) : HandedOver(sp, n)}
           done  == gone = torn /\ \A n \in Stale(sp) : ~Awaited(sp, n)
           new   == [n \in Names |-> IF n \in drop THEN None ELSE st[n]]
       IN  /\ k' = after
           /\ \/ /\ IF done THEN Goto("retarget") ELSE Return
                 /\ IF drop = {} \/ spec # sp THEN UNCHANGED <<st, faults>> ELSE Saved(new)
              \/ drop # {} /\ Return /\ Fault /\ UNCHANGED st
    /\ UNCHANGED <<spec, node, own, ckr, ghost, edits>>

----------------------------------------------------------------------------
(* Retargeting, rollout and the children *)

\* ensureValidator and ensureNodes: every group's child, with the label of the
\* signer that serves it.
Child(g, label) ==
    CASE node[g] = None -> [label |-> label, tok |-> FALSE, pod |-> None]
      [] node[g] # None /\ node[g].label = label -> node[g]
      [] OTHER -> [node[g] EXCEPT !.label = label, !.tok = FALSE]

\* They also copy the public key that a validator's child recorded.
EnsureChildren(sp, blocked) ==
    /\ node' = [g \in Groups |-> Child(g, LabelFor(sp, g, blocked))]
    /\ own' = [g \in Validators |-> IF node[g] # None /\ own[g] = "made" /\ spec = sp
                                    THEN "recorded" ELSE own[g]]

InPhase(sp, phase) == {n \in Desired(sp) : Mig(n) # None /\ Mig(n).phase = phase}

\* DiscoveryEndpointsGone, once DeleteDiscoveryService removed the Service.
EndpointsGone(n) == K(n).ep = {}

\* retargetingWait: every pod carries the label of the signer that serves it.
Relabelled(sp, blocked) ==
    \A g \in {g \in Groups : node[g] # None /\ node[g].pod # None} :
        node[g].pod.label = LabelFor(sp, g, blocked)

\* reconcileCosmosignerRetargeting: with the signer stopped, cut it off from its
\* targets, relabel the children, and wait for every pod to carry its label.
Retarget ==
    /\ pc = "retarget"
    /\ LET sp     == loc.spec
           moving == InPhase(sp, "retargeting") \ loc.blocked
           linked == {n \in moving : ~EndpointsGone(n)}
           cut    == IF linked = {} THEN moving
                     ELSE {n \in moving : \A m \in linked : m \notin Before(n)}
           moved  == Relabelled(sp, loc.blocked)
           stale  == {n \in Names : Mig(n) # None /\ Mig(n).phase = "retargeting"} \ loc.blocked
           new    == [n \in Names |-> IF n \in stale THEN [st[n] EXCEPT !.mig.phase = "recreating"]
                                      ELSE st[n]]
       IN  IF \A n \in Names : Mig(n) # None => Mig(n).phase # "retargeting"
           THEN Goto("repair") /\ UNCHANGED <<st, k, node, own, faults>>
           ELSE /\ Return
                /\ k' = [r \in Names |-> IF \E n \in cut : ResourceName(n) = r
                                         THEN [k[r] EXCEPT !.svc = FALSE] ELSE k[r]]
                /\ IF linked # {} THEN UNCHANGED <<st, node, own, faults>>
                   ELSE /\ EnsureChildren(sp, loc.blocked)
                        /\ IF moved /\ new # st THEN Saved(new) \/ Unsaved ELSE UNCHANGED <<st, faults>>
    /\ UNCHANGED <<spec, ckr, ghost, edits>>

\* ensureRollingOutCosmosignerTargets: a child lost in the middle of a rollout is
\* recreated before the rollout waits for it.
Repair ==
    /\ pc = "repair"
    /\ LET sp  == loc.spec
           new == {n \in Desired(sp) \ InPhase(sp, "rollingOut") : st[n] = None \/ st[n].adig = None}
       IN  IF InPhase(sp, "rollingOut") = {} THEN UNCHANGED <<node, own>>
           ELSE EnsureChildren(sp, loc.blocked \cup new)
    /\ Goto("rollouts")
    /\ UNCHANGED <<spec, st, k, ckr, ghost, count>>

\* cosmosignerMigrationTargetWait: every target is on the new path and its
\* controller saw it healthy there, which it says by copying the rollout's token.
OnPath(n, g) == node[g] # None /\ node[g].label = ResourceName(n) /\ node[g].pod # None

TargetHealthy(n, g) ==
    OnPath(n, g) /\ node[g].tok /\ node[g].pod.label = ResourceName(n) /\ node[g].pod.tok

\* reconcileSigner: the entry once the signer is rolled out.
AppliedEntry(e, s, key) ==
    LET applied == [e EXCEPT !.adig = LifecycleDigest(s, key), !.pub = key, !.tgts = s.groups,
                             !.mig = None]
    IN  IF TargetsValidator(s) THEN [applied EXCEPT !.sdig = s, !.sgrp = ValidatorGroup(s)]
        ELSE applied

Applied(n, s) ==
    LET key   == loc.key[n]
        conf  == LifecycleConfig(Identity(s), key, 0)
        ready == [K(n) EXCEPT !.cm = conf, !.svc = TRUE]
        e     == st[n]
        sts   == ApplyStatefulSet(ready, conf, 1, RetainedStateRequired(Established(n), e.mig))
        live  == IF sts.ok THEN [sts.k EXCEPT !.ann = LifecycleDigest(s, key)] ELSE sts.k
        need  == \/ e.adig # LifecycleDigest(s, key) \/ e.pub # key \/ e.mig # None
                 \/ TargetsValidator(s) /\ e.sdig = None
    IN  CASE ~ApplyAllowed(e.mig) -> Step(ready, e, FALSE, FALSE)
          [] ApplyAllowed(e.mig) /\ ~sts.ok -> Step(live, e, FALSE, FALSE)
          [] ApplyAllowed(e.mig) /\ sts.ok /\ need /\ IsRolledOut(live) ->
                Step(MarkEverRolledOut(live).k,
                     CASE e.mig # None /\ ~e.mig.seen -> [e EXCEPT !.mig.seen = TRUE]
                       [] e.mig # None /\ e.mig.seen /\ \E g \in s.groups : ~TargetHealthy(n, g) -> e
                       [] OTHER -> AppliedEntry(e, s, key),
                     FALSE, TRUE)
          [] OTHER -> Step(live, e, FALSE, TRUE)

\* The tokens of a rollout: a new one when the rollout is observed, then the
\* targets that are on the path get it.
WithTokens(new) ==
    [g \in Groups |->
        LET mine  == {n \in Names : new[n] # None /\ new[n].mig # None
                                    /\ new[n].mig.phase = "rollingOut" /\ new[n].mig.seen
                                    /\ loc.spec[n] # None /\ g \in loc.spec[n].groups}
            fresh == {n \in mine : ~st[n].mig.seen}
        IN  CASE node[g] = None \/ mine = {} -> node[g]
              [] node[g] # None /\ fresh # {} ->
                    [node[g] EXCEPT !.tok = FALSE,
                                    !.pod = IF @ = None THEN None ELSE [@ EXCEPT !.tok = FALSE]]
              [] OTHER -> [node[g] EXCEPT !.tok = @ \/ \E n \in mine : OnPath(n, g) /\ IsRolledOut(K(n))]]

\* prepareCosmosignerRollouts: apply every signer, record the rolled out ones,
\* and let the children follow when all are.
Rollouts ==
    /\ pc = "rollouts"
    /\ LET sp    == loc.spec
           todo  == Desired(sp) \ loc.blocked
           step  == [n \in todo \cap Prepared |-> Applied(n, sp[n])]
           bad   == {n \in todo : n \notin Prepared \/ ~step[n].ok}
           done  == {n \in todo \cap Prepared : \A b \in bad : b \notin Before(n)}
           new   == [n \in Names |-> IF n \in done THEN step[n].st ELSE st[n]]
           by(r) == {n \in done : ResourceName(n) = r}
           after == [r \in Names |-> IF by(r) = {} THEN k[r] ELSE step[CHOOSE n \in by(r) : TRUE].k]
           ready == \A n \in todo : /\ IsRolledOut(after[ResourceName(n)])
                                    /\ new[n].mig # None => new[n].mig.phase # "rollingOut"
       IN  /\ k' = after
           /\ IF bad # {} THEN Return /\ UNCHANGED <<st, node, faults>>
              ELSE \/ /\ IF new # st THEN Saved(new) ELSE UNCHANGED <<st, faults>>
                      /\ node' = WithTokens(new)
                      /\ IF ready THEN Goto("children") ELSE Return
                   \/ new # st /\ Unsaved /\ Return /\ UNCHANGED node
    /\ UNCHANGED <<spec, own, ckr, ghost, edits>>

Children ==
    /\ pc = "children"
    /\ EnsureChildren(loc.spec, loc.blocked)
    /\ Goto("claims")
    /\ UNCHANGED <<spec, st, k, ckr, ghost, count>>

\* consensusKeyReservationClaimSigningPathsGone: nothing can sign any more for
\* the claim of a reservation that the spec no longer makes.
PathsGone(sp, r) ==
    LET about   == {n \in Names : /\ st[n] # None
                                  /\ \/ st[n].pub = r.key
                                     \/ st[n].mig # None /\ st[n].mig.want.key = r.key}
        retired == {st[n].res : n \in about \cup {n \in Stale(sp) : st[n].pub = None}}
        wanted  == {ResourceName(n) : n \in Desired(sp)}
    IN  /\ r.claim \in Groups => node[r.claim] = None
        /\ \A n \in about : sp[n] # None => Claim(sp[n]) = r.claim
        /\ \A n, m \in about : st[n].res = st[m].res
        /\ \A x \in retired \cup (Names \ wanted) : k[x].sts = None /\ SignerPodsGone(k[x])

\* reconcileConsensusKeyReservationClaims: one by one, up to the first that stays.
Claims ==
    /\ pc = "claims"
    /\ LET undesired == {r \in ckr : r.claim \notin DesiredClaims(loc.spec)}
           gone      == {r \in undesired : PathsGone(loc.spec, r)}
       IN  \E released \in (IF gone = undesired THEN {gone} ELSE SUBSET gone) :
             ckr' = ckr \ released
    /\ Return
    /\ UNCHANGED <<spec, st, k, node, own, ghost, count>>

----------------------------------------------------------------------------
(* Kubernetes and the ChainNode controller: external *)

LocalPod(g) == node[g] # None /\ node[g].pod # None /\ node[g].pod.label = None

\* The groups whose pod a signer's endpoints lead to: a pod that listens for a
\* remote signer.
Reaches(objects, nodes, r) ==
    {g \in objects[r].ep : nodes[g] # None /\ nodes[g].pod # None /\ nodes[g].pod.label # None}

SignsFor(objects, nodes, r) ==
    IF Reaches(objects, nodes, r) = {} THEN {}
    ELSE {objects[r].pods[o].conf.key :
             o \in {o \in Ordinals : objects[r].pods[o] # None /\ objects[r].pods[o].st # "starting"}}

Sees(objects, nodes) == served' = served \cup UNION {SignsFor(objects, nodes, r) : r \in Names}

Serves(conf) == TRUE

Kube(r) ==
    /\ \E o \in KubeSteps(k[r], Serves) :
         k' = [k EXCEPT ![r] = o] /\ Sees([k EXCEPT ![r] = o], node)
    /\ UNCHANGED <<spec, st, node, own, ckr, run, dropped, lost, count>>

\* The Endpoints follow the Service's selector, later.
Endpoints(r) ==
    LET ep == IF k[r].svc
              THEN {g \in Groups : node[g] # None /\ node[g].pod # None /\ node[g].pod.label = r}
              ELSE {}
    IN  /\ k[r].ep # ep
        /\ k' = [k EXCEPT ![r].ep = ep]
        /\ Sees([k EXCEPT ![r].ep = ep], node)
        /\ UNCHANGED <<spec, st, node, own, ckr, run, dropped, lost, count>>

\* The child's controller.  ensureSigningKey: a validator without a signer makes
\* its key.
MakesKey(g) ==
    /\ node[g].label = None /\ g \in Generates /\ own[g] = "none"
    /\ own' = [own EXCEPT ![g] = "made"]
    /\ UNCHANGED <<node, ckr>>

\* ensurePod, with the reservation that comes before a local signer's pod.
CreatesPod(g) ==
    /\ node[g].pod = None
    /\ node' = [node EXCEPT ![g].pod = [label |-> node[g].label, tok |-> FALSE]]
    /\ IF node[g].label = None /\ g \in Validators
       THEN /\ own[g] # "none" /\ Reservable(g, KeyOf[g])
            /\ ckr' = ckr \cup {[claim |-> g, key |-> KeyOf[g]]}
       ELSE UNCHANGED ckr
    /\ UNCHANGED own

\* A pod that changes between local and remote signing is replaced; from one
\* signer to another it is relabelled.
ChangesPath(g) ==
    LET label == node[g].label
    IN  /\ node[g].pod # None /\ node[g].pod.label # label
        /\ node' = [node EXCEPT ![g].pod = IF label = None \/ node[g].pod.label = None THEN None
                                           ELSE [label |-> label, tok |-> FALSE]]
        /\ UNCHANGED <<own, ckr>>

\* attestPodHealth: a healthy pod on its path gets the rollout's token.
AttestPodHealth(g) ==
    LET n == node[g]
    IN  /\ n.pod # None /\ n.label # None /\ n.pod.label = n.label /\ n.tok /\ ~n.pod.tok
        /\ g \in k[n.label].ep /\ \E o \in Ordinals : Ready(k[n.label], o)
        /\ node' = [node EXCEPT ![g].pod.tok = TRUE]
        /\ UNCHANGED <<own, ckr>>

NodeStep(g) ==
    /\ node[g] # None
    /\ MakesKey(g) \/ CreatesPod(g) \/ ChangesPath(g) \/ AttestPodHealth(g)
    /\ Sees(k, node')
    /\ UNCHANGED <<spec, st, k, run, dropped, lost, count>>

----------------------------------------------------------------------------
(* The user and the faults *)

RemovalAdmitted(new, n) ==
    LET e == st[n]
    IN  /\ (e # None /\ e.sdig # None) => Replacement(new, e) # None
        /\ Desired(new) \ Desired(spec) # {} => e # None /\ e.adig # None /\ e.pub # None

\* validateCosmosignerTargetUniqueness
TargetsUnique(new) ==
    \A n, m \in Desired(new) : n # m => new[n].groups \cap new[m].groups = {}

\* validateCosmosignerUpdate
Admitted(new) ==
    /\ \A n \in Desired(new) \cap Desired(spec) :
         new[n] # spec[n] => st[n] # None /\ st[n].adig # None /\ st[n].pub # None
    /\ \A n \in Desired(spec) \ Desired(new) : RemovalAdmitted(new, n)
    /\ TargetsUnique(new)

Edit ==
    /\ edits < MaxEdits
    /\ \E e \in Edits : e.from = spec /\ Admitted(e.to) /\ spec' = e.to
    /\ edits' = edits + 1
    /\ dropped' = dropped \cup
          {PublicKey(spec[n]) : n \in {n \in Desired(spec) :
              \A m \in Desired(spec') : \/ PublicKey(spec'[m]) # PublicKey(spec[n])
                                        \/ m # n /\ spec'[m].groups # spec[n].groups}}
    /\ UNCHANGED <<st, k, node, own, ckr, run, served, lost, faults>>

\* The operator restarts in the middle of a pass.
Abort == pc # "idle" /\ Fault /\ Return /\ UNCHANGED <<spec, st, k, node, own, ckr, ghost, edits>>

Evict(r) ==
    /\ Fault
    /\ \E o \in Ordinals : Ready(k[r], o) /\ k' = [k EXCEPT ![r].pods[o].st = "going"]
    /\ UNCHANGED <<spec, st, node, own, ckr, run, ghost, edits>>

DeleteChild(g) ==
    /\ node[g] # None /\ Fault
    /\ node' = [node EXCEPT ![g] = None]
    /\ UNCHANGED <<spec, st, k, own, ckr, run, ghost, edits>>

StatusLost ==
    /\ pc = "idle" /\ Fault
    /\ st' = [n \in Names |-> None]
    /\ lost' = IF \E n \in Names : st[n] # None /\ K(n).sts = None THEN "orphaning" ELSE "yes"
    /\ UNCHANGED <<spec, k, node, own, ckr, run, served, dropped, edits>>

----------------------------------------------------------------------------

Init ==
    /\ spec \in First
    /\ st = [n \in Names |-> None]
    /\ k = [r \in Names |-> NoObjects @@ [svc |-> FALSE, ep |-> {}, ann |-> None]]
    /\ node = [g \in Groups |-> None]
    /\ own = [g \in Validators |-> IF g \in Generates THEN "none" ELSE "made"]
    /\ ckr = {}
    /\ pc = "idle" /\ loc = NoLoc
    /\ served = {} /\ dropped = {} /\ lost = "no"
    /\ edits = 0 /\ faults = 0

Reconcile ==
    \/ Prepare \/ ReplacementNames \/ Preflight \/ Params \/ Locks \/ Migrations \/ Import
    \/ Teardown(loc.spec) \/ Retarget \/ Repair \/ Rollouts \/ Children \/ Claims

Cluster == (\E r \in Names : Kube(r) \/ Endpoints(r)) \/ (\E g \in Groups : NodeStep(g))

Next ==
    \/ Reconcile
    \/ Cluster
    \/ Edit \/ Abort \/ StatusLost
    \/ \E r \in Names : Evict(r)
    \/ \E g \in Groups : DeleteChild(g)

Spec == Init /\ [][Next]_vars

\* A pass can always take its next step, so weak fairness is to take one again and
\* again.
FairSpec == Spec /\ []<><<Reconcile>>_vars /\ WF_vars(Cluster)

----------------------------------------------------------------------------
(* Properties *)

TypeOK ==
    /\ spec \in First \cup {e.to : e \in Edits}
    /\ \A n \in Names : st[n] # None => st[n].res \in Names /\ st[n].sgrp \in Validators \cup {None}
    /\ \A r \in Names : k[r].ep \subseteq Groups /\ k[r].svc \in BOOLEAN
    /\ \A g \in Groups : node[g] # None => node[g].label \in Names \cup {None}
    /\ own \in [Validators -> {"none", "made", "recorded"}]
    /\ pc \in {"idle", "names", "preflight", "params", "locks", "migrations", "imports",
               "teardown", "retarget", "repair", "rollouts", "children", "claims"}

\* A running signer only reaches nodes of the groups it was configured for: a
\* signer that changed its targets never finds the old ones behind endpoints,
\* labels or a Service left over from before.
NoStaleTargets ==
    \A r \in Names : (\E o \in Ordinals : Ready(k[r], o)) =>
        Reaches(k, node, r) \subseteq k[r].ann.sig.groups

\* No two signing paths of the set, signers or local validators, sign for one
\* key at a time.
OneSignerPerKey ==
    LET local(g) == IF LocalPod(g) /\ g \in Validators THEN {KeyOf[g]} ELSE {}
    IN  /\ \A r, q \in Names : r # q => SignsFor(k, node, r) \cap SignsFor(k, node, q) = {}
        /\ \A r \in Names, g \in Groups : SignsFor(k, node, r) \cap local(g) = {}

\* A signer is only started for a key that was served before when its claim still
\* holds that key's slash-protection history, unless the user gave the signer up;
\* moving it in the manifest, retargeting it and a lost status keep the history
\* (unless the status was lost while it alone named the claims).
HistoryKept ==
    \A r \in Names, o \in Ordinals :
        LET p == k[r].pods[o]
        IN  p # None /\ lost # "orphaning" /\ p.conf.key \in served \ dropped =>
                p.conf.key \in k[r].claims[o].history

\* The desired signers run as desired and serve their targets, and every group
\* has a node on its path.
InService ==
    /\ \A n \in Desired(spec) :
         /\ st[n] # None /\ st[n].mig = None /\ st[n].adig # None /\ st[n].adig.sig = spec[n]
         /\ IsRolledOut(K(n))
         /\ K(n).ep = spec[n].groups
    /\ \A g \in Groups : /\ node[g] # None /\ node[g].pod # None
                         /\ node[g].pod.label = LabelFor(spec, g, {})

\* What the controller refuses until the user restores the previous signer.
Refused ==
    \/ \E n \in Stale(spec) : RemovalRefused(spec, n)
    \/ \E n \in Desired(spec) :
         \/ ~KeyAllowed(n, spec[n], PublicKey(spec[n]))
         \/ KeyPending(spec[n]) /\ own[ValidatorGroup(spec[n])] = "none" /\ K(n).sts # None
         \/ \E r \in ckr : r.key = PublicKey(spec[n]) /\ r.claim # Claim(spec[n])
    \/ \E g \in Validators, r \in ckr : r.key = KeyOf[g] /\ r.claim # g

\* What it refuses once the status was lost, because the objects contradict the
\* spec and nothing records why: a StatefulSet that no signer of the spec has, or
\* a signer whose key or targets cannot be told from what it left.
Unrecoverable ==
    /\ lost # "no"
    /\ \/ ~Tracked(spec)
       \/ \E n \in Desired(spec) : NeedsRecovery(n) /\ ~Recovered(n, spec[n])

Settled == InService \/ Refused \/ Unrecoverable

\* Whatever was edited, evicted, deleted or restarted on the way, and also when the
\* status was lost, the signers and their targets end up as the spec says, unless
\* the controller refuses it: for good reasons of the spec (Refused), or after a
\* lost status because the objects left contradict the spec (Unrecoverable).
Converges == <>[]Settled

=============================================================================
