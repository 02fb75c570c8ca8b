------------------------------- MODULE Signer -------------------------------
(***************************************************************************)
(* The managed signer of a standalone ChainNode: how its controller        *)
(* deploys it, imports the consensus key into a KMS, migrates it to        *)
(* another backend or key, removes it, and cleans it up with its owner.    *)
(*                                                                         *)
(* A reconcile is a sequence of steps (pc); between two of them the user   *)
(* may edit the spec or the key Secret, Kubernetes acts on the signer's    *)
(* objects, and the controller may crash or be refused by the API server.  *)
(* The reconcile works on the spec it read at its start (loc.spec), and a  *)
(* status write is refused when the ChainNode was edited or deleted since  *)
(* (loc.fresh), except for the import records: they are retried on a fresh *)
(* copy, and the writes after them are taken although the spec is old.     *)
(*                                                                         *)
(* Abstractions: one image and one set of labels, so the lifecycle digest  *)
(* of a signer is its backend, key and key version; Services and the       *)
(* NetworkPolicy are applied with the ConfigMap; the reservations of other *)
(* owners are a refusal by the environment.                                *)
(***************************************************************************)
EXTENDS SignerObjects, Sequences

CONSTANTS Dests,     \* backends the spec may name
          KindOf,    \* software, vault, gcp (both import), or held (pre-provisioned)
          HeldKey,   \* the key of a pre-provisioned backend
          Keys,      \* consensus keys
          Shapes,    \* replicas and state storage
          FirstKey,  \* the key the Secret holds at first
          Lives,     \* how the node may start: fresh, obstructed, legacy
          Kinds,     \* whether the node may be a validator
          Ends,      \* how the root may be deleted
          MaxEdits,  \* how many edits of the spec and the Secret
          MaxFaults  \* how many crashes, refusals, losses and deletions

ASSUME SignerAssumption ==
    /\ Ordinals # {} /\ Shapes # {}
    /\ KindOf \in [Dests -> {"software", "vault", "gcp", "held"}]
    /\ HeldKey \in Keys /\ FirstKey \in Keys
    /\ Lives \subseteq {"fresh", "obstructed", "legacy"}
    /\ Kinds \subseteq BOOLEAN
    /\ Ends \subseteq {"Retain", "Delete", "namespace"}
    /\ MaxEdits \in Nat /\ MaxFaults \in Nat

VARIABLES val,     \* the node is a validator
          onChain, \* Status.PubKey, the validator key known on chain
          spec,    \* .spec.cosmosigner: on, dest, shape
          src,     \* the key in the node's key Secret
          kms,     \* the key versions of each backend, oldest first
          st,      \* the signer's fields of the ChainNode status
          k,       \* the signer's objects
          job,     \* the one-shot import pod
          ckr,     \* the node's consensus-key reservations: claim, key
          pc, loc, \* where the reconcile stands, and what it has read
          root,    \* the ChainNode: alive, being deleted, gone
          served,  \* keys that some signer pod served
          wiped,   \* keys whose history was deleted on purpose
          lost,    \* the status, or the log of an import, was lost
          edits, faults

signer == <<spec, src, kms, st, k, job, ckr>>
run    == <<pc, loc>>
ghost  == <<val, onChain, served, wiped, lost>>
vars   == <<val, onChain, spec, src, kms, st, k, job, ckr, pc, loc, root, served, wiped, lost,
            edits, faults>>

NoStatus == [shape |-> None, sdig |-> None, adig |-> None, pub |-> None, mig |-> None,
             imp |-> None, ver |-> None]

NoLoc == [spec |-> None, fresh |-> FALSE, conf |-> None, mat |-> None, ver |-> 0]

Steps == {"idle", "clear", "release", "preflight", "locks", "migrate", "import", "import2", "job", "jobWait",
          "jobResume", "jobDone", "jobClean", "verify", "verifyNew", "config", "sts", "digest",
          "mark", "record", "claims"}

\* A pass that has no configuration to deploy: not yet, or because it removes the
\* signer.
Unplanned == {"idle", "clear", "release", "preflight"}

Confs == [dest : Dests, key : Keys, ver : Nat]

StatefulSets == [conf : Confs, shape : Shapes, up : BOOLEAN, latched : BOOLEAN, ever : BOOLEAN,
                 keep : BOOLEAN, guarded : BOOLEAN, seen : BOOLEAN]

Pods == [conf : Confs, st : {"starting", "ready", "going"}]

PVCs == [owner : {"mine", "other"}, guard : BOOLEAN, going : BOOLEAN, history : SUBSET Keys,
         shape : Shapes]

SignerObjectsType ==
    [sts : StatefulSets \cup {None}, pods : [Ordinals -> Pods \cup {None}],
     claims : [Ordinals -> PVCs \cup {None}], cm : Confs \cup {None}, taken : BOOLEAN]

Specs == [on : BOOLEAN, dest : Dests, shape : Shapes]

Migrations == [want : Confs, phase : Phases, reset : BOOLEAN]

Statuses ==
    [shape : Shapes \cup {None}, sdig : Dests \cup {None}, adig : Confs \cup {None},
     pub : Keys \cup {None}, mig : Migrations \cup {None},
     imp : [dest : Dests, key : Keys \cup {None}] \cup {None},
     ver : [dest : Dests, n : Nat] \cup {None}]

Jobs == [dest : Dests, ph : {"running", "succeeded", "failed"}, n : Nat]

Versions == [key : Keys, ready : BOOLEAN]

Locs == [spec : Specs \cup {None}, fresh : BOOLEAN, conf : Confs \cup {None},
         mat : Keys \cup {None}, ver : Nat]

ASSUME NoneIsNoObject ==
    /\ None \notin Dests \cup Keys \cup Shapes
    /\ None \notin StatefulSets /\ None \notin Pods /\ None \notin PVCs /\ None \notin Confs
    /\ None \notin Specs /\ None \notin Jobs /\ None \notin Migrations

Goto(step) == pc' = step /\ UNCHANGED loc

Return == pc' = "idle" /\ loc' = NoLoc

\* What a pass reads at its start.
Read == [NoLoc EXCEPT !.spec = spec, !.fresh = TRUE]

\* The API server takes a status write of the copy that was read.
Fresh == loc.fresh

\* updateCosmosignerImportStatus: the copy takes the version and the status of
\* the ChainNode as it is, and keeps its spec.
Refreshed(step) == pc' = step /\ loc' = [loc EXCEPT !.fresh = TRUE]

\* A write of somebody else.
Outdated == loc' = [loc EXCEPT !.fresh = FALSE] /\ UNCHANGED pc

Imports(d) == val /\ KindOf[d] \in {"vault", "gcp"}

Established == st.adig # None \/ st.sdig # None \/ st.pub # None

OwnsVersion(d) == st.ver # None /\ st.ver.dest = d

RecordMatchesTarget(d) == st.imp # None /\ st.imp.dest = d

\* Objects after a call; a key is covered no more when its last claim goes.
HistoryOf(o) == UNION {o.claims[i].history : i \in {i \in Ordinals : o.claims[i] # None}}

Objects(o) == k' = o

\* The claims a call lets go of.
OnPurpose(o) ==
    /\ k' = o
    /\ wiped' = wiped \cup UNION {o.claims[i].history :
                   i \in {i \in Ordinals : /\ o.claims[i] # None /\ ~o.claims[i].guard
                                            /\ o.claims[i].going}}

----------------------------------------------------------------------------
(* The start of a reconcile *)

\* prepareCosmosignerOwner: guard the state first; a change ends the pass.
Prepare ==
    /\ root = "alive" /\ pc = "idle"
    /\ LET guarded == ProtectRetainedStatePVCs(k)
       IN  /\ Objects(guarded.k)
           /\ IF guarded.ok /\ spec.on
              THEN pc' = "preflight" /\ loc' = Read
              ELSE ~guarded.ok /\ UNCHANGED run
    /\ UNCHANGED <<spec, src, kms, st, job, ckr, root, edits, faults, ghost>>

\* standaloneCosmosignerReservationClaim: a validator reserves its key under its
\* own name, a sentry under the identity of the backend it signs with.
Claim(d) == IF val THEN None ELSE d

\* reconcileConsensusKeyReservationClaims: a sentry gives up every other claim.
Kept(d) == IF val THEN ckr ELSE {r \in ckr : r.claim = d}

\* EnsureConsensusKeyReservation, among the claims of this node: one claim per
\* key and one key per claim.
Reservable(d, key) == \A r \in ckr : r.key = key <=> r.claim = Claim(d)

\* preflightCosmosignerFallback: a signer that served a validator stays, whatever
\* the node could sign with instead, and so does one of which nobody can tell.
FallbackAllowed ==
    /\ st.sdig = None /\ ~(val /\ st.shape # None)
    /\ st.shape = None => k.sts = None

\* ensureCosmosigner without a spec: the pass goes on once every object is gone.
Remove ==
    /\ root = "alive" /\ pc = "idle" /\ ~spec.on
    /\ ProtectRetainedStatePVCs(k).ok
    /\ FallbackAllowed
    /\ LET o == Undeploy(k)
       IN  /\ OnPurpose(o)
           /\ job' = IF o.cm = None THEN None ELSE job
           /\ IF IsTornDown(o) THEN pc' = "clear" /\ loc' = Read ELSE UNCHANGED run
    /\ UNCHANGED <<val, onChain, spec, src, kms, st, ckr, root, served, lost, edits, faults>>

\* Then the records of the signer are cleared; a conflict is left to a later pass.
ClearStatus ==
    /\ pc = "clear"
    /\ st' = IF Fresh THEN NoStatus ELSE st
    /\ Goto("release")
    /\ UNCHANGED <<spec, src, kms, k, job, ckr, root, edits, faults, ghost>>

----------------------------------------------------------------------------
(* preflightCosmosigner *)

\* The version a managed import resolved; when the status lost it, the one the
\* ConfigMap of the signer in service names.
RecoverVersion(d) ==
    IF /\ KindOf[d] = "gcp" /\ val /\ st.ver = None /\ st.sdig # None
       /\ k.cm # None /\ k.cm.dest = d /\ k.cm.ver > 0
    THEN [st EXCEPT !.ver = [dest |-> d, n |-> k.cm.ver]]
    ELSE st

VersionOf(s, d) ==
    IF KindOf[d] = "gcp" /\ val /\ s.ver # None /\ s.ver.dest = d THEN s.ver.n ELSE 0

\* The key a backend serves at a version; None when it cannot be read.
BackendKey(d, n) ==
    LET i == IF KindOf[d] = "gcp" /\ val THEN n ELSE 1
    IN  IF i \in DOMAIN kms[d] /\ kms[d][i].ready THEN kms[d][i].key ELSE None

\* The expected key: of a managed import it is the source key, and only a
\* completed import lets the backend answer instead.
CosmosignerPublicKey(d, n) ==
    CASE KindOf[d] = "software" -> src
      [] KindOf[d] # "software" /\ Imports(d) ->
            IF src # None THEN src
            ELSE IF RecordMatchesTarget(d) THEN BackendKey(d, n) ELSE None
      [] OTHER -> BackendKey(d, n)

\* A variant that reads the desired key although a live signer pins another.
DesiredKey(d, n) == [ok |-> CosmosignerPublicKey(d, n) # None, live |-> FALSE,
                     key |-> CosmosignerPublicKey(d, n)]

\* Without a record of what was applied, the key of the live signer is the one
\* its own configuration pins.
ExpectedKey(d, n) ==
    LET recovered == RecoveredSigningPublicKey(k, d, n)
    IN  IF st.adig = None /\ st.sdig = None /\ (recovered.live \/ ~recovered.ok)
        THEN recovered
        ELSE [ok |-> CosmosignerPublicKey(d, n) # None, live |-> FALSE,
              key |-> CosmosignerPublicKey(d, n)]

\* A validator never changes its key.
KeyAllowed(key) == val => (onChain \in {None, key} /\ st.pub \in {None, key})

\* The params cannot be rendered: the key Secret of a software signer is gone.
PreflightParams ==
    /\ pc = "preflight"
    /\ KindOf[loc.spec.dest] = "software" /\ src = None
    /\ Return
    /\ UNCHANGED <<signer, root, edits, faults, ghost>>

PreflightObjects ==
    /\ pc = "preflight"
    /\ KindOf[loc.spec.dest] = "software" => src # None
    /\ LET d   == loc.spec.dest
           s   == RecoverVersion(d)
           can == PreflightDeployable(k, RetainedStateRequired(Established, st.mig))
           key == ExpectedKey(d, VersionOf(s, d))
           bad == ~key.ok \/ ~KeyAllowed(key.key) \/ ~Reservable(d, key.key)
           \* a live signer that cannot be told, the wrong key, or a conflict
           stop == key.ok \/ key.live
       IN  /\ st' = s
           /\ CASE ~can.ok -> Objects(can.k) /\ Return /\ UNCHANGED ckr
                [] can.ok /\ bad ->
                      Objects(IF stop THEN ScaleDown(k).k ELSE k) /\ Return /\ UNCHANGED ckr
                [] OTHER ->
                      /\ Objects(k)
                      /\ ckr' = ckr \cup {[claim |-> Claim(d), key |-> key.key]}
                      /\ pc' = "locks"
                      /\ loc' = [loc EXCEPT !.conf = LifecycleConfig(d, key.key, VersionOf(s, d)),
                                            !.fresh = @ \/ s # st]
    /\ UNCHANGED <<spec, src, kms, job, root, edits, faults, ghost>>

\* ensureConsensusKeyReservation: another owner holds the key.
PreflightConflict ==
    /\ pc = "preflight" /\ faults < MaxFaults
    /\ Objects(ScaleDown(k).k)
    /\ faults' = faults + 1
    /\ Return
    /\ UNCHANGED <<spec, src, kms, st, job, ckr, root, edits, ghost>>

----------------------------------------------------------------------------
(* reconcileSigningConfigs: locks and migration *)

\* A variant that accepts any change of the replicas or the storage.
AnyShape == TRUE

\* validateRecordedCosmosignerLocks
LockHolds == st.shape = loc.spec.shape

\* initCosmosignerLocks: recording the lock ends the pass.
Locks ==
    /\ pc = "locks"
    /\ IF st.shape = None
       THEN LET shape == ReadSignerLock(k, loc.spec.shape)
            IN  /\ st' = IF shape # None /\ Fresh THEN [st EXCEPT !.shape = shape] ELSE st
                /\ Return
       ELSE /\ UNCHANGED st
            /\ IF LockHolds THEN Goto("migrate") ELSE Return
    /\ UNCHANGED <<spec, src, kms, k, job, ckr, root, edits, faults, ghost>>

NewMigration(conf) == [want |-> conf, phase |-> "quiescing", reset |-> conf.key # st.pub]

\* reconcileCosmosignerMigration, before anything was applied: adopt what is
\* rolled out, and go on with the first rollout otherwise.
MigrateFirst ==
    /\ pc = "migrate" /\ st.adig = None
    /\ CASE st.sdig \notin {None, loc.spec.dest} -> UNCHANGED <<st, k>> /\ Return
         [] st.sdig \in {None, loc.spec.dest} /\ ~IsRolledOut(k) ->
               UNCHANGED <<st, k>> /\ Goto("import")
         [] OTHER ->
               /\ k' = MarkEverRolledOut(k).k
               /\ st' = IF Fresh THEN [st EXCEPT !.adig = k.sts.conf, !.pub = loc.conf.key] ELSE st
               /\ Return
    /\ UNCHANGED <<spec, src, kms, job, ckr, root, edits, faults, ghost>>

\* reconcileCosmosignerMigration: start a migration when what is desired is
\* not what was applied, and advance it by a phase per pass.
Migrate ==
    /\ pc = "migrate" /\ st.adig # None
    /\ LET conf == loc.conf
           none == st.mig = None
           same == ~none /\ st.mig.want = conf
       IN  CASE none /\ st.adig = conf /\ st.pub = conf.key ->
                   UNCHANGED <<st, k, wiped>> /\ Goto("import")
             [] same /\ st.mig.phase = "rollingOut" ->
                   UNCHANGED <<st, k, wiped>> /\ Goto("import")
             [] same /\ st.mig.phase # "rollingOut" ->
                   LET step == MigrationStep(k, st.mig)
                   IN  /\ OnPurpose(step.k)
                       /\ st' = IF Fresh THEN [st EXCEPT !.mig.phase = step.next] ELSE st
                       /\ Return
             [] OTHER ->
                   /\ ~same /\ (none => st.adig # conf \/ st.pub # conf.key)
                   /\ st' = IF st.pub # None /\ Fresh
                            THEN [st EXCEPT !.mig = NewMigration(conf)] ELSE st
                   /\ UNCHANGED <<k, wiped>>
                   /\ Return
    /\ UNCHANGED <<val, onChain, spec, src, kms, job, ckr, root, served, lost, edits, faults>>

----------------------------------------------------------------------------
(* maybeImportCosmosignerKey, for Vault and for Cloud KMS *)

\* NextGcpImportStep: a recorded version is verified, never imported again.
NextGcpImportStep(d) ==
    CASE src = None -> IF RecordMatchesTarget(d) /\ OwnsVersion(d) THEN "done" ELSE "missing"
      [] src # None /\ RecordMatchesTarget(d) /\ st.imp.key = src ->
            IF OwnsVersion(d) THEN "done" ELSE "run"
      [] src # None /\ RecordMatchesTarget(d) /\ st.imp.key # src -> "mismatch"
      [] OTHER -> IF OwnsVersion(d) THEN "verify" ELSE "run"

\* A digest that was recorded for this destination proves the import.
ServedDigest(d) == st.sdig = d /\ (KindOf[d] = "vault" \/ st.ver # None)

ImportStep(d) ==
    CASE ~Imports(d) -> "done"
      [] Imports(d) /\ ServedDigest(d) -> "done"
      [] Imports(d) /\ KindOf[d] = "gcp" /\ ~ServedDigest(d) -> NextGcpImportStep(d)
      [] OTHER -> CASE src = None -> IF RecordMatchesTarget(d) THEN "done" ELSE "missing"
                    [] src # None /\ RecordMatchesTarget(d) ->
                          IF st.imp.key = src THEN "done" ELSE "missing"
                    [] OTHER -> "run"

\* The signer is quiesced before a key lands in its backend or is verified; an
\* import that is not complete ends the pass.  The call is repeated inside
\* ensureCosmosignerWithParams, where it finds nothing to import: what the first
\* call found or made complete stays complete for the pass, or has become an
\* error because the Secret changed.
Import(at, next) ==
    /\ pc = at
    /\ LET d    == loc.spec.dest
           step == ImportStep(d)
           down == ScaleDown(k)
       IN  CASE step = "done" ->
                   /\ job' = IF KindOf[d] = "gcp" /\ Imports(d) /\ ~ServedDigest(d) THEN None ELSE job
                   /\ UNCHANGED k
                   /\ Goto(next)
             [] step = "missing" -> UNCHANGED <<k, job>> /\ Return
             [] step = "mismatch" -> Objects(down.k) /\ UNCHANGED job /\ Return
             [] OTHER ->
                   /\ Objects(down.k)
                   /\ UNCHANGED job
                   /\ IF down.ok
                      THEN /\ pc' = IF step = "verify" THEN "verify" ELSE "job"
                           /\ loc' = [loc EXCEPT !.mat = src]
                      ELSE Return
    /\ UNCHANGED <<spec, src, kms, st, ckr, root, edits, faults, ghost>>

NewJob(d) == [dest |-> d, ph |-> "running", n |-> 0]

\* A variant that replaces the pod of an earlier attempt whatever it did.
RunJobAfresh ==
    /\ pc = "job"
    /\ job' = NewJob(loc.spec.dest)
    /\ Goto("jobWait")
    /\ UNCHANGED <<spec, src, kms, st, k, ckr, root, edits, faults, ghost>>

\* The log of the pod names the version it created.
ReadLog == pc' = "jobDone" /\ loc' = [loc EXCEPT !.ver = job.n]

\* runJob: the pod of an earlier attempt at this destination is the only
\* record of a version it created, so it is read or awaited; any other, and
\* one that failed before it imported, is replaced.
RunJob ==
    /\ pc = "job"
    /\ LET d      == loc.spec.dest
           resume == job # None /\ KindOf[d] = "gcp" /\ job.dest = d
       IN  IF resume /\ (job.ph # "failed" \/ job.n > 0)
           THEN /\ UNCHANGED job
                /\ IF job.ph = "running" THEN Goto("jobResume") ELSE ReadLog
           ELSE job' = NewJob(d) /\ Goto("jobWait")
    /\ UNCHANGED <<spec, src, kms, st, k, ckr, root, edits, faults, ghost>>

\* The pod ended.  A Vault pod is removed with its result.  Of a pod that failed
\* only one of an earlier attempt is asked for a version in the same pass.
JobWait ==
    /\ pc \in {"jobWait", "jobResume"} /\ job # None /\ job.ph # "running"
    /\ job' = IF KindOf[loc.spec.dest] = "gcp" THEN job ELSE None
    /\ IF job.ph = "succeeded" \/ (pc = "jobResume" /\ job.n > 0) THEN ReadLog ELSE Return
    /\ UNCHANGED <<spec, src, kms, st, k, ckr, root, edits, faults, ghost>>

\* The exact version is persisted before it is verified.
JobDone ==
    /\ pc = "jobDone" /\ root # "gone"
    /\ IF KindOf[loc.spec.dest] = "gcp"
       THEN /\ st' = [st EXCEPT !.ver = [dest |-> loc.spec.dest, n |-> loc.ver]]
            /\ Refreshed("jobClean")
       ELSE /\ st' = [st EXCEPT !.imp = [dest |-> loc.spec.dest, key |-> loc.mat]]
            /\ Refreshed("import2")
    /\ UNCHANGED <<spec, src, kms, k, job, ckr, root, edits, faults, ghost>>

JobClean ==
    /\ pc = "jobClean"
    /\ job' = None
    /\ Goto("verifyNew")
    /\ UNCHANGED <<spec, src, kms, st, k, ckr, root, edits, faults, ghost>>


\* verifyGcpImportedKey: that version must be readable and hold the source key.
Proven == src # None /\ BackendKey(loc.spec.dest, st.ver.n) = src

\* A version created in this pass is not in the params: still pending.
Verify(step) ==
    /\ pc = step /\ root # "gone"
    /\ IF Proven
       THEN /\ st' = [st EXCEPT !.imp = [dest |-> loc.spec.dest, key |-> loc.mat]]
            /\ job' = None
            /\ IF step = "verify" THEN Refreshed("import2") ELSE Return
       ELSE UNCHANGED <<st, job>> /\ Return
    /\ UNCHANGED <<spec, src, kms, k, ckr, root, edits, faults, ghost>>

----------------------------------------------------------------------------
(* ensureCosmosignerWithParams and the records of a rollout *)

ApplyConfig ==
    /\ pc = "config"
    /\ IF k.taken THEN UNCHANGED k /\ Return
       ELSE /\ k' = [k EXCEPT !.cm = loc.conf]
            /\ Goto("sts")
    /\ UNCHANGED <<spec, src, kms, st, job, ckr, root, edits, faults, ghost>>

ApplySts ==
    /\ pc = "sts"
    /\ LET required == RetainedStateRequired(Established, st.mig)
           applied  == ApplyStatefulSet(k, loc.conf, loc.spec.shape, required)
       IN  IF ApplyAllowed(st.mig) /\ (required => st.shape # None)
           THEN /\ Objects(applied.k)
                /\ IF applied.ok THEN Goto("digest") ELSE Return
           ELSE UNCHANGED k /\ Return
    /\ UNCHANGED <<spec, src, kms, st, job, ckr, root, edits, faults, ghost>>

\* A validator's signing digest is recorded only when the signer works.
RecordDigest ==
    /\ pc = "digest"
    /\ IF val /\ st.sdig = None /\ IsRolledOut(k)
       THEN IF Fresh
            THEN st' = [st EXCEPT !.sdig = loc.spec.dest] /\ Goto("mark")
            ELSE UNCHANGED st /\ Return
       ELSE UNCHANGED st /\ Goto("mark")
    /\ UNCHANGED <<spec, src, kms, k, job, ckr, root, edits, faults, ghost>>

Mark ==
    /\ pc = "mark"
    /\ LET marked == MarkEverRolledOut(k)
       IN  /\ Objects(marked.k)
           /\ IF marked.ok THEN Goto("record") ELSE Return
    /\ UNCHANGED <<spec, src, kms, st, job, ckr, root, edits, faults, ghost>>

\* recordCosmosignerAppliedState
Applied == [st EXCEPT !.adig = loc.conf, !.pub = loc.conf.key, !.mig = None,
                      !.sdig = IF val THEN loc.spec.dest ELSE @]

Record ==
    /\ pc = "record"
    /\ st' = IF Fresh THEN Applied ELSE st
    /\ IF Fresh THEN Goto("claims") ELSE Return
    /\ UNCHANGED <<spec, src, kms, k, job, ckr, root, edits, faults, ghost>>

\* The claims of earlier backends, or of a signer that was removed, go when no
\* import pod is left.
Claims ==
    /\ pc \in {"claims", "release"}
    /\ ckr' = IF job = None THEN Kept(IF pc = "claims" THEN loc.spec.dest ELSE None) ELSE ckr
    /\ Return
    /\ UNCHANGED <<spec, src, kms, st, k, job, root, edits, faults, ghost>>

----------------------------------------------------------------------------
(* Deletion of the root *)

FinalizeTerminatingNamespace ==
    LET quiesced == QuiesceOwnerForNamespaceTermination(k)
    IN  IF quiesced.ok THEN Result(ReleaseOwnerStateFinalizers(quiesced.k), TRUE) ELSE quiesced

\* finalizeResources: the import pod goes, the signer is stopped, and only then
\* the state is handled.
Finalize ==
    /\ root \in {"Retain", "Delete", "namespace"} /\ pc = "idle"
    /\ job' = None
    /\ LET done == IF root = "namespace" THEN FinalizeTerminatingNamespace
                                         ELSE FinalizeOwner(k, root)
       IN  /\ OnPurpose(done.k)
           /\ root' = IF done.ok THEN "gone" ELSE root
           /\ ckr' = IF done.ok THEN {} ELSE ckr
    /\ UNCHANGED <<val, onChain, spec, src, kms, st, run, served, lost, edits, faults>>

----------------------------------------------------------------------------
(* Kubernetes, the import pod and Cloud KMS *)

Serves(conf) ==
    conf.key = (IF KindOf[conf.dest] = "software" THEN src ELSE BackendKey(conf.dest, conf.ver))

Kube ==
    /\ \E o \in KubeSteps(k, Serves) : k' = o
    /\ root = "namespace" => k' \notin StartPods(k)   \* nothing is created there
    /\ served' = served \cup {k'.pods[i].conf.key : i \in {i \in Ordinals : Ready(k', i)}}
    /\ UNCHANGED <<val, onChain, spec, src, kms, st, job, run, ckr, root, wiped, lost, edits, faults>>

\* The import command: Cloud KMS takes every import as a new version, a Vault
\* key is created once and compared afterwards.
ImportRuns ==
    /\ job # None /\ job.ph = "running"
    /\ LET d == job.dest
       IN  CASE src = None -> job' = [job EXCEPT !.ph = "failed"] /\ UNCHANGED kms
             [] src # None /\ KindOf[d] = "gcp" ->
                   /\ kms' = [kms EXCEPT ![d] = Append(@, [key |-> src, ready |-> FALSE])]
                   /\ \E ph \in {"succeeded", "failed"} :
                         job' = [job EXCEPT !.ph = ph, !.n = Len(kms[d]) + 1]
             [] OTHER ->
                   /\ kms' = IF kms[d] = <<>>
                             THEN [kms EXCEPT ![d] = <<[key |-> src, ready |-> TRUE]>>] ELSE kms
                   /\ job' = [job EXCEPT !.ph = IF kms'[d][1].key = src THEN "succeeded"
                                                                        ELSE "failed"]
    /\ UNCHANGED <<spec, src, st, k, run, ckr, root, edits, faults, ghost>>

VersionReady ==
    /\ \E d \in Dests : \E i \in DOMAIN kms[d] :
          ~kms[d][i].ready /\ kms' = [kms EXCEPT ![d][i].ready = TRUE]
    /\ UNCHANGED <<spec, src, st, k, job, run, ckr, root, edits, faults, ghost>>

----------------------------------------------------------------------------
(* Users and faults *)

Edit ==
    /\ edits < MaxEdits /\ root = "alive"
    /\ edits' = edits + 1
    /\ spec' \in {s \in [on : BOOLEAN, dest : Dests, shape : Shapes] :
                    s # spec /\ (s.dest = spec.dest \/ s.shape = spec.shape)
                             /\ (s.on # spec.on => s.dest = spec.dest /\ s.shape = spec.shape)}
    /\ Outdated
    /\ UNCHANGED <<src, kms, st, k, job, ckr, root, faults, ghost>>

EditSecret ==
    /\ edits < MaxEdits
    /\ edits' = edits + 1
    /\ src' \in (Keys \cup {None}) \ {src}
    /\ UNCHANGED <<spec, kms, st, k, job, run, ckr, root, faults, ghost>>

Fault == faults < MaxFaults /\ faults' = faults + 1

\* In a namespace that is deleted every claim is marked.
DeleteRoot ==
    /\ Fault /\ root = "alive"
    /\ root' \in Ends
    /\ k' = IF root' = "namespace"
            THEN [k EXCEPT !.claims = [o \in Ordinals |->
                     IF k.claims[o] = None THEN None ELSE [k.claims[o] EXCEPT !.going = TRUE]]]
            ELSE k
    /\ Outdated
    /\ UNCHANGED <<spec, src, kms, st, job, ckr, edits, ghost>>

\* An operator removes what held the signer's name.
FreeName ==
    /\ k.taken \/ \E o \in Ordinals : k.claims[o] # None /\ ~Owned(k.claims[o])
    /\ k' = [k EXCEPT !.taken = FALSE,
                      !.claims = [o \in Ordinals |-> IF Owned(k.claims[o]) THEN k.claims[o] ELSE None]]
    /\ UNCHANGED <<spec, src, kms, st, job, run, ckr, root, edits, faults, ghost>>

\* A crash, or an error of the API server.
Abort ==
    /\ Fault /\ pc # "idle"
    /\ Return
    /\ UNCHANGED <<signer, root, edits, ghost>>

\* The status is lost or restored from before the signer, between two passes.
StatusLost ==
    /\ Fault /\ pc = "idle" /\ st # NoStatus
    /\ st' = NoStatus
    /\ lost' = TRUE
    /\ UNCHANGED <<val, onChain, spec, src, kms, k, job, run, ckr, root, served, wiped, edits>>

\* The import pod is lost with its log.
JobLost ==
    /\ Fault /\ job # None
    /\ job' = [job EXCEPT !.ph = "failed", !.n = 0]
    /\ lost' = TRUE
    /\ UNCHANGED <<val, onChain, spec, src, kms, st, k, run, ckr, root, served, wiped, edits>>

Evict ==
    /\ Fault
    /\ \E o \in Ordinals : Ready(k, o) /\ k' = [k EXCEPT !.pods[o].st = "going"]
    /\ UNCHANGED <<spec, src, kms, st, job, run, ckr, root, edits, ghost>>

\* A user deletes a guarded claim, or the StatefulSet.
DeleteClaim ==
    /\ Fault
    /\ \E o \in Ordinals : /\ k.claims[o] # None /\ k.claims[o].guard /\ ~k.claims[o].going
                           /\ k' = [k EXCEPT !.claims[o].going = TRUE]
    /\ UNCHANGED <<spec, src, kms, st, job, run, ckr, root, edits, ghost>>

DeleteSts ==
    /\ Fault /\ k.sts # None /\ k.sts.guarded
    /\ k' = WithoutSts(k)
    /\ UNCHANGED <<spec, src, kms, st, job, run, ckr, root, edits, ghost>>

----------------------------------------------------------------------------
(* Specification *)

NoVersions == [d \in Dests |->
                 IF KindOf[d] = "held" THEN <<[key |-> HeldKey, ready |-> TRUE]>> ELSE <<>>]

\* A signer deployed by a version that did not guard its claims, and perhaps
\* did not record what it applied.
LegacyObjects(s) ==
    LET conf == [dest |-> s.dest, key |-> FirstKey, ver |-> 0]
    IN  [NoObjects EXCEPT
           !.sts = [conf |-> conf, shape |-> s.shape, up |-> TRUE, latched |-> FALSE,
                    ever |-> FALSE, keep |-> FALSE, guarded |-> FALSE, seen |-> TRUE],
           !.pods = [o \in Ordinals |-> [conf |-> conf, st |-> "ready"]],
           !.claims = [o \in Ordinals |-> [owner |-> "mine", guard |-> FALSE, going |-> FALSE,
                                           history |-> {FirstKey}, shape |-> s.shape]],
           !.cm = conf]

\* Another owner's claim, left behind by an earlier signer of the same name.
LeftOver(s) ==
    [NoObjects EXCEPT !.claims = [o \in Ordinals |->
        [owner |-> "other", guard |-> FALSE, going |-> FALSE, history |-> {}, shape |-> s.shape]]]

Init ==
    /\ val \in Kinds
    /\ onChain \in IF val THEN {FirstKey} ELSE {None}
    /\ \E d \in Dests : spec = [on |-> TRUE, dest |-> d, shape |-> CHOOSE sh \in Shapes : TRUE]
    /\ \E life \in Lives :
          /\ life # "fresh" => KindOf[spec.dest] = "software"
          /\ k \in CASE life = "fresh" -> {NoObjects}
                     [] life = "obstructed" -> {LeftOver(spec), [NoObjects EXCEPT !.taken = TRUE]}
                     [] life = "legacy" -> {LegacyObjects(spec)}
          /\ \E applied \in IF life = "legacy" THEN {None, k.cm} ELSE {None} :
                st = IF life # "legacy" THEN NoStatus
                     ELSE [NoStatus EXCEPT !.shape = spec.shape, !.adig = applied,
                                           !.pub = IF applied = None THEN None ELSE FirstKey,
                                           !.sdig = IF val THEN spec.dest ELSE None]
          /\ served = IF life = "legacy" THEN {FirstKey} ELSE {}
    /\ src = FirstKey
    /\ kms = NoVersions
    /\ job = None
    /\ ckr = {}
    /\ pc = "idle" /\ loc = NoLoc
    /\ root = "alive"
    /\ wiped = {} /\ lost = FALSE
    /\ edits = 0 /\ faults = 0

Controller ==
    \/ Prepare \/ Remove \/ ClearStatus \/ PreflightParams \/ PreflightObjects \/ Locks
    \/ MigrateFirst \/ Migrate
    \/ Import("import", "import2") \/ Import("import2", "config") \/ RunJob \/ JobWait \/ JobDone \/ JobClean
    \/ Verify("verify") \/ Verify("verifyNew")
    \/ ApplyConfig \/ ApplySts \/ RecordDigest \/ Mark \/ Record \/ Claims \/ Finalize

Cluster == Kube \/ ImportRuns \/ VersionReady

Next ==
    \/ Controller \/ Cluster
    \/ Edit \/ EditSecret \/ DeleteRoot \/ FreeName
    \/ PreflightConflict \/ Abort \/ StatusLost \/ JobLost \/ Evict \/ DeleteClaim \/ DeleteSts

Spec == Init /\ [][Next]_vars

FairSpec == Spec /\ WF_vars(Controller) /\ WF_vars(Cluster)

----------------------------------------------------------------------------
(* Properties *)

TypeOK ==
    /\ val \in BOOLEAN /\ onChain \in Keys \cup {None}
    /\ spec \in Specs
    /\ src \in Keys \cup {None}
    /\ kms \in [Dests -> Seq(Versions)]
    /\ st \in Statuses
    /\ k \in SignerObjectsType
    /\ job \in Jobs \cup {None}
    /\ ckr \subseteq [claim : Dests \cup {None}, key : Keys]
    /\ pc \in Steps
    /\ loc \in Locs
    /\ pc # "idle" => loc.spec # None
    /\ pc \notin Unplanned => loc.conf # None /\ loc.conf.dest = loc.spec.dest
    /\ root \in {"alive", "Retain", "Delete", "namespace", "gone"}
    /\ served \subseteq Keys /\ wiped \subseteq Keys /\ lost \in BOOLEAN
    /\ edits \in 0..MaxEdits /\ faults \in 0..MaxFaults

\* A pod that can sign: a ready one, or one that terminates after it served.
MaySign(o) ==
    /\ k.pods[o] # None /\ k.pods[o].st # "starting"
    /\ k.pods[o].st = "going" => k.claims[o] # None /\ k.pods[o].conf.key \in k.claims[o].history

\* A replica is only started for a key that some replica served before when the
\* claim it mounts still holds that key's slash-protection history, unless the
\* history was deleted on purpose: by a migration to another key, the removal
\* of the signer, or the deletion of its owner.  For a validator neither of the
\* first two may delete it, while the status is not lost.
HistoryKept ==
    /\ \A o \in Ordinals :
         k.pods[o] # None /\ k.pods[o].conf.key \in served \ wiped =>
             k.pods[o].conf.key \in HistoryOf(k)
    /\ val /\ root = "alive" /\ ~lost => wiped = {}

\* A claim is only mounted under the raft membership and storage it was created
\* with, whatever happened to the spec and the recorded lock.
MembershipKept ==
    \A o \in Ordinals : k.pods[o] # None /\ k.sts # None => k.claims[o].shape = k.sts.shape

\* A StatefulSet of a managed import names a version that was read back and
\* holds the key its pods expect.
ServesProvenVersion ==
    k.sts # None /\ k.sts.up /\ Imports(k.sts.conf.dest) =>
        BackendKey(k.sts.conf.dest, k.sts.conf.ver) # None

\* A key is imported into a Cloud KMS key once: no crash, failed import pod or
\* refused write between the import and its record makes a second version.
ImportsOnce ==
    ~lost => \A d \in Dests : \A i, j \in DOMAIN kms[d] : kms[d][i].key = kms[d][j].key => i = j

\* What a managed signer promises: see SignerService.
Signing == {k.pods[o].conf.key : o \in {o \in Ordinals : MaySign(o)}}

Service == INSTANCE SignerService WITH key <- Signing, history <- HistoryOf(k)

ImplementsService == Service!Spec

DesiredPublicKey == CosmosignerPublicKey(spec.dest, VersionOf(st, spec.dest))

\* No object, record or missing key keeps the desired signer from being
\* deployed.  Claims without a StatefulSet or a record that says which key they
\* protect need an operator.
Unobstructed ==
    LET key == DesiredPublicKey
    IN  /\ root = "alive" /\ spec.on /\ ~lost /\ ~k.taken /\ NoForeignDataPVCs(k)
        /\ key # None /\ KeyAllowed(key) /\ src # None
        /\ st.shape \in {None, spec.shape}
        /\ st.adig = None /\ k.sts # None => k.sts.conf.dest = spec.dest /\ k.sts.conf.key = key
        /\ st.adig = None => st.sdig \in {None, spec.dest}
        /\ st.adig = None /\ st.sdig = None /\ k.sts = None => ~OrphanedClaim(k)
        /\ \A o \in Ordinals : k.claims[o] # None => ~k.claims[o].going
        /\ k.sts # None => ~k.sts.latched

Deployable == Unobstructed /\ Reservable(spec.dest, DesiredPublicKey)

InService ==
    /\ IsRolledOut(k) /\ k.sts.conf.dest = spec.dest
    /\ st.adig = k.sts.conf /\ st.mig = None

\* A spec that stays deployable is in service in the end, through every import
\* and migration it takes.
SignerComesUp == <>[]Deployable => <>[]InService

----------------------------------------------------------------------------
(* The inductive invariant *)

\* The lock that status records is that of every claim and StatefulSet.
OneMembership ==
    /\ \A o \in Ordinals : k.sts # None /\ k.claims[o] # None =>
           Owned(k.claims[o]) /\ k.claims[o].shape = k.sts.shape
    /\ st.shape # None =>
           /\ k.sts # None => k.sts.shape = st.shape
           /\ \A o \in Ordinals : Owned(k.claims[o]) => k.claims[o].shape = st.shape
    /\ \A o \in Ordinals : k.pods[o] # None => Owned(k.claims[o])

\* A pass goes on under that lock only.
WorksUnderLock ==
    pc \notin Unplanned \cup {"locks"} => st.shape = loc.spec.shape

\* Without a guard, a claim is one whose history was given up, or one of a
\* signer that was never protected.
Forsaken(claim) == claim.going /\ claim.history \subseteq wiped

Unprotected == k.sts # None /\ ~k.sts.guarded

Guarded ==
    /\ \A o \in Ordinals : k.claims[o] # None /\ ~Owned(k.claims[o]) => k.claims[o].history = {}
    /\ root # "namespace" =>
         \A o \in Ordinals : Owned(k.claims[o]) /\ ~k.claims[o].guard =>
             \/ Forsaken(k.claims[o])
             \/ /\ ~k.claims[o].going /\ (k.sts # None => ~k.sts.guarded)
                /\ root = "alive" => k.sts # None
    /\ pc # "idle" => /\ ~Unprotected
                      /\ \A o \in Ordinals : Owned(k.claims[o]) /\ ~k.claims[o].guard =>
                             Forsaken(k.claims[o])
    /\ root = "alive" /\ Unprotected =>
         \A o \in Ordinals : /\ Owned(k.claims[o]) /\ (k.claims[o].guard \/ ~k.claims[o].going)
                             /\ k.sts.conf.key \in k.claims[o].history
                             /\ k.pods[o] # None => k.pods[o].conf.key \in k.claims[o].history
    /\ root # "namespace" =>
         \A o \in Ordinals : k.pods[o] # None => k.claims[o].guard \/ ~k.claims[o].going
    /\ root = "gone" => pc = "idle" /\ k.sts = None /\ SignerPodsGone(k)

\* The history of a key that is served is there; in a namespace that is deleted
\* every pod that relies on a claim without a guard has its own.
Remembered ==
    /\ \A o \in Ordinals : Ready(k, o) => k.pods[o].conf.key \in k.claims[o].history
    /\ root \notin {"namespace", "gone"} => served \ wiped \subseteq HistoryOf(k)
    /\ root = "namespace" =>
         /\ \A o \in Ordinals : k.pods[o] # None /\ k.pods[o].conf.key \in served \ wiped =>
                k.pods[o].conf.key \in HistoryOf(k)
         /\ (\E o \in Ordinals : /\ Owned(k.claims[o]) /\ ~k.claims[o].guard
                                 /\ ~(k.claims[o].history \subseteq wiped)) =>
                \A o \in Ordinals : k.pods[o] # None => k.pods[o].conf.key \in k.claims[o].history
         /\ \A o \in Ordinals : k.pods[o] # None /\ ~k.claims[o].guard =>
                k.pods[o].conf.key \in k.claims[o].history

\* The claims are reset when nothing runs on them.
StoppedForReset ==
    st.mig # None /\ st.mig.phase \in {"resettingState", "recreating"} =>
        k.sts = None /\ SignerPodsGone(k)

\* A validator keeps its key.
SameKey ==
    val => /\ onChain = FirstKey /\ st.pub \in {None, FirstKey}
           /\ loc.conf # None => loc.conf.key = FirstKey
           /\ st.mig # None => ~st.mig.reset

\* Without a lock, and while the lock is cleared, there is nothing, and a validator
\* gives up no history.
NothingGivenUp ==
    /\ (~lost /\ st.shape = None) \/ pc = "clear" =>
         k.sts = None /\ \A o \in Ordinals : k.pods[o] = None /\ ~Owned(k.claims[o])
    /\ val /\ root = "alive" /\ ~lost => wiped = {}

IInv == /\ TypeOK /\ OneMembership /\ WorksUnderLock /\ Guarded /\ Remembered
        /\ StoppedForReset /\ SameKey /\ NothingGivenUp

----------------------------------------------------------------------------
(* The inductive invariant of the refinement *)

\* The StatefulSet and the pods of o are those of key x.
Pinned(o, x) ==
    /\ o.sts # None => o.sts.conf.key = x
    /\ \A i \in Ordinals : o.pods[i] # None => o.pods[i].conf.key = x

\* A claim that Kubernetes may remove holds the history of no other key.
Bound(o, x) ==
    /\ Pinned(o, x)
    /\ \A i \in Ordinals : o.claims[i] # None /\ ~o.claims[i].guard => o.claims[i].history \subseteq {x}

\* No claim holds the history of another key.
Sole(o, x) ==
    /\ Pinned(o, x)
    /\ \A i \in Ordinals : o.claims[i] # None => o.claims[i].history \subseteq {x}

\* A signer is of one key at a time: the validator's, the one in the status, or
\* the one a migration has cleared the way for.
OneKey ==
    /\ val => Sole(k, FirstKey)
    /\ k.sts # None \/ ~SignerPodsGone(k) => \E x \in Keys : Bound(k, x)
    /\ st.adig # None /\ st.mig = None => Pinned(k, st.pub)
    /\ st.mig # None =>
         /\ st.adig # None
         /\ st.mig.phase \in {"recreating", "rollingOut"} =>
               Pinned(k, st.mig.want.key) /\ (st.mig.reset => Sole(k, st.mig.want.key))
    /\ ~val => st.sdig = None
    /\ pc \notin Unplanned /\ st.adig = None => Bound(k, loc.conf.key)
    /\ pc \notin Unplanned \cup {"locks", "migrate"} =>
         /\ Pinned(k, loc.conf.key)
         /\ st.adig # None /\ st.mig = None => st.pub = loc.conf.key
         /\ st.mig # None => st.mig.phase = "rollingOut" /\ st.mig.want = loc.conf

=============================================================================
