# Verification of cosmopilot

Cosmopilot is a Kubernetes operator that runs Cosmos SDK nodes. This directory
holds TLA+ models of its controllers and of two programs they run, TLC
configurations that check them on small instances, and proofs, checked by TLAPS,
about the parts where a mistake is the most expensive.

`PROJECT.json` maps every definition that models code to its source lines, and
lists the runs, the mutants that show each property can fail, the findings, the
hazards and the theorems.

Contents: [the system](#the-system), [the modules](#the-modules),
[the runs](#the-runs), [findings](#findings), [the proofs](#the-proofs),
[further observations](#further-observations), [what is left out](#what-is-left-out).

## The system

Four processes make up the system: the manager (the controllers and webhooks), the
node-utils sidecar in every node pod, the data exporter that runs in Jobs, and the
applications themselves. Users write `ChainNode` and `ChainNodeSet` objects; the
manager reconciles each of them in passes, at most one pass per object at a time
and several objects concurrently. A pass reads through a cache that lags behind the
API server, writes with optimistic concurrency, and ends at the first call that
fails; the work queue then retries. The manager may crash between any two calls.
All state that must survive lives in Kubernetes objects: their status, annotations,
labels and finalizers.

| Component | State it keeps | What is hard | What makes it correct | Module |
| --- | --- | --- | --- | --- |
| Consensus-key reservations (`internal/cosmosigner/reservation*.go`) | one cluster-scoped object per key; a finalizer and the recorded key of the root | two roots and one key; roots re-created under one name; finalizers stripped by hand; crashes between teardown and release | a key has at most one signer and changes hands only when nobody signs; deletion completes; a replacement gets to sign | `Reservation`, `OneSigner` |
| Managed signer of a node (`internal/cosmosigner`, `chainnode/cosmosigner.go`) | StatefulSet, raft state, lock, status with import and migration | migrations that crash between phases; an import that is not recorded; a status that is lost | the double-sign state is never lost or forked; only a proven key version serves; the signer comes up | `SignerObjects`, `Signer`, `SignerService` |
| Signers of a set (`chainnodeset/cosmosigner.go`, `api/v1/cosmosigner_resolve.go`) | status per signer, the label children follow, reservations | a signer that moves in the manifest; children that still follow the old one | one signer per key; history kept; no child follows a stopped signer; the set converges | `SetSigner` |
| Disruption control (`chainnode/disruption.go`, `pod.go`) | locks per label set, in memory | locks held through waits; a crash forgets them; capacity | one pod of a group at a time; every restart ends | `Disruption` |
| Upgrades (`chainnode/upgrades.go`, `pod.go`, `pkg/nodeutils`) | the status list, a ConfigMap, the image of the pod, node-utils' list and request | three copies of the list; replies that are lost; heights that pass | never early, never undone, always applied | `Upgrades` |
| Node groups (`chainnodeset/nodes.go`, `validator.go`) | ChainNode children and their labels | choices made from a stale list; interrupted removals | what the spec asks for comes to be | `NodeGroups` |
| Data of a node (`pvc.go`, `genesis.go`, `keys.go`, `account.go`) | Secrets, the data volume and its annotations, the genesis | volumes that are replaced under a pass; init pods; restores | a pod starts on good data; the height of a volume is known | `NodeData` |
| Deletion (`resource_cleanup.go` of both controllers, `internal/resourcecleanup`) | stamps, owner references and finalizers of volumes, Secrets and signer state | two controllers finalize one child; resources of earlier releases; namespaces that go | retained is kept, deleted is gone, stopped first | `Cleanup` |
| Volume snapshots (`chainnode/snapshots.go`) | two annotations of the node, annotations of each snapshot, Jobs | stale lists; retention | one at a time; the next one is always taken | `Snapshots` |
| Snapshot exports (`chainnode/snapshot_exports.go`, `internal/datasnapshot`) | a record per export, upload and deletion Jobs | Jobs that vanish; bounded retries; edits while uploads run | what is recorded is true; nothing is forgotten | `Exports` |
| Data exporter (`pkg/dataexporter`) | parts, objects and goroutines of one upload | kills, requests that fail with or without effect, composition in rounds | an upload that succeeded is whole; a deletion that succeeded left nothing | `S3Upload`, `GcsUpload` |

The hazards, each at the line where it bites and with the properties that would
catch it, are in `PROJECT.json`.

## The modules

In every module one action is one interaction of a pass with the API server or another
process, `pc` (or `todo`) says where a pass stands, and everything else may happen
between two actions. Where what a pass read can be stale when it is used, the copy is
kept in a variable of its own (`seen`, `list`, `cache`, `loc`, `read`). Three modules
read the cluster as it is at each step: `Upgrades`, whose status only its own
reconcile writes; `NodeData`, where a refused write ends the pass like a crash; and
`Exports`, which keeps the spec a pass began with and the snapshots it listed, but no
copy of records and Jobs. Definitions whose comment says "variant" are faulty forms of
the definition below them; nothing uses them, and they exist to show that the
properties notice.

### Reservation and OneSigner

The lifecycle of ChainNode roots that validate. `objects` are the roots the API server
has, with UID (a name and a generation), finalizers, key and recorded public key;
`reservations` the cluster-scoped reservations; `workloads` the signing paths, a pod
with a mounted key or a signer. The steps of a pass follow `Reconciler.Reconcile`:
`Adopt` and `Prepare`/`Protect` put the finalizers on, `RecordKey`/`Record` read the
key, `GetReservation`, `Recover`, `Check`, `CreateReservation` and `Confirm` are
`EnsureConsensusKeyReservationWithResult`, `Quiesce` tears a path down on a conflict,
`Deploy` starts it, `Publish` records the key on chain. Paths that `Quiesce` and
`Resources` look up come from the cache, so both may miss one that was just created;
what precedes a release is uncached. Deletion goes through `SigningPaths`, `Release`
and `Unfinalize`, in the early form for roots that lost their cleanup finalizer and
after `Resources` and `DropCleanup` otherwise. The environment creates and deletes
roots, replaces keys, strips finalizers, collects garbage, stops workloads and crashes
the manager. `Init` includes roots of an older release that sign without a
reservation. A terminating namespace, in which a live root takes the way out of a
deleted one, is not modelled here; `Cleanup` and `Signer` have it.

`OneSigner` is what this promises: for each key nobody, or one root; a root takes a
key only when nobody has it. `Reservation` implements it with `signers` mapped to
the owners of the workloads of each key (`ImplementsOneSigner`).

### SignerObjects, Signer and SignerService

`SignerObjects` is the library: the StatefulSet, pods, claims and ConfigMap of one
signer as a record `k`, and each call (`ApplyStatefulSet`, `ScaleDown`, `Undeploy`,
`MigrationStep`, `ReadSignerLock`, `FinalizeOwner`, ...) as an operator from `k` to
what it returned and left behind. The steps of Kubernetes are at its end.

`Signer` is the controller of a standalone node on top of it: preflight, locks,
migration through its phases, import with its one-shot pod and proofs, reservation,
deployment, removal and the three ways the owner can go. The user edits backend,
shape and key Secret, status and logs are lost, pods are evicted, claims and
StatefulSets deleted by hand. `served`, `wiped` and `lost` record what the promises
are about: keys once served, histories deleted on purpose, losses nobody can repair.
`loc.fresh` says whether the copy of the node that a pass works from is the current one:
its status writes are refused when it is not, except for the import records, which are
retried on a fresh copy (`Refreshed`). The pass goes on with that copy and the old spec,
so its later writes are taken. Removal takes three writes, `Remove` (objects),
`ClearStatus` and `Claims` (reservations), and a crash may fall between them.

`SignerService` is the abstract signer: at most one key, stopped before it serves
another one or forgets, and it remembers what it serves. `Signer` implements it
(`ImplementsService`), with `key` mapped to what its pods can sign with and
`history` to what the claims remember.

### SetSigner

All signers of a ChainNodeSet: the top-level one and the groups' own, resolved as in
`cosmosigner_resolve.go`, each with its status entry, its objects and its
reservation. A pass goes through retired, migrating and desired signers and moves
the label that the pods of a group carry (`LabelFor`). Edits are those the webhook
admits. Signers have one replica and one shape, and an import is one step and into
Vault; `Signer` has the rest. A group has one node, so the order in which further nodes
of a group become targets of its signer is left out, and the chain ID is known.

`Converges` has two exceptions, which are states the controller stays in until the user
acts: `Refused`, a spec that it refuses (a removal, a key or a claim that conflicts with
what is there), and `Unrecoverable`, after the status was lost, when the objects that are
left contradict the spec and nothing records why: a StatefulSet that no signer of the
spec has, or a signer whose key or targets cannot be told from what it left. A lost
status is otherwise no excuse: the set converges from the objects.

### Disruption

Workers restart pods of nodes that share disruption labels. `LockFor` is the lock
manager with its capacity, `Lock` to `Started` are `recreatePod`, every return path
gives the lock back (`Return`), and a crash forgets all locks. `BuiltStatus` is the
status of the pod the pass built itself, which is what the allowance is asked about.

### Upgrades

One node with its status list `ups`, the ConfigMap `cm`, node-utils with the list
`vol` it loaded and its state `nu`, the pod and the application. `EnsureUpgrades`
and `SaveUpgrades` merge and publish; `Trace`, `Due`, `LoadConfig` and `WatchFails`
are node-utils; `CheckRequired` to `Complete` and `Revert` are the swap of the
image, `CreateReplyLost` a pod creation whose reply does not arrive. `ran` is the
newest image that committed a block: what a downgrade is measured against.

### NodeGroups

The children of one ChainNodeSet. A pass computes its calls from the spec it read
(`seen`) and from what it listed (`list`), and then makes them one by one: `EnsureNode`
creates or updates, `DeleteNode` deletes. Children are named by group and index; a
label tells a validator from a regular node. The chain ID is known, from when on
`validatorWaitMode` waits for nobody; the validator of `.spec.validator`, which the
removals leave out, is not modelled.

### NodeData

Keys and account, additional volumes, the data volume, the init pod, the genesis
from a ConfigMap, from a URL onto the volume or made here, and what is kept of the
volume while the node runs: its height annotation and its size. A volume can be
deleted, and another one can appear under its name, at any time. Sizes are in blocks:
the data of height `h` takes `h`. Reads are fresh within a step; a write that is
refused ends the pass like a crash. A genesis has no contents beyond the validator
key in it, and `status.digest` says whether its digest was recorded.

### Cleanup

What becomes of volumes, keys and signer state when a node or a set is deleted. The
manager first protects and migrates every root (`Protect`, `Migrate`, `Ready`); then
the passes of a node (`NodePass`) and of the set (`SetPass`) stop pods, attribute what
earlier releases left, and delete or release by policy. A reconcile of a child that
began before the deletion may still create its volume and its pod. `world` is the
situation: which parts there are, who owns them, what the policies delete. `excused`
collects what no promise is made for, in three cases:

- objects that hang on a root by reference when it is deleted unprotected or in the
  foreground (`Forfeit`);
- objects created for a child that is gone or lost its reference, and the pod that a
  reconcile from before the deletion creates (`Unowned`). These are what `DeleteDone` and
  `StopFirst` except: the code lets them be made, and nobody comes back for them;
- the data volume of a seed whose migration failed (`LeftToSeed`), the exception of
  `RetainedKept`. Its StatefulSet still owns it, and the pass of the set deletes that
  StatefulSet, so the collector takes the volume although the policy retains it. The
  manager says of a failed migration that the root is "logged and left for its own
  deletion path to re-attribute" (`src/cmd/manager/main.go:101-103`), and the deletion
  path does so for nodes and signers; for the seed `attributeCosmoseedDataVolumes`
  (`chainnodeset/resource_cleanup.go:97-120`) only completes claims that are attributed
  already.

The collector removes one
owner's dependents in one step; children have the policy of their set.

### Snapshots

The VolumeSnapshots of one node, by the instant they were taken. A pass repairs the
node's annotations (`Repaired`) and its phase (`RepairPhase`), moves every listed
snapshot one step on (`MarkReady`, `Record`, `StartCheck`, `Verify`,
`ReplaceCorrupted`, `Expire`), applies `Retain` and `Trim`, and decides on a new one
(`Due`, `StopNode`, `CreateSnapshot`, `Annotate`). The rest of the reconcile appears
as far as snapshots depend on it: `EnsurePod` and `SetNodePhase`. Snapshots are
disabled while syncing and unhealthy (the default), the node is older than the minimum
age for a first snapshot and has a volume and a height, and tarballs are not exported.

### Exports

The other half of the same pass: export records with their phases, upload Jobs,
deletion Jobs with counted attempts and backoff, exports without a snapshot or without
a record, acknowledgement by the operator, pruning. Every handler is an operator from
the cluster `w` to the cluster it leaves and the writes on the way, and a pass may be
cut after any of them. A deletion Job that cannot be created counts as a failed
attempt at once. The spec, its destination and its deletion policy change while
uploads run; credentials are lost and restored.

### S3Upload and GcsUpload

What the Jobs of an export run. An archive is a sequence of bytes read in chunks;
goroutines send them, bounded by a semaphore. On S3 they are parts of multipart
uploads; on GCS they are objects that are composed in rounds. Every request can fail
with or without its effect and the pod can be killed, after which the program runs
again or a deletion starts. Several inputs give archives of one and of several
objects, wrong estimates and chunks that do not divide a part.

## The runs

TLC checks one run per question. Models that answer one question share a run: a
variable `part`, chosen in the initial state, says whose behaviour it is, and the
variables of the others are `Nil` or stay as they started. The properties of such an
MC module are those of the part, under the same names. They do not interact, so this
is the same as checking them one after another.

| Run | Instance | Shows |
| --- | --- | --- |
| `reservation` | two roots, two keys, two generations, one fault | `MutualExclusion`: two roots never sign with one key. `OneKeyPerClaim`: a root never reserves two. `ImplementsOneSigner`: the key changes hands only when nobody signs. `ReleaseAfterTeardown`, `ReservationIsProtected`: the order of teardown and release, and of finalizer and claim |
| `rollouts` | three nodes in two label groups; a plan and a manual upgrade; three generations of a root with two keys | `RollsOneByOne`; and, with fairness, `RolloutCompletes`, `UpgradesAreApplied`, `DeletionCompletes`, `ReplacementSigns` |
| `sets` | a group of up to two, edited twice, with a fault and an eviction; a set with a validator, sentries and five backends | `OneSignerPerKey`, `HistoryKept`, `NoStaleTargets`, `OnlyConversionsRace`; with fairness `DesiredChildrenServe` and `Converges` |
| `signer` | four backends of four kinds (one of them Cloud KMS), two keys, one or three replicas, three starts, three ends, one edit, one fault | `HistoryKept`: no key signs without its history. `MembershipKept`: replicas of one raft keep their number. `ServesProvenVersion`, `ImportsOnce`: what is served was proven, and imported once. `ImplementsService`. With fairness `SignerComesUp` |
| `backups` | four instants and four configurations; six lives of a node with exports; six S3 and several GCS inputs | `OneAtATime`, `AttemptsCounted`, `UploadedIsThere`, `DeletedIsGone`, `NothingLeftBehind`, `KeptIsLeftAlone`, `NothingForgotten`; with fairness `InProgressClears`, `OnlineSnapshotsAreTaken`, `ComesToAnEnd` |
| `nodes` | upgrades at two heights with lost replies; seven specs of a node's data; ten situations of a deletion | `NotBeforeHeight`, `CompletedIsInEffect`, `NoDowngradeAnswered`; `StartsOnGoodData`, `KnowsItsHeight`; `RetainedKept`, `DeleteDone`, `StopFirst` |
| `disruption_budget`, `upgrades_lost_reply`, `node_groups_removed`, `signer_reimport`, `snapshots_stopped`, `snapshots_last` | the smallest that shows it | a counterexample each, see [Findings](#findings) |

### Bounds

Faults are what makes the state spaces large, and one or two of them are enough for
every pair of a crash and a repair: a pass that was cut is followed by passes that
run to their end. A second fault is allowed where the repair can itself be
interrupted (`rollouts`, `nodes`). Two roots suffice for a conflict, and three
generations of one root for a stale claim on a stale claim (`rollouts`). Edits are few
because each one already starts from every state the earlier ones left. The exception is
a signer that goes to another backend and back, which takes two: `signer` has one, and
`signer_reimport` is the run with two. `Reservation`'s and
`Disruption`'s safety, that of `Upgrades`, `OneAtATime`, and `HistoryKept` and
`MembershipKept` of `Signer` do not depend on the bounds: they are proved.

Chunk, part and object limits of the exporter are single digits, with inputs on both
sides of each: one chunk, an exact multiple, one more; an estimate that is too large.
The clock of `Snapshots` has four instants, with a snapshot due at each and a retention
of one instant or one snapshot (`Pruned`), so that taking and removing overlap. The block
height goes to four, volumes have three sizes. The largest runs have 0.6 million
(`signer`, `backups`), 0.9 million (`reservation`) and 1.6 million (`nodes`) states.

`reservation` has two constraints: two roots contend for one key, or one root changes
between two (`OneContention`), and only one of the roots has successors
(`OneSuccessor`). The proofs have neither. Symmetry is used in this run only, where
there is no liveness property.

Deadlock is not checked: every model may come to rest when its bounds are used up and
all work is done. That it does not come to rest too early is what the liveness
properties say.

Every property of a passing run has a mutant in `PROJECT.json`: a plausible fault in
the mapped code under which TLC finds the property violated.

### Fairness

The work queue retries a failed pass and re-queues every object periodically: weak
fairness of the steps of a pass. Watches are re-established: weak fairness of `Sync`.
The kubelet, the garbage collector, the CSI driver and Jobs act: weak fairness of
theirs. In `sets` a pass can always take its next step, so its weak fairness is
written `[]<><<MCPass>>_all`, which TLC evaluates faster; in `backups` the same for
exports is over `ePc` alone. Strong fairness is assumed once, of `FreshReconcile` in
`Reservation`: the cache of a root that is edited over and over is fresh again and
again. Faults, edits and user actions are never fair.

What users do can defeat liveness, so edits, replaced Secrets and forced deletions are
bounded, and the properties name the rest: `StaysSynced` (the node does not fall
behind for ever), `Timely` (a kubelet that kills node-utils leaves it the grace
period).

## Findings

Each is a run in which TLC shows the code to disagree with its documentation.

- `pod.go:976` asks whether the *desired* pod is ready. It never is, so
  `-disruption-max-unavailable` has no effect (`disruption_budget`).
- `pod.go:1065` takes every error of a pod creation for a pod that was not created.
  If only the reply was lost, the next pass starts the old image over upgraded data
  (`upgrades_lost_reply`).
- `chainnodeset/nodes.go:88` removes the children of a deleted group by counting the
  ones that are left from index 0. After an interrupted pass the last ones stay
  (`node_groups_removed`).
- `NextGcpImportStep` (`api/v1/cosmosigner_helper.go:340`) takes an import for complete
  when its record matches the target and the recorded version is of that key. After a
  change to another Cloud KMS key and back, the record is still the one of the first
  import, while the version is from a second import into the first key and not
  verified yet: the next pass deploys the signer with a version that was never read
  back (`signer_reimport`).
- `snapshots.go:721` asks the pod for its height after having deleted it, so with
  `stopNode` no snapshot is taken, and the node restarts in every pass
  (`snapshots_stopped`).
- `snapshots.go:329` compares the length of the list the pass started from with 1.
  When several snapshots have expired by one pass it deletes all of them, although
  `preserveLastSnapshot` promises that one is kept (`snapshots_last`).

## The proofs

TLAPS checks the proofs for every value of the constants. The assumptions are the
named `ASSUME`s of the modules (bounds are natural numbers, sets are of the kind one
expects) and, for one theorem, `Roomy`.

**Reservation** (`ReservationProofs`). Type correctness, mutual exclusion, one key per
claim and the two action properties follow from one inductive invariant, `IInv`. Mutual
exclusion alone is not inductive, for three reasons, each of which is a conjunct:

- a pass acts on what it established earlier, so `Established` says, step by step,
  what still holds of the copy it works from: that the reservation is its own from
  `confirm` on, that no path of the stale owner was left at `recover`, that the root
  is protected before `create`;
- a path may be signing without a reservation: `UnreservedIsLegacy` says that it then
  belongs to a root of an older release that records its key, which is what
  `ensureNoLegacyConsensusKeyOwner` looks for;
- a reservation may exist without a path: `NoForeignReservation` says that it is not
  one for a key that somebody else signs with.

`GenerationsCreated` makes UIDs fresh. Most step lemmas go through `Frame` and its
corollaries: a step that only moves the `pc` of one root, or only removes workloads,
keeps whatever is not mentioned.

The same module shows the refinement, `Spec => ImplementsOneSigner`: initial states map
to initial states, and every step under `IInv` maps to a step of `OneSigner` or leaves
`signers` alone.

**Signer** (`SignerLemmas`: the calls and the steps of the controller, `SignerCluster`:
users, faults and Kubernetes, `SignerProofs`: the initial states, the theorems and the
refinement). Type correctness, `HistoryKept`, `MembershipKept` and `ImplementsService`,
for any number of replicas, backends, keys, shapes, edits and faults. None is inductive,
since whether a claim survives depends on finalizers, on the StatefulSet that owns it and
on the pass under way. `IInv` adds:

- `OneMembership`: the claims there are, the StatefulSet and the recorded lock agree on
  the shape, except where the status was lost; and every pod has a claim of its own;
- `Guarded`: a claim without its finalizer is one that was given up on purpose, or one
  of an earlier release whose StatefulSet is not protected yet, and then no pass is
  under way. `Prepare` protects before anything else happens, which is why a pass never
  meets such a claim;
- `Remembered`: a pod that is ready has its key in its claim, and keys served and not
  given up are in some claim. Where a namespace is deleted, claims vanish in any order,
  so there it is about each pod that is left;
- `StoppedForReset`: claims are reset when nothing runs on them, although the phase was
  read from a status that a refused write may have left behind;
- `WorksUnderLock`, `SameKey`, `NothingGivenUp`: after the lock was checked a pass works
  with the locked shape; a validator keeps its key, so no migration of a validator gives
  a history up. Before that, in the steps `Unplanned`, a pass has not looked at the lock
  yet or is removing the signer; it then clears the status only when no objects are left
  that it describes, even if the node was edited since.

Most steps change the objects only in ways that keep every claim, its guard and its
owner (`Calm`), and go through one lemma, `CalmStep`; the others are the deletions,
where `OnPurpose` accounts for what is given up.

The refinement, `Spec => ImplementsService`, needs to know in addition which key the
objects are of. `OneKey` (theorem `OneKeyAtATime`) says it at three strengths: the
StatefulSet and the pods are of key `x` (`Pinned`); so is what a claim without a guard
remembers (`Bound`), since Kubernetes may remove that claim at any moment; so is what
every claim remembers (`Sole`). Its conjuncts follow the code's reasons:

- a validator's objects are `Sole` for its one key;
- as long as there is a StatefulSet or a pod, the objects are `Bound` to some key;
- they are `Pinned` to the key that the status records as applied, and from the phase
  `recreating` on to the key that the migration leads to. Where the migration resets the
  state they are `Sole` for it: no claim of the old key is left;
- once a pass has passed its migration step, it works with the key they are `Pinned` to,
  although spec and Secret may have been edited since it read them. A StatefulSet is only
  applied when the claims it will bind are `Bound` to that key, or guarded
  (`ApplyIsBound`), and the key expected of a signer that nothing is recorded of is the
  one it is bound to (`ExpectedIsBound`).

Most steps are `Ordinary`: they leave key and histories alone, and map to a stop, a start
or a stutter (`PeacefulStep`). A pod that begins to serve maps to `Start` or a stutter. A
claim that goes maps to `Forget` when nothing can sign; otherwise its history is that of
the key in service at most, which the claim of the signing pod still holds, so the step
is a stutter (`RemoveClaimIs`).

**NodeGroups** (`NodeGroupsProofs`). Type correctness and `OnlyConversionsRace`, for any
number and size of groups, edits, lags and faults. A deletion is worked out some calls
before it is made, so the property is not inductive: `IInv` says that every call of `todo`
is `Justified` by the spec and the list of the pass. The list is taken again only by the
call "nodes"; `IInv` has it last in `todo`, so no call waits whose reason it replaces.
That removals stay within the names of the group, although they count children instead of
looking at their indices, follows from a bound on the number of children
(`MembersBound`).

**Disruption** (`DisruptionProofs`). Type correctness, and that pods of one label
group restart one at a time. The invariant says that a worker asks for its own lock
(`WantsOwn`) and holds it while its pod is down (`HoldsWhileDown`). It needs `Roomy`:
the lock manager has room for all label sets. At its capacity it hands out locks of
others, and two nodes of one group may get different ones.

**Upgrades** (`UpgradesProofs`). Type correctness; no image before its height; a
completed upgrade is in effect; no downgrade as long as replies arrive. The heights
alone need `InOrder`: nobody is ahead of the chain, node-utils is never behind what the
reconcile knows, and no image is ahead of that. A completed upgrade stays because what
a pass wants was computed from a status that cannot lose it before the pod is created
(`CompletedStays`, `MergesKeep`). For downgrades `RanStays` adds that every image that
ran belongs to an upgrade that was begun, so that the one taken back after a failure
(`PerformsOngoing`) is one that did not run yet: exactly what a lost reply breaks.

**Snapshots** (`SnapshotsProofs`). Type correctness and `OneAtATime`. The invariant
counts: `Owed`, the snapshots in progress and the failed checks not acted on yet, is
within one of the stale lists and the corrupted snapshots so far, and strictly within
them at every step where the pass is about to take a snapshot (`Budget`). It needs that
the annotation a pass decides by is the one of its own list (`WorksFromList`).
`MinIsLeast` and `MaxIsGreatest` are the facts about least and greatest elements that
this needs; `UpgradesProofs` has its own.

Only model-checked: all liveness properties, since TLAPS does not reason about fairness
or `ENABLED`; `ServesProvenVersion` and `ImportsOnce` of `Signer`, which do not hold for
every value of the constants (with two Cloud KMS keys the first fails, see
`signer_reimport`, and a second import after a change of key and back is what the code
intends); and the safety of `SetSigner`, `NodeData`, `Cleanup`, `Exports`, `S3Upload` and
`GcsUpload`. Type invariants of the modules without
proofs are documentation; no run has them as a property.

## Further observations

Met while modelling, and not the subject of a run. Paths without a directory are in
`src/internal/controllers/chainnode`.

- A conversion to a validator group picks the children to remove from a list in which
  the one just converted may still look regular, and deletes it
  (`chainnodeset/nodes.go:110`); it is created again later. `OnlyConversionsRace` says
  that nothing else is deleted by mistake.

- A genesis that is downloaded onto the volume is marked as there before the chain ID
  is stored (`genesis.go:157-164`, `258-262`). A crash between the two writes leaves the
  chain ID empty.
- A corrupted snapshot whose deletion fails stays marked as corrupted and is not
  replaced (`snapshots.go:262`). Count-based retention may remove the last snapshot that
  is ready while a newer one is still in progress.
- A finished export that is not deleted on expiry is forgotten, and its tarball
  removed, when the snapshot is retired while the upload Job is terminating
  (`snapshots.go:437-470`). An upload with policy `retain` that succeeds after its
  deletion started is refused by `finishTarballExport` in every pass
  (`snapshot_exports.go:245`).
- The claim of a sentry is named after its backend's identity, so it cannot move to
  another backend that holds the same key (`cosmosigner.go:577`). One whose placement and
  targets change in one edit starts without history. A signer that keeps its name and
  loses the validator among its targets keeps its objects.
- The branch of `ensureCosmosignerWithParams` for a pending import
  (`cosmosigner.go:366-373`) is never taken for a standalone node: the call before it has
  ended the pass.
- An upload to S3 that is killed leaves an open multipart upload. On GCS a failed
  deletion of intermediate objects is only logged, and a second error of another type
  panics (`pkg/dataexporter/gcs.go:183`).
- A lock manager at its capacity hands out locks of other labels, see `Roomy`.
- A seed volume can be lost after a failed migration, see [Cleanup](#cleanup).
- An additional volume whose size is reduced blocks every pass. A lost account Secret
  is not created again.

## What is left out

- In `Reservation`, roots that are ChainNodeSets (`SetSigner` has their reservations),
  two managers at once, a terminating namespace, and a Secret that changes between its
  reservation and the start of the pod.
- `HistoryKept` promises a validator its history while the status is not lost (`lost`).
- In `NodeData`, an init pod that succeeded for an earlier volume of the same name is
  taken for one of the new volume, as in the code (`pvc.go:49`); `StartsOnGoodData` leaves
  such volumes out (`Known`).
- In `SetSigner` and `NodeGroups`, the wait for a first validator; in `SetSigner`, the
  order among the nodes of one group.
- In `Cleanup`, pods the cache does not show yet: it reads them as they are.
- Vertical autoscaling, the rendering of configurations, services, ingress and gateway
  objects, disruption budgets, cosmoguard, cosmoseed beyond its cleanup, the copying of
  genesis and upgrades by a set, the TCP proxy, chain utilities and the
  vault-token-renewer: they compute objects from the spec and keep no state between
  passes, or do I/O only. Webhooks appear as the edits they admit. The reasons, part by
  part, are in the component notes of `PROJECT.json`; the abstractions of a module are in
  its header.
