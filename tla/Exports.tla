------------------------------ MODULE Exports ------------------------------
(***************************************************************************)
(* The tarball exports of a ChainNode's volume snapshots: the export half   *)
(* of ensureVolumeSnapshots (chainnode/snapshots.go), the export records of *)
(* chainnode/snapshot_exports.go and the upload and deletion Jobs of        *)
(* datasnapshot (snapshot.go, gcs.go, s3.go).                               *)
(*                                                                          *)
(* A pass of the controller acknowledges, drives the pending deletions,     *)
(* walks the snapshots oldest first, applies the retain count, prunes the   *)
(* records, and adopts the Jobs no snapshot accounts for.  Every handler is *)
(* a function from the cluster to the cluster it leaves and the writes it   *)
(* made on the way: an error, a conflict or a restart may cut the pass      *)
(* after any of them.                                                       *)
(***************************************************************************)
EXTENDS Naturals, Sequences, FiniteSets

CONSTANTS
    Snaps,        \* the volume snapshots, 1..n, oldest first
    Dests,        \* upload destinations, each of its own provider
    Policies,     \* the values deleteOnExpire takes
    Plans,        \* the lives of a node: retain or None, life ("fresh" or "legacy"),
                  \* snaps, and how often the spec changes (edits), something fails
                  \* (faults), credentials are lost (losses)
    MaxExports,   \* tarballExportMaxAttempts
    MaxDeletes,   \* tarballDeleteMaxAttempts
    None,         \* no object, no record, no destination
    Unknown       \* the destination of an export without a record

VARIABLES
    w,        \* the cluster: snapshots, export records, upload and deletion Jobs
    cfg,      \* the export configuration in the spec
    seen,     \* the configuration this pass works with
    pc,       \* the stage of the pass and the snapshot it is at
    names,    \* the object names the pass collected
    blind,    \* the pass met an export it knows nothing of
    listed,   \* the snapshots the pass listed last
    ack,      \* snapshots whose export the operator acknowledges
    refs,     \* destinations whose credentials exist
    store,    \* the tarballs in the buckets: pairs of destination and snapshot
    runs,     \* bounded deletion Jobs created for the current record
    kept,     \* snapshots whose finished export is to outlive them
    waived,   \* exports whose cleanup the operator took over
    left      \* snapshots, edits, failures and losses still to come

pass   == <<seen, pc, names, blind, listed>>
world  == <<refs, store, runs, kept, waived>>
vars   == <<w, cfg, ack, pass, world, left>>

\* What a handler leaves, what it answers, and the states between its writes.
Returns(x, res) == [w |-> x, res |-> res, log |-> << >>]

Wrote(x, res) == [w |-> x, res |-> res, log |-> <<x>>]

Then(r, Op(_, _)) ==
    IF r.res = "error" THEN r
    ELSE LET next == Op(r.w, r.res) IN [next EXCEPT !.log = r.log \o @]

-----------------------------------------------------------------------------
(* The records of ChainNode.status.snapshotExports.                         *)

NewSnapshotExportStatus(c) ==
    [dest |-> c.dest, phase |-> "Uploading", del |-> c.del,
     tries |-> 0, retry |-> "none", spent |-> FALSE]

UnknownSnapshotExport(c) ==
    [dest |-> Unknown, phase |-> "CleanupRequired", del |-> (c.dest # None => c.del),
     tries |-> 0, retry |-> "none", spent |-> FALSE]

\* The record found by its object name, which an unknown export does not have.
ByObjectName(x, s) ==
    IF x.exp[s] # None /\ x.exp[s].dest # Unknown THEN x.exp[s] ELSE None

SnapshotExportUploading(x, s) ==
    x.exp[s] # None /\ x.exp[s].phase = "Uploading" /\ x.exp[s].dest # Unknown

Ended(e) == e.phase \in {"Deleted", "Acknowledged"}

PreAttemptCleanup(e) ==
    e # None /\ e.phase = "CleanupRequired" /\ e.tries = 0 /\ ~e.spent

TransitionAllowed(from, to) ==
    to \in CASE from = "Uploading" -> {"Uploaded", "Deleting", "CleanupRequired", "Deleted"}
             [] from = "Uploaded" -> {"Deleting", "CleanupRequired", "Deleted"}
             [] from = "Deleting" -> {"CleanupRequired", "Deleted"}
             [] from = "CleanupRequired" -> {"Deleting", "Deleted", "Acknowledged"}
             [] OTHER -> {}

SetSnapshotExportPhase(x, s, to) ==
    CASE x.exp[s] = None -> Returns(x, "ok")
      [] x.exp[s] # None /\ x.exp[s].phase = to -> Returns(x, "ok")
      [] x.exp[s] # None /\ TransitionAllowed(x.exp[s].phase, to) ->
            Wrote([x EXCEPT !.exp[s].phase = to], "ok")
      [] OTHER -> Returns(x, "error")

RemoveSnapshotExport(x, s) ==
    IF x.exp[s] = None THEN Returns(x, "ok") ELSE Wrote([x EXCEPT !.exp[s] = None], "ok")

\* A variant that leaves the counting to the failure.
StartUncounted(x, s) ==
    IF x.exp[s].spent \/ x.exp[s].retry = "wait" THEN Returns(x, "no")
    ELSE Wrote([x EXCEPT !.exp[s] = [@ EXCEPT !.retry = "none", !.phase = "Deleting"]], "yes")

\* The attempt is counted before its Job exists.
StartDeleteAttempt(x, s) ==
    LET e == x.exp[s]
    IN  CASE e.spent \/ e.tries >= MaxDeletes \/ (e.tries > 0 /\ e.retry # "due") ->
                Returns(x, "no")
          [] ~e.spent /\ e.tries = 0 /\ e.phase # "Deleting"
             /\ ~TransitionAllowed(e.phase, "Deleting") -> Returns(x, "error")
          [] OTHER -> Wrote([x EXCEPT !.exp[s] = [e EXCEPT !.tries = @ + 1, !.retry = "none",
                                                           !.phase = "Deleting"]], "yes")

ResumeDeleteAttempt(x, s) ==
    IF x.exp[s].phase = "CleanupRequired" /\ x.exp[s].tries > 0 /\ ~x.exp[s].spent
    THEN Wrote([x EXCEPT !.exp[s].phase = "Deleting"], "ok")
    ELSE Returns(x, "ok")

\* A failure counts once: the next retry, or exhaustion, marks it as counted.
RecordDeleteFailure(x, s) ==
    LET e     == x.exp[s]
        tries == IF e.tries = 0 THEN 1 ELSE e.tries
    IN  CASE e.spent \/ e.retry # "none" -> Returns(x, "ok")
          [] ~e.spent /\ e.retry = "none" /\ tries >= MaxDeletes ->
                Wrote([x EXCEPT !.exp[s] = [e EXCEPT !.tries = tries, !.spent = TRUE,
                                                     !.phase = "CleanupRequired"]], "ok")
          [] OTHER -> Wrote([x EXCEPT !.exp[s] = [e EXCEPT !.tries = tries, !.retry = "wait",
                                                           !.phase = "Deleting"]], "ok")

\* Without its credentials a deletion is reported, not attempted.
ReferencesAvailable(x, s) ==
    IF x.exp[s].dest \in refs THEN Returns(x, "yes")
    ELSE Then(SetSnapshotExportPhase(x, s, "CleanupRequired"), LAMBDA y, v : Returns(y, "no"))

-----------------------------------------------------------------------------
(* The upload and deletion Jobs of datasnapshot.                            *)

\* Deleted in the foreground: the Job stays until its claim and pods are gone.
DeleteUploadJob(x, s) ==
    IF x.up[s] = None \/ x.up[s].going THEN Returns(x, "ok")
    ELSE Wrote([x EXCEPT !.up[s].going = TRUE], "ok")

DeleteDeletionJob(x, s, res) == Wrote([x EXCEPT !.del[s].going = TRUE], res)

\* A deletion Job paired with an upload knows it by UID: a later upload of the
\* same name is a stranger to it.
Unpaired(d) ==
    IF d # None /\ d.pair = "yes" THEN [d EXCEPT !.pair = "other"] ELSE d

CreateSnapshot(x, s, dest) ==
    CASE x.up[s] = None ->
            Wrote([x EXCEPT !.up[s] = [dest |-> dest, st |-> "active", going |-> FALSE],
                            !.del[s] = Unpaired(@)], "ok")
      [] x.up[s] # None /\ x.up[s].going -> Returns(x, "error")
      [] x.up[s] # None /\ ~x.up[s].going /\ x.up[s].dest # dest ->
            Then(DeleteUploadJob(x, s), LAMBDA y, v : Returns(y, "error"))
      [] OTHER -> Returns(x, "ok")

\* A Job of another destination is replaced, never read.
GetSnapshotStatus(x, s, dest) ==
    CASE x.up[s] = None -> Returns(x, "notfound")
      [] x.up[s] # None /\ x.up[s].dest = dest -> Returns(x, x.up[s].st)
      [] x.up[s] # None /\ x.up[s].dest # dest /\ x.up[s].going -> Returns(x, "error")
      [] OTHER -> Then(DeleteUploadJob(x, s), LAMBDA y, v : Returns(y, "stale"))

\* The upload a listed deletion Job is grouped with.
Listed(x, s) ==
    x.del[s].pair # "no" \/ (x.up[s] # None /\ x.up[s].dest = x.del[s].dest)

\* An unpaired Job grouped with an upload is paired and suspended; a finished
\* one gets a suspended successor.
Pair(x, s) ==
    IF x.del[s].pair = "no" /\ Listed(x, s)
    THEN Wrote([x EXCEPT !.del[s] = [@ EXCEPT !.pair = "yes", !.held = TRUE, !.st = "active"]], "ok")
    ELSE Returns(x, "ok")

\* A suspended deletion removes the upload and runs only once it is gone.
PairedStatus(x, s) ==
    CASE x.del[s].pair = "no" -> Returns(x, x.del[s].st)
      [] x.del[s].pair = "other" /\ x.up[s] # None -> Returns(x, "error")
      [] ~x.del[s].held /\ x.del[s].pair = "yes" /\ x.up[s] # None -> Returns(x, "error")
      [] x.del[s].pair # "no" /\ ~x.del[s].held /\ x.up[s] = None -> Returns(x, x.del[s].st)
      [] x.del[s].pair = "yes" /\ x.del[s].held /\ x.up[s] # None ->
            Then(DeleteUploadJob(x, s), LAMBDA y, v : Returns(y, "active"))
      [] OTHER -> Wrote([x EXCEPT !.del[s].held = FALSE], "active")

ReconcileSnapshotDeletionJob(x, s) ==
    CASE x.del[s] = None -> Returns(x, "notfound")
      [] x.del[s] # None /\ x.del[s].going -> Returns(x, "error")
      [] OTHER -> Then(Pair(x, s), LAMBDA y, v : PairedStatus(y, s))

\* A variant that takes a missing Job for a finished one.
MissingIsDeleted(x, s) ==
    IF x.del[s] = None THEN Returns(x, "succeeded") ELSE PairedStatus(x, s)

\* The status of the deletion an export asks for: bounded, at its destination.
GetSnapshotDeletionStatus(x, s) ==
    LET d == x.del[s]
    IN  CASE d = None -> Returns(x, "notfound")
          [] d # None /\ d.going -> Returns(x, "error")
          [] d # None /\ ~d.going /\ ~(d.bounded /\ d.dest = x.exp[s].dest) ->
                DeleteDeletionJob(x, s, "error")
          [] OTHER -> PairedStatus(x, s)

DeleteSnapshotBounded(x, s) ==
    Then(Wrote([x EXCEPT !.del[s] = [dest |-> x.exp[s].dest, st |-> "active", bounded |-> TRUE,
                                     pair |-> "no", held |-> FALSE, going |-> FALSE]], "ok"),
         LAMBDA y, v : Then(DeleteUploadJob(y, s), LAMBDA z, u : Returns(z, "active")))

\* The deletion of an upload nobody accounts for waits for the upload to go.
DeleteSnapshotForUpload(x, s) ==
    Then(Wrote([x EXCEPT !.del[s] = [dest |-> x.up[s].dest, st |-> "active", bounded |-> FALSE,
                                     pair |-> "yes", held |-> TRUE, going |-> FALSE]], "ok"),
         LAMBDA y, v : ReconcileSnapshotDeletionJob(y, s))

CleanupSnapshotDeletionJob(x, s) ==
    CASE x.del[s] = None -> Returns(x, "ok")
      [] x.del[s] # None /\ x.del[s].going -> Returns(x, "error")
      [] OTHER -> DeleteDeletionJob(x, s, "ok")

\* The Job of a finished deletion stays until the upload it is paired with went.
CleanupSnapshotDeletionResources(x, s) ==
    CASE x.del[s] = None \/ ~Listed(x, s) -> CleanupSnapshotDeletionJob(x, s)
      [] x.del[s] # None /\ Listed(x, s) /\ x.del[s].going -> Returns(x, "error")
      [] OTHER ->
            Then(Pair(x, s), LAMBDA y, v :
                CASE y.del[s].held \/ (y.del[s].pair = "other" /\ y.up[s] # None) -> Returns(y, "error")
                  [] ~y.del[s].held /\ y.del[s].pair = "yes" /\ y.up[s] # None ->
                        DeleteUploadJob(y, s)
                  [] OTHER -> DeleteDeletionJob(y, s, "ok"))

-----------------------------------------------------------------------------
(* Exporting a snapshot.                                                    *)

Annotate(x, s, value) == Wrote([x EXCEPT !.snap[s].exporting = value], "ok")

\* The record is persisted before the Job, the Job before the annotation.
ExportTarball(x, s) ==
    LET record == CASE x.exp[s] # None -> Returns(x, "ok")
                    [] x.exp[s] = None /\ cfg.dest # None ->
                          Wrote([x EXCEPT !.exp[s] = NewSnapshotExportStatus(cfg)], "ok")
                    [] OTHER -> Returns(x, "error")
        upload(y, v) == IF y.exp[s].dest = Unknown THEN Returns(y, "error")
                        ELSE CreateSnapshot(y, s, y.exp[s].dest)
    IN  Then(Then(record, upload), LAMBDA y, v : Annotate(y, s, "true"))

RecordTarballExportFailure(x, s) ==
    LET tries == x.snap[s].tries + 1
    IN  Wrote([x EXCEPT !.snap[s] = [@ EXCEPT !.tries = tries,
                                     !.exporting = IF tries < MaxExports THEN "no" ELSE "failed"]], "ok")

ResetTarballExport(x, s) ==
    Wrote([x EXCEPT !.snap[s] = [@ EXCEPT !.exporting = "no", !.tries = 0]], "error")

\* The upload is recorded before its Job is removed, so it is never repeated.
FinishTarballExport(x, s) ==
    LET uploaded == IF x.snap[s].exporting = "uploaded" THEN Returns(x, "ok")
                    ELSE Wrote([x EXCEPT !.snap[s] = [@ EXCEPT !.exporting = "uploaded", !.tries = 0]], "ok")
        phase(y, v)   == SetSnapshotExportPhase(y, s, "Uploaded")
        cleanUp(y, v) == IF y.exp[s] # None /\ y.exp[s].dest = Unknown THEN Returns(y, "error")
                         ELSE DeleteUploadJob(y, s)
    IN  Then(Then(Then(uploaded, phase), cleanUp), LAMBDA y, v : Annotate(y, s, "finished"))

EnsureUnknown(x, s) ==
    IF x.exp[s] # None THEN Returns(x, "ok")
    ELSE Wrote([x EXCEPT !.exp[s] = UnknownSnapshotExport(seen)], "ok")

CheckTarball(x, s) ==
    LET failed(y) == Then(DeleteUploadJob(y, s), LAMBDA z, v : RecordTarballExportFailure(z, s))
        known(y)  == Then(GetSnapshotStatus(y, s, y.exp[s].dest), LAMBDA z, st :
                        CASE st = "stale" -> ResetTarballExport(z, s)
                          [] st \in {"notfound", "failed"} -> failed(z)
                          [] st = "succeeded" -> FinishTarballExport(z, s)
                          [] OTHER -> Returns(z, "ok"))
    IN  Then(EnsureUnknown(x, s), LAMBDA y, v :
            CASE y.exp[s].dest # Unknown -> known(y)
              [] y.exp[s].dest = Unknown /\ y.exp[s].phase = "Acknowledged" ->
                    Wrote([y EXCEPT !.snap[s] = [@ EXCEPT !.exporting = "finished", !.tries = 0]], "ok")
              [] OTHER -> Returns(y, "ok"))

-----------------------------------------------------------------------------
(* Deleting a tarball.                                                      *)

\* A Job that cannot be created, or an upload Job that cannot be removed then, is
\* recorded as a failure in the same pass, which the error ends.
OrRefused(r, x, s) ==
    [r EXCEPT !.log = <<RecordDeleteFailure(x, s).w, RecordDeleteFailure(@[1], s).w>> \o @]

ReconcileSnapshotExportDeletion(x, s) ==
    LET start(y) == IF y.exp[s].tries = 0 THEN StartDeleteAttempt(y, s) ELSE ResumeDeleteAttempt(y, s)
        active(y) == Then(ReferencesAvailable(y, s), LAMBDA z, ok :
                        IF ok = "no" THEN Returns(z, "active")
                        ELSE Then(start(z), LAMBDA u, v : Returns(u, "active")))
        counted(y) == IF y.exp[s].tries = 0 THEN StartDeleteAttempt(y, s) ELSE Returns(y, "ok")
        failed(y) == Then(Then(Then(counted(y), LAMBDA z, v : RecordDeleteFailure(z, s)),
                               LAMBDA z, v : CleanupSnapshotDeletionJob(z, s)),
                          LAMBDA z, v : Returns(z, "failed"))
        create(y) == Then(StartDeleteAttempt(y, s), LAMBDA z, started :
                        IF started = "no" THEN Returns(z, "active")
                        ELSE OrRefused(DeleteSnapshotBounded(z, s), z, s))
        missing(y) ==
            IF y.exp[s].tries > 0 /\ y.exp[s].retry = "none"
            THEN Then(RecordDeleteFailure(y, s), LAMBDA z, v : Returns(z, "failed"))
            ELSE Then(ReferencesAvailable(y, s), LAMBDA z, ok :
                    IF ok = "no" \/ z.exp[s].retry = "wait" THEN Returns(z, "active") ELSE create(z))
    IN  CASE x.exp[s].dest = Unknown -> Returns(x, "error")
          [] x.exp[s].dest # Unknown /\ x.exp[s].spent ->
                Then(CleanupSnapshotDeletionJob(x, s), LAMBDA y, v : Returns(y, "failed"))
          [] OTHER ->
                Then(GetSnapshotDeletionStatus(x, s), LAMBDA y, st :
                    CASE st = "active" -> active(y)
                      [] st = "failed" -> failed(y)
                      [] st = "notfound" -> missing(y)
                      [] OTHER -> Returns(y, st))

\* The proof goes on the snapshot first, then into the record.
PersistDeletionSuccess(x, s) ==
    LET proof == IF x.snap[s] = None \/ x.snap[s].proof THEN Returns(x, "ok")
                 ELSE Wrote([x EXCEPT !.snap[s].proof = TRUE], "ok")
    IN  Then(proof, LAMBDA y, v :
            CASE ByObjectName(y, s) = None -> Returns(y, "ok")
              [] ByObjectName(y, s) # None /\ (y.snap[s] = None \/ y.exp[s].phase = "Acknowledged") ->
                    RemoveSnapshotExport(y, s)
              [] OTHER -> SetSnapshotExportPhase(y, s, "Deleted"))

PendingTarballDeletion(x, s) ==
    LET e      == ByObjectName(x, s)
        driven == e # None /\ ~Ended(e)
        status == CASE x.del[s] # None /\ ~driven -> ReconcileSnapshotDeletionJob(x, s)
                    [] x.del[s] # None /\ driven -> ReconcileSnapshotExportDeletion(x, s)
                    [] x.del[s] = None /\ driven
                       /\ (e.phase = "Deleting" \/ (e.phase = "CleanupRequired" /\ ~e.spent)) ->
                          ReconcileSnapshotExportDeletion(x, s)
                    [] OTHER -> Returns(x, "ok")
    IN  Then(status, LAMBDA y, st :
            IF st # "succeeded" THEN Returns(y, "ok")
            ELSE Then(PersistDeletionSuccess(y, s), LAMBDA z, v : CleanupSnapshotDeletionResources(z, s)))

\* A variant that asks the spec of today.
ShouldDeleteToday(x, s) == seen.dest # None /\ seen.del

ShouldDeleteTarballOnExpire(x, s) ==
    IF x.exp[s] # None THEN x.exp[s].del ELSE seen.dest # None /\ seen.del

IsTarballDeleted(x, s) ==
    LET proven(y) == Then(SetSnapshotExportPhase(y, s, "Deleted"), LAMBDA z, v : Returns(z, "yes"))
        remote(y) == Then(ReconcileSnapshotExportDeletion(y, s), LAMBDA z, st :
                        CASE st = "active" /\ PreAttemptCleanup(z.exp[s]) -> Returns(z, "yes")
                          [] st = "succeeded" ->
                                Then(Wrote([z EXCEPT !.snap[s].proof = TRUE], "ok"),
                                     LAMBDA u, v : proven(u))
                          [] OTHER -> Returns(z, "no"))
    IN  IF x.exp[s] = None /\ x.snap[s].proof THEN Returns(x, "yes")
        ELSE Then(EnsureUnknown(x, s), LAMBDA y, v :
                CASE Ended(y.exp[s]) -> Returns(y, "yes")
                  [] ~Ended(y.exp[s]) /\ y.exp[s].spent ->
                        Then(ReconcileSnapshotExportDeletion(y, s), LAMBDA z, u : Returns(z, "no"))
                  [] ~Ended(y.exp[s]) /\ ~y.exp[s].spent /\ y.exp[s].dest = Unknown -> Returns(y, "no")
                  [] ~Ended(y.exp[s]) /\ ~y.exp[s].spent /\ y.exp[s].dest # Unknown /\ y.snap[s].proof ->
                        proven(y)
                  [] OTHER -> remote(y))

CleanUpTarballDeletion(x, s) ==
    LET e == x.exp[s]
    IN  CASE e = None -> CleanupSnapshotDeletionJob(x, s)
          [] PreAttemptCleanup(e) -> Returns(x, "ok")
          [] e # None /\ ~PreAttemptCleanup(e) /\ e.dest = Unknown ->
                IF e.phase = "Acknowledged" THEN RemoveSnapshotExport(x, s) ELSE Returns(x, "error")
          [] OTHER -> Then(CleanupSnapshotDeletionJob(x, s), LAMBDA y, v : RemoveSnapshotExport(y, s))

\* Deleting a VolumeSnapshot: a CSI finalizer may keep it for a while.
DeleteVolumeSnapshot(x, s, lingers) ==
    Wrote([x EXCEPT !.snap[s] = IF lingers THEN [@ EXCEPT !.going = TRUE] ELSE None], "ok")

\* A snapshot leaves after its tarball, unless the tarball is to be kept.
RetireSnapshot(x, s, lingers) ==
    LET delete   == ShouldDeleteTarballOnExpire(x, s)
        gone     == IF delete THEN IsTarballDeleted(x, s) ELSE Returns(x, "yes")
        after(y) == CASE delete -> CleanUpTarballDeletion(y, s)
                      [] ~delete /\ y.snap[s] = None -> RemoveSnapshotExport(y, s)
                      [] OTHER -> Returns(y, "ok")
    IN  Then(gone, LAMBDA y, ok :
            IF ok = "no" THEN Returns(y, "ok")
            ELSE Then(DeleteVolumeSnapshot(y, s, lingers), LAMBDA z, v : after(z)))

\* One case of the loop over the snapshots, oldest first.
SnapshotStep(x, s, lingers) ==
    LET sn == x.snap[s]
    IN  CASE (seen.dest # None \/ SnapshotExportUploading(x, s)) /\ sn.exporting = "no" ->
                ExportTarball(x, s)
          [] sn.exporting = "true" -> CheckTarball(x, s)
          [] (seen.dest # None \/ x.exp[s] # None) /\ sn.exporting = "uploaded" ->
                FinishTarballExport(x, s)
          [] OTHER -> IF sn.old THEN RetireSnapshot(x, s, lingers) ELSE Returns(x, "ok")

\* A variant that keeps only the records of live snapshots.
PruneAll(x) == Wrote([x EXCEPT !.exp = [s \in Snaps |-> IF s \in listed THEN @[s] ELSE None]], "ok")

PruneRetained(x) ==
    LET stays(s) == x.exp[s] # None /\ (s \in listed \/ (x.exp[s].del /\ ~Ended(x.exp[s])))
        pruned   == [x EXCEPT !.exp = [s \in Snaps |-> IF stays(s) THEN x.exp[s] ELSE None]]
    IN  IF pruned = x THEN Returns(x, "ok") ELSE Wrote(pruned, "ok")

\* A Job whose snapshot is gone.
ReconcileOrphan(x, s) ==
    LET status == IF x.del[s] # None THEN ReconcileSnapshotDeletionJob(x, s)
                                     ELSE DeleteSnapshotForUpload(x, s)
    IN  Then(status, LAMBDA y, st :
            IF st = "succeeded" THEN CleanupSnapshotDeletionResources(y, s) ELSE Returns(y, "ok"))

Acknowledge(x) ==
    LET done == [x EXCEPT !.exp = [s \in Snaps |->
                    IF s \in ack /\ x.exp[s] # None /\ x.exp[s].phase = "CleanupRequired"
                    THEN [x.exp[s] EXCEPT !.phase = "Acknowledged"] ELSE x.exp[s]]]
    IN  IF done = x THEN Returns(x, "ok") ELSE Wrote(done, "ok")

CompleteAcknowledged(x, s) ==
    IF x.exp[s] = None \/ x.exp[s].phase # "Acknowledged" THEN Returns(x, "ok")
    ELSE Then(IF x.exp[s].dest = Unknown THEN Returns(x, "ok") ELSE CleanupSnapshotDeletionJob(x, s),
              LAMBDA y, v : RemoveSnapshotExport(y, s))

-----------------------------------------------------------------------------
(* The pass.                                                                *)

Idle == <<"idle", 0>>

First == 1

\* The next snapshot of a stage, or the stage after it.
Onward(stage, s, next) == IF s + 1 \in Snaps THEN <<stage, s + 1>> ELSE next

Finished(x, s) ==
    /\ x.snap[s] # None /\ x.snap[s].exporting = "finished"
    /\ ByObjectName(x, s) # None

Fault == left.faults > 0 /\ left' = [left EXCEPT !.faults = @ - 1]

\* The pass is over: the next one reads the spec and lists again.
Over ==
    /\ pc' = Idle /\ seen' = cfg
    /\ names' = {} /\ blind' = FALSE /\ listed' = {}

Goes(next) ==
    \/ next = Idle /\ Over
    \/ /\ next # Idle
       /\ pc' = next
       /\ listed' = IF next \in {<<"each", First>>, <<"retain", First>>}
                    THEN {s \in Snaps : w'.snap[s] # None} ELSE listed
       /\ UNCHANGED seen

\* A handler ran to its end, or the pass was cut after one of its writes.
Runs(r, s, next) ==
    /\ \/ /\ w' = r.w
          /\ IF r.res = "error" THEN Over ELSE Goes(next)
          /\ UNCHANGED left
       \/ /\ \E i \in 1..(Len(r.log) - 1) : w' = r.log[i]
          /\ Over
          /\ Fault
    /\ runs' = [runs EXCEPT ![s] =
            CASE w'.exp[s] = None -> 0
              [] w'.exp[s] # None /\ w.del[s] = None /\ w'.del[s] # None /\ w'.del[s].bounded -> @ + 1
              [] OTHER -> @]
    /\ kept' = IF Finished(w', s) /\ ~w'.exp[s].del THEN kept \cup {s} ELSE kept
    /\ UNCHANGED <<cfg, ack, refs, store, waived>>

Skips(next) == UNCHANGED <<w, cfg, ack, world, left>> /\ Goes(next)

SameNames == UNCHANGED <<names, blind>>

\* Acknowledgements: the status is written first, the annotation removed after.
Acks ==
    /\ pc = Idle
    /\ w' = Acknowledge(w).w
    /\ waived' = waived \cup {s \in Snaps : w'.exp[s] # w.exp[s]}
    /\ \/ /\ ack' = {} /\ pc' = <<"pending", First>> /\ UNCHANGED left
       \/ w' # w /\ Fault /\ UNCHANGED <<ack, pc>>
    /\ UNCHANGED <<cfg, seen, names, blind, listed, refs, store, runs, kept>>

Pending(s) ==
    /\ pc = <<"pending", s>>
    /\ Runs(PendingTarballDeletion(w, s), s,
            Onward("pending", s, IF seen.on THEN <<"each", First>> ELSE <<"disabled", First>>))
    /\ pc' # Idle => SameNames

Disabled(s) ==
    /\ pc = <<"disabled", s>>
    /\ Runs(CompleteAcknowledged(w, s), s, Onward("disabled", s, Idle))
    /\ pc' # Idle => SameNames

UnknownLegacy(s) ==
    w.snap[s].exporting = "true" /\ (w.exp[s] = None \/ w.exp[s].dest = Unknown)

Collected(s) ==
    \/ w.exp[s] # None /\ w.exp[s].dest # Unknown
    \/ w.exp[s] = None /\ ~UnknownLegacy(s) /\ seen.dest # None

\* The name is collected before the snapshot's case is taken.
Each(s) ==
    LET next == Onward("each", s, IF seen.retain # None THEN <<"retain", First>> ELSE <<"prune", 0>>)
    IN  /\ pc = <<"each", s>>
        /\ IF s \in listed /\ w.snap[s] # None
           THEN /\ \E lingers \in BOOLEAN : Runs(SnapshotStep(w, s, lingers), s, next)
                /\ pc' # Idle => /\ names' = IF Collected(s) THEN names \cup {s} ELSE names
                                 /\ blind' = (blind \/ UnknownLegacy(s))
           ELSE Skips(next) /\ SameNames

\* The snapshots over the retain count, whatever their export is doing.
Excess(s) == Cardinality({t \in listed : t > s}) >= seen.retain

RetainCount(s) ==
    LET next == Onward("retain", s, <<"prune", 0>>)
    IN  /\ pc = <<"retain", s>>
        /\ IF s \in listed /\ w.snap[s] # None /\ Excess(s)
           THEN /\ \E lingers \in BOOLEAN : Runs(RetireSnapshot(w, s, lingers), s, next)
                /\ pc' # Idle => SameNames
           ELSE Skips(next) /\ SameNames

Prune ==
    /\ pc = <<"prune", 0>>
    /\ w' = PruneRetained(w).w
    /\ Goes(IF seen.dest # None /\ ~blind THEN <<"orphans", First>> ELSE <<"new", 0>>)
    /\ SameNames
    /\ UNCHANGED <<cfg, ack, world, left>>

Orphans(s) ==
    LET next == Onward("orphans", s, <<"new", 0>>)
    IN  /\ pc = <<"orphans", s>>
        /\ IF s \notin names /\ (w.up[s] # None \/ w.del[s] # None)
           THEN /\ Runs(ReconcileOrphan(w, s), s, next)
                /\ pc' # Idle => SameNames
           ELSE Skips(next) /\ SameNames

NewSnapshot == [exporting |-> "no", tries |-> 0, proof |-> FALSE, old |-> FALSE, going |-> FALSE]

\* The next snapshot is taken when it is time for one.
New ==
    /\ pc = <<"new", 0>>
    /\ Over
    /\ \/ UNCHANGED <<w, left>>
       \/ /\ left.snaps # {}
          /\ LET s == CHOOSE t \in left.snaps : \A u \in left.snaps : t <= u
             IN  /\ w' = [w EXCEPT !.snap[s] = NewSnapshot]
                 /\ left' = [left EXCEPT !.snaps = @ \ {s}]
    /\ UNCHANGED <<cfg, ack, world>>

Controller ==
    \/ Acks \/ Prune \/ New
    \/ \E s \in Snaps : Pending(s) \/ Disabled(s) \/ Each(s) \/ RetainCount(s) \/ Orphans(s)

-----------------------------------------------------------------------------
(* The Jobs, the API server, time and the operator.                         *)

Quiet == UNCHANGED <<cfg, ack, pass, refs, runs, kept, waived>>

\* An upload whose Job is being removed may still complete.
UploadDone(s) ==
    /\ w.up[s] # None /\ w.up[s].st = "active"
    /\ w' = [w EXCEPT !.up[s].st = "succeeded"]
    /\ store' = store \cup {<<w.up[s].dest, s>>}
    /\ Quiet /\ UNCHANGED left

DeletionDone(s) ==
    /\ w.del[s] # None /\ w.del[s].st = "active" /\ ~w.del[s].held /\ ~w.del[s].going
    /\ w.del[s].dest \in refs
    /\ w' = [w EXCEPT !.del[s].st = "succeeded"]
    /\ store' = store \ {<<w.del[s].dest, s>>}
    /\ Quiet /\ UNCHANGED left

\* Finalizers are done: terminating Jobs and snapshots go.
Removed(s) ==
    /\ \/ w.up[s] # None /\ w.up[s].going /\ w' = [w EXCEPT !.up[s] = None]
       \/ w.del[s] # None /\ w.del[s].going /\ w' = [w EXCEPT !.del[s] = None]
       \/ w.snap[s] # None /\ w.snap[s].going /\ w' = [w EXCEPT !.snap[s] = None]
    /\ Quiet /\ UNCHANGED <<store, left>>

\* The time of a retry has come.
RetryDue(s) ==
    /\ w.exp[s] # None /\ w.exp[s].retry = "wait"
    /\ w' = [w EXCEPT !.exp[s].retry = "due"]
    /\ Quiet /\ UNCHANGED <<store, left>>

Cluster == \E s \in Snaps : UploadDone(s) \/ DeletionDone(s) \/ Removed(s) \/ RetryDue(s)

Expire(s) ==
    /\ cfg.retain = None
    /\ w.snap[s] # None /\ ~w.snap[s].old
    /\ w' = [w EXCEPT !.snap[s].old = TRUE]
    /\ Quiet /\ UNCHANGED <<store, left>>

\* A Job fails, or a finished one is reaped by its TTL.
JobFault(s) ==
    /\ Fault
    /\ \/ w.up[s] # None /\ w.up[s].st = "active" /\ w' = [w EXCEPT !.up[s].st = "failed"]
       \/ w.del[s] # None /\ w.del[s].st = "active" /\ ~w.del[s].held
          /\ w' = [w EXCEPT !.del[s].st = "failed"]
       \/ w.up[s] # None /\ w.up[s].st # "active" /\ w' = [w EXCEPT !.up[s] = None]
       \/ w.del[s] # None /\ w.del[s].st # "active" /\ w' = [w EXCEPT !.del[s] = None]
    /\ Quiet /\ UNCHANGED store

Settings == [on : BOOLEAN, dest : Dests \cup {None}, del : Policies, retain : {cfg.retain}]

Edit ==
    /\ left.edits > 0 /\ left' = [left EXCEPT !.edits = @ - 1]
    /\ \E c \in Settings \ {cfg} : cfg' = c
    /\ seen' = IF pc = Idle THEN cfg' ELSE seen
    /\ UNCHANGED <<w, ack, pc, names, blind, listed, world>>

\* Credentials are deleted; the operator may restore them.
LoseReference ==
    /\ left.losses > 0 /\ left' = [left EXCEPT !.losses = @ - 1]
    /\ \E d \in refs : refs' = refs \ {d}
    /\ UNCHANGED <<w, cfg, ack, pass, store, runs, kept, waived>>

RestoreReference ==
    /\ \E d \in Dests \ refs : refs' = refs \cup {d}
    /\ UNCHANGED <<w, cfg, ack, pass, store, runs, kept, waived, left>>

AckCleanup(s) ==
    /\ s \notin ack
    /\ w.exp[s] # None /\ w.exp[s].phase = "CleanupRequired"
    /\ ack' = ack \cup {s}
    /\ UNCHANGED <<w, cfg, pass, world, left>>

-----------------------------------------------------------------------------

NoSnaps == [s \in Snaps |-> None]

NoObjects == [snap |-> NoSnaps, exp |-> NoSnaps, up |-> NoSnaps, del |-> NoSnaps]

\* An upload an earlier version started, of which only the Job is known.
Legacy(dest) ==
    [NoObjects EXCEPT !.snap[1] = [NewSnapshot EXCEPT !.exporting = "true"],
                      !.up[1] = [dest |-> dest, st |-> "active", going |-> FALSE]]

Init ==
    /\ \E p \in Plans, d \in Dests, del \in Policies :
        /\ cfg = [on |-> TRUE, dest |-> d, del |-> del, retain |-> p.retain]
        /\ IF p.life = "legacy" THEN \E old \in Dests : w = Legacy(old) ELSE w = NoObjects
        /\ left = [snaps |-> IF p.life = "legacy" THEN 2..p.snaps ELSE 1..p.snaps,
                   edits |-> p.edits, faults |-> p.faults, losses |-> p.losses]
    /\ seen = cfg /\ pc = Idle /\ names = {} /\ blind = FALSE /\ listed = {}
    /\ ack = {} /\ refs = Dests /\ store = {} /\ kept = {} /\ waived = {}
    /\ runs = [s \in Snaps |-> 0]

Next ==
    \/ Controller \/ Cluster \/ Edit \/ LoseReference \/ RestoreReference
    \/ \E s \in Snaps : Expire(s) \/ JobFault(s) \/ AckCleanup(s)

Spec == Init /\ [][Next]_vars

Steps == ({"idle", "prune", "new"} \X {0})
         \cup ({"pending", "disabled", "each", "retain", "orphans"} \X Snaps)

\* The controller goes on with its pass.  It always can, and only a failure, of
\* which there are finitely many, leaves pc where it is.
GoesOn == pc' \in Steps

FairSpec == Spec /\ WF_pc(GoesOn) /\ WF_vars(Cluster)

-----------------------------------------------------------------------------

Phases == {"Uploading", "Uploaded", "Deleting", "CleanupRequired", "Deleted", "Acknowledged"}

Jobs == [dest : Dests, st : {"active", "succeeded", "failed"}, going : BOOLEAN]

\* Every object has its type; no counter passes its limit.
TypeOK ==
    /\ \A s \in Snaps :
        /\ w.snap[s] \in {None} \cup
            [exporting : {"no", "true", "uploaded", "finished", "failed"}, tries : 0..MaxExports,
             proof : BOOLEAN, old : BOOLEAN, going : BOOLEAN]
        /\ w.exp[s] \in {None} \cup
            [dest : Dests \cup {Unknown}, phase : Phases, del : BOOLEAN, tries : 0..MaxDeletes,
             retry : {"none", "wait", "due"}, spent : BOOLEAN]
        /\ w.up[s] \in {None} \cup Jobs
        /\ w.del[s] \in {None} \cup
            [dest : Dests, st : {"active", "succeeded", "failed"}, going : BOOLEAN,
             bounded : BOOLEAN, pair : {"no", "yes", "other"}, held : BOOLEAN]

\* A deletion is tried at most tarballDeleteMaxAttempts times: every Job that
\* startDeleteAttempt created for a record is counted in it, though the record is
\* written before the Job and either write may fail.
AttemptsCounted ==
    \A s \in Snaps : ByObjectName(w, s) # None => runs[s] <= w.exp[s].tries

\* An export that is recorded as uploaded is in the bucket it is recorded with,
\* whatever happened to its Job and to the destination in the spec meanwhile.
UploadedIsThere ==
    \A s \in Snaps :
        ByObjectName(w, s) # None /\ w.exp[s].phase = "Uploaded" => <<w.exp[s].dest, s>> \in store

\* The tarball is not there, or a Job that still exists may change that.
Gone(s, d) == <<d, s>> \notin store \/ w.up[s] # None \/ w.del[s] # None

\* An export that is recorded as deleted has left its bucket: no upload that was
\* under way when the deletion began brings it back.  Only for snapshots that
\* expire by age: under a retain count an upload may succeed after the deletion
\* of its tarball has begun, and finishTarballExport then refuses the export in
\* every pass.
DeletedIsGone ==
    \A s \in Snaps :
        cfg.retain = None /\ ByObjectName(w, s) # None /\ w.exp[s].phase = "Deleted"
            => Gone(s, w.exp[s].dest)

\* An expired snapshot whose export needs nothing of the operator.
Waiting(s) ==
    /\ cfg.on /\ w.snap[s] # None /\ w.snap[s].old
    /\ w.exp[s] # None => w.exp[s].phase # "CleanupRequired"

LeavesKept == \A s \in kept : w.up[s] = None /\ w.del[s] = None => w'.del[s] = None

\* No deletion is started for a finished export that is to outlive its snapshot,
\* once the upload Job is gone: the policy recorded at the upload counts, not the
\* one in the spec today.  (While that Job is being removed the tarball goes with
\* the snapshot.)
KeptIsLeftAlone == [][LeavesKept]_vars

Remembers ==
    \A s \in Snaps :
        cfg.retain = None /\ ByObjectName(w, s) # None /\ w.exp[s].del /\ w'.exp[s] = None
            /\ s \notin waived => Gone(s, w.exp[s].dest)

\* The record of an export that is to be deleted is only dropped when its tarball
\* is gone, or when the operator took the cleanup over.
NothingForgotten == [][Remembers]_vars

=============================================================================
