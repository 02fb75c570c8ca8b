------------------------------ MODULE MCBackups ------------------------------
(***************************************************************************)
(* One instance of each model of the backups for TLC: the snapshots of a   *)
(* ChainNode (Snapshots), their exports (Exports) and the programs that    *)
(* upload and delete an archive (S3Upload, GcsUpload).  A behaviour is one *)
(* of one of the four, which the variable part names; the others are not   *)
(* there.                                                                  *)
(***************************************************************************)
EXTENDS MCSnapshots

CONSTANTS d1, d2,   \* destinations
          Nil,      \* no object
          NoRecord  \* the destination of an export without a record

VARIABLES part,
          eW, eCfg, eSeen, ePc, eNames, eBlind, eListed, eAck, eRefs, eStore, eRuns, eKept,
          eWaived, eLeft,
          sIn, sProc, sSending, sBucket, sDel, sCount,
          gIn, gProc, gFlight, gStore, gDel, gCount

snapshots == <<config, node, pod, snaps, cache, jobs, now, pc, list, todo, ready, edits, faults,
               stale, broken>>
exports == <<eW, eCfg, eSeen, ePc, eNames, eBlind, eListed, eAck, eRefs, eStore, eRuns, eKept,
             eWaived, eLeft>>
s3 == <<sIn, sProc, sSending, sBucket, sDel, sCount>>
gcs == <<gIn, gProc, gFlight, gStore, gDel, gCount>>

all == <<part, snapshots, exports, s3, gcs>>

----------------------------------------------------------------------------
(* Exports: the lives of a node. *)

Plan(keep, life, n, edited, failed, lost) ==
    [retain |-> keep, life |-> life, snaps |-> n, edits |-> edited, faults |-> failed,
     losses |-> lost]

\* The spec is edited, credentials are lost, an upload of an earlier version is
\* adopted, Jobs fail twice, two snapshots expire, two snapshots are counted.
Lives == {Plan(Nil, "fresh", 1, 1, 1, 0), Plan(Nil, "fresh", 1, 0, 1, 1),
          Plan(Nil, "legacy", 1, 1, 0, 0), Plan(Nil, "fresh", 1, 0, 2, 0),
          Plan(Nil, "fresh", 2, 0, 0, 0), Plan(1, "fresh", 2, 0, 0, 0)}

E == INSTANCE Exports WITH
    Snaps <- {1, 2}, Dests <- {d1, d2}, Policies <- BOOLEAN, Plans <- Lives,
    MaxExports <- 2, MaxDeletes <- 2, None <- Nil, Unknown <- NoRecord,
    w <- eW, cfg <- eCfg, seen <- eSeen, pc <- ePc, names <- eNames, blind <- eBlind,
    listed <- eListed, ack <- eAck, refs <- eRefs, store <- eStore, runs <- eRuns,
    kept <- eKept, waived <- eWaived, left <- eLeft

----------------------------------------------------------------------------
(* S3Upload and GcsUpload: archives of one and of several objects, estimates that *)
(* are too large, chunks that do and do not divide a part.                        *)

S3In(l, e, c, p, m, j, one) ==
    [len |-> l, est |-> e, chunk |-> c, part |-> p, limit |-> m, jobs |-> j, each |-> one]

S == INSTANCE S3Upload WITH
    Inputs <- {S3In(4, 4, 1, 4, 4, 2, TRUE), S3In(4, 5, 1, 2, 4, 2, TRUE),
               S3In(5, 6, 1, 2, 9, 2, FALSE), S3In(3, 4, 2, 2, 3, 2, FALSE),
               S3In(2, 6, 1, 4, 1, 2, TRUE), S3In(2, 6, 1, 5, 1, 2, TRUE)},
    MaxParts <- 4, BatchSize <- 2, MaxStarts <- 2, MaxFaults <- 2,
    in <- sIn, proc <- sProc, sending <- sSending, bucket <- sBucket, del <- sDel,
    count <- sCount

GcsIn(l, e, c, p, m, j) ==
    [len |-> l, est |-> e, chunk |-> c, part |-> p, limit |-> m, jobs |-> j]

G == INSTANCE GcsUpload WITH
    Inputs <- {GcsIn(5, 5, 1, 4, 5, 2), GcsIn(4, 5, 1, 1, 4, 2), GcsIn(5, 6, 1, 2, 5, 2),
               GcsIn(2, 3, 2, 2, 1, 2), GcsIn(4, 6, 1, 2, 3, 1)},
    BatchLimit <- 2, Base <- 2, MaxStarts <- 2, MaxFaults <- 2,
    in <- gIn, proc <- gProc, flight <- gFlight, store <- gStore, del <- gDel,
    count <- gCount

----------------------------------------------------------------------------

OfSnapshots(A) == part = "snapshots" /\ A /\ UNCHANGED <<part, exports, s3, gcs>>
OfExports(A) == part = "exports" /\ A /\ UNCHANGED <<part, snapshots, s3, gcs>>
OfS3(A) == part = "s3" /\ A /\ UNCHANGED <<part, snapshots, exports, gcs>>
OfGcs(A) == part = "gcs" /\ A /\ UNCHANGED <<part, snapshots, exports, s3>>

NoExports ==
    /\ eW = Nil /\ eCfg = Nil /\ eSeen = Nil /\ ePc = Nil /\ eNames = Nil /\ eBlind = Nil
    /\ eListed = Nil /\ eAck = Nil /\ eRefs = Nil /\ eStore = Nil /\ eRuns = Nil
    /\ eKept = Nil /\ eWaived = Nil /\ eLeft = Nil

NoS3 == sIn = Nil /\ sProc = Nil /\ sSending = Nil /\ sBucket = Nil /\ sDel = Nil /\ sCount = Nil

NoGcs == gIn = Nil /\ gProc = Nil /\ gFlight = Nil /\ gStore = Nil /\ gDel = Nil /\ gCount = Nil

MCInit ==
    /\ part \in {"snapshots", "exports", "s3", "gcs"}
    /\ Init /\ (part # "snapshots" => config = Off)
    /\ IF part = "exports" THEN E!Init ELSE NoExports
    /\ IF part = "s3" THEN S!Init ELSE NoS3
    /\ IF part = "gcs" THEN G!Init ELSE NoGcs

MCNext == OfSnapshots(Next) \/ OfExports(E!Next) \/ OfS3(S!Next) \/ OfGcs(G!Next)

MCCluster == OfSnapshots(Sync) \/ OfExports(E!Cluster) \/ OfS3(S!Program) \/ OfGcs(G!Program)

\* The fairness of each.
MCFairSpec ==
    /\ MCInit /\ [][MCNext]_all
    /\ WF_ePc(part = "exports" /\ E!GoesOn) /\ WF_all(MCCluster)
    /\ WF_all(OfSnapshots(Reconcile)) /\ WF_all(OfSnapshots(Tick)) /\ WF_all(OfSnapshots(PodReady))
    /\ \A t \in Times : WF_all(OfSnapshots(Storage(t)))

----------------------------------------------------------------------------
(* The properties of Exports, S3Upload and GcsUpload, under their own names. *)

\* E: every deletion Job of a record is counted in it.
AttemptsCounted == part = "exports" => E!AttemptsCounted

\* E, S and G: what was reported or recorded as uploaded is there, and whole.
UploadedIsThere ==
    CASE part = "exports" -> E!UploadedIsThere
      [] part = "s3" -> S!UploadedIsWhole
      [] part = "gcs" -> G!UploadedIsWhole
      [] OTHER -> TRUE

\* E: no deletion is started for a finished export that is to outlive its snapshot.
KeptIsLeftAlone == [][part = "exports" => E!LeavesKept]_all

\* E: the record of an export that is to be deleted is dropped when its tarball is
\* gone.
NothingForgotten == [][part = "exports" => E!Remembers]_all

\* E, S and G: what was reported or recorded as deleted is gone.
DeletedIsGone ==
    CASE part = "exports" -> E!DeletedIsGone
      [] part = "s3" -> S!DeletedIsGone
      [] part = "gcs" -> G!DeletedIsGone
      [] OTHER -> TRUE

\* S and G: no file, part or intermediate object is left behind.
NothingLeftBehind == (part = "s3" => S!NothingLeftBehind) /\ (part = "gcs" => G!NothingLeftBehind)

\* E, S and G: an expired snapshot goes, and an upload and a deletion end.
ComesToAnEnd ==
    /\ \A s \in {1, 2} : []<>~(part = "exports" /\ E!Waiting(s))
    /\ []<>((part = "s3" => S!Ended) /\ (part = "gcs" => G!Ended))

=============================================================================
