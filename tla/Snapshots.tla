----------------------------- MODULE Snapshots -----------------------------
(***************************************************************************)
(* Periodic VolumeSnapshots of one ChainNode: when its reconcile takes     *)
(* them, verifies them and removes them.                                   *)
(*                                                                         *)
(* The state of a snapshot is spread over the VolumeSnapshot (its status   *)
(* and two annotations), the Job that verifies it and two annotations of   *)
(* the ChainNode: whether a snapshot is in progress, and the time of the   *)
(* last one.  A pass lists the snapshots from a cache that lags, repairs   *)
(* the annotations of the ChainNode, moves every snapshot one step on,     *)
(* applies retention and finally decides on a new snapshot.  It ends at    *)
(* the first call that fails.  Export of tarballs is switched off.         *)
(*                                                                         *)
(* Snapshots are named after the second they are taken in; the clock here  *)
(* counts such instants.                                                   *)
(***************************************************************************)
EXTENDS Naturals, FiniteSets, FiniteSetsExt

CONSTANTS Configs,   \* the values of .persistence.snapshots
          Frequency, \* how long after the last snapshot the next one is due
          MaxTime,   \* the end of the clock
          MaxEvents  \* how many of the events below happen

Times == 1..MaxTime

\* retention and retain are 0 where they are not set.
Config == [enabled : BOOLEAN, verify : BOOLEAN, stop : BOOLEAN,
           preserve : BOOLEAN, retention : Nat, retain : Nat]

ASSUME SnapshotsAssumption ==
    /\ Configs \subseteq Config
    /\ Frequency \in Nat
    /\ MaxTime \in Nat \ {0}
    /\ MaxEvents \in Nat

VARIABLES config, \* the snapshot configuration of the ChainNode
          node,   \* its annotations and its phase
          pod,    \* its pod
          snaps,  \* the VolumeSnapshots, by the time they were taken
          cache,  \* the same as the manager's cache has them
          jobs,   \* the Jobs that verify them
          now,
          pc, list, todo, ready, \* the current pass
          edits,  \* how often the user edited the configuration,
          faults, \* a call failed or the manager crashed,
          stale,  \* a pass listed a cache that was behind,
          broken  \* and a check found a snapshot corrupted

pass == <<pc, list, todo, ready>>
bounds == <<edits, faults, stale, broken>>
vars == <<config, node, pod, snaps, cache, jobs, now, pass, bounds>>

\* status: "new" has no restore size yet.  marked, check and ttl stand for the
\* annotations pvc-snapshot-ready, snapshot-integrity-status and retention.
Snapshot == [status : {"new", "sized", "ready"}, marked : BOOLEAN,
             check : {"pending", "ok", "corrupted"}, deleting : BOOLEAN, ttl : Nat]

None == [status |-> "none"]
NoSnapshots == [t \in Times |-> None]

\* "unbound": the Job was created but not the volume it mounts.
JobStates == {"none", "unbound", "running", "ok", "failed"}

Steps == {"idle", "repair", "scan", "record", "check", "replace", "trim", "due",
          "start", "height", "annotate", "pod", "phase"}

MoreEvents == edits + faults + stale + broken < MaxEvents

----------------------------------------------------------------------------
(* What a pass works out *)

Existing(l) == {t \in Times : l[t] # None}

\* A variant that takes a snapshot whose size is known for a finished one.
ActiveUnsized(l) == {t \in Existing(l) : ~l[t].deleting /\ l[t].status = "new"}

\* hasActiveVolumeSnapshot
Active(l) == {t \in Existing(l) : ~l[t].deleting /\ l[t].status # "ready"}

\* latestReadySnapshotTime
LatestReady(l) == Max({0} \cup {t \in Existing(l) : l[t].status = "ready"})

\* A variant that only ever sets the annotation.
RepairedOnlyUp(l) ==
    [node EXCEPT !.inProgress = @ \/ Active(l) # {}, !.last = Max({@, LatestReady(l)})]

\* The annotations, repaired from the snapshots there are.
Repaired(l) ==
    [node EXCEPT !.inProgress = Active(l) # {}, !.last = Max({@, LatestReady(l)})]

\* isSnapshotExpired
Expired(l, t) == l[t].ttl # 0 /\ t + l[t].ttl < now

\* Count-based retention: how many of the listed snapshots are too many.  The
\* API requires retain to be at least 1, so one is always left.
Excess(l) ==
    LET n == Cardinality(Existing(l))
    IN IF n <= config.retain THEN 0 ELSE n - config.retain

\* A variant that compares for equality.
ShouldSnapshotOnTime ==
    /\ node.phase = "Running"
    /\ ready
    /\ node.last = 0 \/ node.last + Frequency + 1 = now

\* shouldSnapshot, with snapshots disabled while syncing and while unhealthy.
ShouldSnapshot ==
    /\ node.phase = "Running"
    /\ ready
    /\ node.last = 0 \/ node.last + Frequency < now

\* The write of a listed snapshot succeeds only if it did not change since.
Fresh(t) == snaps[t] = list[t]

\* The pass goes on with the next step, is done with snapshot t, or ends and
\* forgets what it knew.
Goto(step) == pc' = step /\ UNCHANGED <<list, todo, ready>>
Done(t) == todo' = todo \ {t} /\ pc' = "scan" /\ UNCHANGED <<list, ready>>
End == pc' = "idle" /\ list' = NoSnapshots /\ todo' = {} /\ ready' = FALSE

----------------------------------------------------------------------------
(* ensureVolumeSnapshots: listing and repairing *)

\* Whether the pod is ready was read at the start of the reconcile.  The list and
\* the update of the annotations are one step: only a pass writes them.
Begin ==
    /\ pc = "idle"
    /\ ready' = (pod = "ready")
    /\ IF config.enabled
         THEN /\ cache = snaps \/ MoreEvents
              /\ stale' = IF cache = snaps THEN stale ELSE stale + 1
              /\ list' = cache
              /\ todo' = Existing(cache)
              /\ node' = Repaired(cache)
              /\ pc' = "repair"
         ELSE /\ node' = [node EXCEPT !.inProgress = FALSE]
              /\ pc' = "pod"
              /\ UNCHANGED <<list, todo, stale>>
    /\ UNCHANGED <<config, pod, snaps, cache, jobs, now, edits, faults, broken>>

\* A node that serves while a snapshot is active gets the phase for it, by an
\* update of the status of its own.
RepairPhase ==
    /\ pc = "repair"
    /\ node' = IF /\ Active(list) # {}
                  /\ node.phase = "Running" \/ (node.phase = "Syncing" /\ config.stop)
               THEN [node EXCEPT !.phase = "Snapshotting"] ELSE node
    /\ Goto("scan")
    /\ UNCHANGED <<config, pod, snaps, cache, jobs, now, bounds>>

\* The first snapshot the pass has not dealt with.
t0 == Min(todo)

NeedsMark(t) == ~list[t].marked /\ list[t].status = "ready"
NeedsCheck(t) == ~NeedsMark(t) /\ config.verify /\ list[t].check = "pending"

\* The snapshot has become ready: mark it, ...
MarkReady ==
    /\ pc = "scan" /\ todo # {} /\ NeedsMark(t0)
    /\ IF Fresh(t0)
         THEN snaps' = [snaps EXCEPT ![t0].marked = TRUE] /\ Goto("record")
         ELSE UNCHANGED snaps /\ End
    /\ UNCHANGED <<config, node, pod, cache, jobs, now, bounds>>

\* ... record it in the ChainNode ...
Record ==
    /\ pc = "record"
    /\ node' = [node EXCEPT !.inProgress = Active(list) # {}, !.last = LatestReady(list)]
    /\ IF config.verify THEN Goto("check") ELSE Done(t0)
    /\ UNCHANGED <<config, pod, snaps, cache, jobs, now, bounds>>

\* ... and verify it.  The Job has a fixed name; its volume is created second.
StartCheck ==
    /\ \/ pc = "check"
       \/ pc = "scan" /\ todo # {} /\ NeedsCheck(t0) /\ jobs[t0] = "none"
    /\ \/ /\ list[t0].status = "new" \/ jobs[t0] # "none" \/ snaps[t0] = None
          /\ End
          /\ UNCHANGED <<jobs, faults>>
       \/ /\ list[t0].status # "new" /\ jobs[t0] = "none" /\ snaps[t0] # None
          /\ \/ /\ jobs' = [jobs EXCEPT ![t0] = "running"]
                /\ IF snaps[t0].status = list[t0].status THEN Done(t0) ELSE End
                /\ UNCHANGED faults
             \/ /\ MoreEvents /\ faults' = faults + 1
                /\ jobs' = [jobs EXCEPT ![t0] = "unbound"] /\ End
    /\ UNCHANGED <<config, node, pod, snaps, cache, now, edits, stale, broken>>

\* The Job is still running, or its result is persisted before it is removed.
Verify ==
    /\ pc = "scan" /\ todo # {} /\ NeedsCheck(t0) /\ jobs[t0] # "none"
    /\ LET result == IF jobs[t0] = "ok" THEN "ok" ELSE "corrupted"
       IN CASE jobs[t0] \in {"unbound", "running"} -> Done(t0) /\ UNCHANGED <<snaps, jobs>>
            [] jobs[t0] \in {"ok", "failed"} /\ Fresh(t0) ->
                 /\ snaps' = [snaps EXCEPT ![t0].check = result]
                 /\ jobs' = [jobs EXCEPT ![t0] = "none"]
                 /\ IF result = "ok" THEN Done(t0) ELSE Goto("replace")
            [] OTHER -> End /\ UNCHANGED <<snaps, jobs>>
    /\ UNCHANGED <<config, node, pod, cache, now, bounds>>

\* Deleting what is gone is an error; the object stays until its finalizers
\* are done.
DeleteSnapshot(t) ==
    snaps' = IF snaps[t] = None THEN snaps ELSE [snaps EXCEPT ![t].deleting = TRUE]

\* A corrupted snapshot is deleted and the pass ends with a new one.
ReplaceCorrupted ==
    /\ pc = "replace"
    /\ DeleteSnapshot(t0)
    /\ IF snaps[t0] = None THEN End ELSE Goto("start")
    /\ UNCHANGED <<config, node, pod, cache, jobs, now, bounds>>

\* Time-based retention, unless this is the only snapshot.
Expire ==
    /\ pc = "scan" /\ todo # {} /\ ~NeedsMark(t0) /\ ~NeedsCheck(t0)
    /\ IF Expired(list, t0) /\ ~(config.preserve /\ Cardinality(Existing(list)) = 1)
         THEN DeleteSnapshot(t0) /\ (IF snaps[t0] = None THEN End ELSE Done(t0))
         ELSE UNCHANGED snaps /\ Done(t0)
    /\ UNCHANGED <<config, node, pod, cache, jobs, now, bounds>>

\* Count-based retention lists again and removes the oldest ones.
Retain ==
    /\ pc = "scan" /\ todo = {}
    /\ IF config.retain = 0
         THEN Goto("due")
         ELSE /\ list' = cache
              /\ todo' = {t \in Existing(cache) :
                            Cardinality({u \in Existing(cache) : u < t}) < Excess(cache)}
              /\ pc' = "trim" /\ UNCHANGED ready
    /\ UNCHANGED <<config, node, pod, snaps, cache, jobs, now, bounds>>

Trim ==
    /\ pc = "trim"
    /\ IF todo = {} THEN Goto("due") /\ UNCHANGED snaps
       ELSE /\ DeleteSnapshot(t0)
            /\ IF snaps[t0] = None THEN End
               ELSE todo' = todo \ {t0} /\ UNCHANGED <<pc, list, ready>>
    /\ UNCHANGED <<config, node, pod, cache, jobs, now, bounds>>

----------------------------------------------------------------------------
(* startNewSnapshot and the rest of the reconcile *)

Due ==
    /\ pc = "due"
    /\ pc' = IF ~node.inProgress /\ ShouldSnapshot THEN "start" ELSE "pod"
    /\ list' = NoSnapshots /\ UNCHANGED <<todo, ready>>
    /\ UNCHANGED <<config, node, pod, snaps, cache, jobs, now, bounds>>

\* With stopNode the pod is deleted first, and its deletion awaited.
StopNode ==
    /\ pc = "start"
    /\ pod' = IF config.stop THEN "none" ELSE pod
    /\ Goto("height")
    /\ UNCHANGED <<config, node, snaps, cache, jobs, now, bounds>>

\* The height is asked of node-utils in the pod; without an answer no snapshot
\* is taken.
CreateSnapshot ==
    /\ pc = "height"
    /\ \/ pod # "ready" /\ UNCHANGED snaps /\ Goto("pod")
       \/ pod # "none" /\ snaps[now] # None /\ UNCHANGED snaps /\ End
       \/ /\ pod # "none" /\ snaps[now] = None
          /\ snaps' = [snaps EXCEPT ![now] =
                         [status |-> "new", marked |-> FALSE, check |-> "pending",
                          deleting |-> FALSE, ttl |-> config.retention]]
          /\ Goto("annotate")
    /\ UNCHANGED <<config, node, pod, cache, jobs, now, bounds>>

Annotate ==
    /\ pc = "annotate"
    /\ node' = [node EXCEPT !.inProgress = TRUE, !.phase = "Snapshotting"]
    /\ Goto("pod")
    /\ UNCHANGED <<config, pod, snaps, cache, jobs, now, bounds>>

\* A stopped node is left alone; otherwise a missing pod is created.
EnsurePod ==
    /\ pc = "pod"
    /\ IF node.inProgress /\ config.stop THEN UNCHANGED <<node, pod>> /\ End
       ELSE /\ node' = IF pod = "none" THEN [node EXCEPT !.phase = "Restarting"] ELSE node
            /\ pod' = IF pod = "none" THEN "starting" ELSE pod
            /\ Goto("phase")
    /\ UNCHANGED <<config, snaps, cache, jobs, now, bounds>>

\* setNodePhase probes the pod unless a snapshot is in progress.
SetNodePhase ==
    /\ pc = "phase"
    /\ IF node.inProgress THEN node' = [node EXCEPT !.phase = "Snapshotting"]
       ELSE IF pod # "ready" THEN UNCHANGED node
       ELSE \E phase \in {"Running", "Syncing"} : node' = [node EXCEPT !.phase = phase]
    /\ End
    /\ UNCHANGED <<config, pod, snaps, cache, jobs, now, bounds>>

\* A call fails or the manager crashes: the pass ends where it stands.
Abort ==
    /\ pc # "idle"
    /\ MoreEvents
    /\ faults' = faults + 1
    /\ End
    /\ UNCHANGED <<config, node, pod, snaps, cache, jobs, now, edits, stale, broken>>

----------------------------------------------------------------------------
(* The environment *)

\* The watch catches up.
Sync ==
    /\ cache # snaps
    /\ cache' = snaps
    /\ UNCHANGED <<config, node, pod, snaps, jobs, now, pass, bounds>>

Tick ==
    /\ now < MaxTime
    /\ now' = now + 1
    /\ UNCHANGED <<config, node, pod, snaps, cache, jobs, pass, bounds>>

\* The CSI driver makes progress with a snapshot, or removes it.
Progress(t) ==
    /\ snaps[t] # None /\ ~snaps[t].deleting
    /\ \/ snaps[t].status = "new" /\ snaps' = [snaps EXCEPT ![t].status = "sized"]
       \/ snaps[t].status = "sized" /\ snaps' = [snaps EXCEPT ![t].status = "ready"]
    /\ UNCHANGED <<config, node, pod, cache, jobs, now, pass, bounds>>

Gone(t) ==
    /\ snaps[t] # None /\ snaps[t].deleting
    /\ snaps' = [snaps EXCEPT ![t] = None]
    /\ jobs' = [jobs EXCEPT ![t] = "none"]
    /\ UNCHANGED <<config, node, pod, cache, now, pass, bounds>>

\* The Job restores the snapshot, and starts a node on it or fails to.
JobFinishes(t) ==
    /\ jobs[t] = "running" /\ snaps[t].status = "ready"
    /\ \/ jobs' = [jobs EXCEPT ![t] = "ok"] /\ UNCHANGED broken
       \/ /\ MoreEvents /\ broken' = broken + 1
          /\ jobs' = [jobs EXCEPT ![t] = "failed"]
    /\ UNCHANGED <<config, node, pod, snaps, cache, now, pass, edits, faults, stale>>

\* A finished Job is removed by its TTL.
JobExpires(t) ==
    /\ jobs[t] \in {"ok", "failed"}
    /\ jobs' = [jobs EXCEPT ![t] = "none"]
    /\ UNCHANGED <<config, node, pod, snaps, cache, now, pass, bounds>>

PodReady ==
    /\ pod = "starting"
    /\ pod' = "ready"
    /\ UNCHANGED <<config, node, snaps, cache, jobs, now, pass, bounds>>

\* The user edits the configuration.  A pass works from one copy of it.
Edit ==
    /\ pc = "idle"
    /\ MoreEvents
    /\ \E c \in Configs : c # config /\ config' = c
    /\ edits' = edits + 1
    /\ UNCHANGED <<node, pod, snaps, cache, jobs, now, pass, faults, stale, broken>>

----------------------------------------------------------------------------
(* The specification *)

Init ==
    /\ config \in Configs
    /\ node = [inProgress |-> FALSE, last |-> 0, phase |-> "Running"]
    /\ pod = "ready"
    /\ snaps = NoSnapshots
    /\ cache = snaps
    /\ jobs = [t \in Times |-> "none"]
    /\ now = 1
    /\ pc = "idle" /\ list = snaps /\ todo = {} /\ ready = FALSE
    /\ edits = 0 /\ faults = 0 /\ stale = 0 /\ broken = 0

Reconcile ==
    \/ Begin \/ RepairPhase \/ MarkReady \/ Record \/ StartCheck \/ Verify \/ ReplaceCorrupted
    \/ Expire \/ Retain \/ Trim \/ Due \/ StopNode \/ CreateSnapshot \/ Annotate
    \/ EnsurePod \/ SetNodePhase

Storage(t) == Progress(t) \/ Gone(t) \/ JobFinishes(t)

Next ==
    \/ Reconcile \/ Abort \/ Sync \/ Tick \/ PodReady \/ Edit
    \/ \E t \in Times : Storage(t) \/ JobExpires(t)

Spec == Init /\ [][Next]_vars

\* The node is reconciled periodically, watches deliver, and time, storage,
\* Jobs and pods make progress.
FairSpec ==
    /\ Spec
    /\ WF_vars(Reconcile) /\ WF_vars(Sync) /\ WF_vars(Tick) /\ WF_vars(PodReady)
    /\ \A t \in Times : WF_vars(Storage(t))

----------------------------------------------------------------------------
(* Properties *)

\* Every variable has its type; the last snapshot is not in the future, and
\* only snapshots that exist are being verified.
TypeOK ==
    /\ config \in Configs
    /\ node \in [inProgress : BOOLEAN, last : 0..now,
                 phase : {"Running", "Syncing", "Snapshotting", "Restarting"}]
    /\ pod \in {"none", "starting", "ready"}
    /\ snaps \in [Times -> Snapshot \cup {None}]
    /\ cache \in [Times -> Snapshot \cup {None}]
    /\ jobs \in [Times -> JobStates]
    /\ \A t \in Times : jobs[t] # "none" => snaps[t] # None
    /\ now \in Times
    /\ pc \in Steps /\ todo \subseteq Times /\ ready \in BOOLEAN
    /\ list \in [Times -> Snapshot \cup {None}]
    /\ {edits, faults, stale, broken} \subseteq 0..MaxEvents

\* The snapshots the CSI driver is taking.
InFlight == {t \in Times : /\ snaps[t] # None
                           /\ ~snaps[t].deleting /\ snaps[t].status # "ready"}

\* "We don't want to have more than one snapshot being taken at the same time":
\* whatever fails between creating a snapshot and recording it, every further
\* one is owed to a pass that listed a stale cache or replaced a corrupted
\* snapshot.
OneAtATime == Cardinality(InFlight) <= 1 + stale + broken

\* "Completed and deleting snapshots must not block future snapshots": the
\* annotation does not outlive the snapshot it stands for.
InProgressClears == []<>(node.inProgress => InFlight # {})

\* The next snapshot is due.
IsDue == config.enabled /\ (node.last = 0 \/ node.last + Frequency < now)

\* The node does not fall behind for ever.
StaysSynced == <>[](node.phase # "Syncing")

\* "How often a snapshot should be created": a snapshot that is due is taken.
SnapshotsAreTaken == StaysSynced => []<>~IsDue

\* The same as long as the node is not to be stopped for it.
OnlineSnapshotsAreTaken == StaysSynced => []<>(~IsDue \/ config.stop)

\* A snapshot that is not being deleted is there.
SomeSnapshot == \E t \in Existing(snaps) : ~snaps[t].deleting

\* "Ensures at least one snapshot is always available": with preserveLastSnapshot
\* retention never removes the last snapshot.
LastSnapshotKept ==
    [][config.preserve /\ pc \in {"scan", "trim"} /\ SomeSnapshot => SomeSnapshot']_vars

----------------------------------------------------------------------------
(* The inductive invariant of OneAtATime *)

\* The steps at which a pass still has to decide whether a snapshot is due, and
\* those at which it has decided to take one.
Deciding == {"repair", "scan", "record", "check", "trim", "due"}
Taking == {"replace", "start", "height"}

\* No snapshot is of the future.
OfThePast ==
    \A t \in Times : (snaps[t] # None \/ cache[t] # None \/ list[t] # None) => t <= now

\* What a pass has left to do are snapshots it listed, and the annotation it
\* wrote is about those.
WorksFromList ==
    /\ todo \subseteq Existing(list)
    /\ pc \in {"record", "check", "replace"} => todo # {}
    /\ pc = "due" => todo = {}
    /\ pc \in {"repair", "scan", "record", "check"} => node.inProgress = (Active(list) # {})

\* Checks that failed and were not acted on yet.
Failed == {t \in Times : jobs[t] = "failed"}

\* Snapshots in progress, and those that failed checks may still lead to.
Owed == Cardinality(Active(snaps)) + Cardinality(Failed)

\* A pass that found no snapshot in progress was right, or its list was stale.
Budget ==
    /\ Cardinality(Failed) <= broken
    /\ Owed <= 1 + stale + broken
    /\ pc \in Taking => Owed <= stale + broken
    /\ pc \in Deciding /\ ~node.inProgress => Owed <= stale + broken

IInv == TypeOK /\ OfThePast /\ WorksFromList /\ Budget

============================================================================
