------------------------------ MODULE Upgrades ------------------------------
(***************************************************************************)
(* Upgrades of one ChainNode: the reconcile, the upgrades ConfigMap, the   *)
(* node-utils sidecar that watches the chain, and the application.         *)
(*                                                                         *)
(* The reconcile merges the upgrades of the spec and of the on-chain plan  *)
(* into .status.upgrades and publishes them in a ConfigMap, which reaches  *)
(* node-utils through a mounted volume.  node-utils follows the block      *)
(* height through the store traces of the application and raises           *)
(* requiresUpgrade at the height of a scheduled upgrade; for a manual      *)
(* upgrade it also stops the application, for an on-chain one the          *)
(* application panics by itself.  The reconcile polls node-utils, swaps    *)
(* the pod and records the outcome.  Any step may fail or be the last one  *)
(* of a crashed manager.                                                   *)
(*                                                                         *)
(* An image is identified with the height of the upgrade that brings it; 0 *)
(* is the image of the spec.  Only the ChainNode's own reconcile writes    *)
(* its status, one at a time, and it reads its own writes.                 *)
(***************************************************************************)
EXTENDS Naturals, FiniteSets, FiniteSetsExt

CONSTANTS Heights,     \* heights upgrades may be defined for
          Plans,       \* those with an on-chain plan
          Docker,      \* those whose plan names a container image
          MaxHeight,   \* the last block
          MaxLag,      \* how many blocks node-utils may be behind
          MaxFaults,   \* how many errors and crashes
          MaxLost,     \* how many replies to a pod creation may be lost
          Timely       \* is node-utils given the time to report?

ASSUME UpgradesAssumption ==
    /\ Heights \subseteq Nat \ {0}
    /\ Docker \subseteq Plans
    /\ Plans \subseteq Heights
    /\ MaxHeight \in Nat \ {0}
    /\ MaxLag \in Nat \ {0}
    /\ MaxFaults \in Nat
    /\ MaxLost \in Nat
    /\ Timely \in BOOLEAN

VARIABLES spec,   \* .spec.app.upgrades: how each height is configured
          ups,    \* .status.upgrades
          latest, \* .status.latestHeight
          cm,     \* the upgrades ConfigMap
          vol,    \* the upgrades node-utils has loaded
          nu,     \* node-utils
          pod,    \* the pod and the image of its application
          app,    \* the application process
          height, \* the block the application executes
          ran,    \* the newest image that committed a block
          pc,     \* where the reconcile stands
          want,   \* the image of the pod spec it built
          target, \* the upgrade it performs
          faults, lost

ctrl == <<pc, want, target>>
vars == <<spec, ups, latest, cm, vol, nu, pod, app, height, ran, ctrl, faults, lost>>

Images == Heights \cup {0}

Statuses == {"none", "image-missing", "scheduled", "ongoing", "completed", "skipped"}

Upgrade == [status : Statuses, source : {"manual", "on-chain"}]

Steps == {"idle", "save", "pod", "required", "publish", "shutdown", "upgrade",
          "upgradeWait", "upgradeCreate", "complete", "revert", "record",
          "delete", "wait", "create"}

\* node-utils as it starts: it has seen no trace yet.
FreshNodeUtils ==
    [alive |-> TRUE, watching |-> TRUE, tracing |-> TRUE, requires |-> FALSE,
     polled |-> "no", latest |-> 0, next |-> height]

----------------------------------------------------------------------------
(* Helpers *)

\* A variant that leaves an upgrade scheduled that the node has passed.
AddOrKeepUpgrade(u, d, h) ==
    IF u.status = "none"
      THEN [status |-> d.status, source |-> d.source]
      ELSE [status |-> IF u.status = "image-missing" /\ d.image THEN "scheduled" ELSE u.status,
            source |-> d.source]

\* AddOrUpdateUpgrade: entry u of the status, at height h, meets definition d.
AddOrUpdateUpgrade(u, d, h) ==
    IF u.status = "none"
      THEN [status |-> d.status, source |-> d.source]
      ELSE [status |-> CASE u.status # "completed" /\ h < latest -> "skipped"
                         [] u.status = "image-missing" /\ d.image -> "scheduled"
                         [] OTHER -> u.status,
            source |-> d.source]

\* What getGovUpgrades returns for a plan at height h.
GovUpgrade(h) ==
    [status |-> IF h \in Docker THEN "scheduled" ELSE "image-missing",
     source |-> "on-chain", image |-> h \in Docker]

\* The upgrade of the spec at height h; one in the past is skipped.
SpecUpgrade(h) ==
    [status |-> IF latest > h THEN "skipped" ELSE "scheduled",
     source |-> IF spec[h] = "forced" THEN "on-chain" ELSE "manual",
     image |-> TRUE]

\* The status merged with the on-chain plans gov, then with the spec.
Merged(gov) ==
    LET g(h) == IF h \in gov THEN AddOrUpdateUpgrade(ups[h], GovUpgrade(h), h)
                             ELSE ups[h]
    IN [h \in Heights |-> IF spec[h] = "none" THEN g(h)
                          ELSE AddOrUpdateUpgrade(g(h), SpecUpgrade(h), h)]

\* The x/upgrade module keeps one plan: the next one.
CurrentPlan == {h \in Plans : h >= height /\ \A p \in Plans : p >= height => h <= p}

\* A variant that counts upgrades from the moment they are scheduled.
ScheduledVersion ==
    Max({0} \cup {h \in Heights : ups[h].status \in {"scheduled", "completed", "skipped", "ongoing"}})

\* A variant that ignores an upgrade that was begun.
FinishedVersion ==
    Max({0} \cup {h \in Heights : /\ ups[h].status \in {"completed", "skipped"}
                                  /\ h <= latest})

\* GetAppVersion
AppVersion ==
    Max({0} \cup {h \in Heights : /\ ups[h].status \in {"completed", "skipped", "ongoing"}
                                  /\ h <= latest})

\* getUpgrade(LatestHeight)
CanUpgrade == latest \in Heights /\ ups[latest].status = "scheduled"

\* GetUpgrade of node-utils: the scheduled upgrades block t has reached.
Due(t) == {h \in Heights : vol[h].status = "scheduled" /\ t >= h}

SetUpgradeStatus(status) == ups' = [ups EXCEPT ![target].status = status]

\* A pod starts: the ConfigMap is mounted, node-utils and the application run.
StartPod(image) ==
    /\ pod' = [state |-> "up", image |-> image]
    /\ app' = "running"
    /\ nu' = FreshNodeUtils
    /\ vol' = cm

----------------------------------------------------------------------------
(* The reconcile: ensureUpgrades *)

\* The plan may or may not be retrieved; the ConfigMap is written first.
EnsureUpgrades ==
    /\ pc = "idle"
    /\ \E gov \in {{}} \cup {IF app = "running" THEN CurrentPlan ELSE {}} : cm' = Merged(gov)
    /\ pc' = "save"
    /\ UNCHANGED <<spec, ups, latest, vol, nu, pod, app, height, ran, want, target, faults, lost>>

SaveUpgrades ==
    /\ pc = "save"
    /\ ups' = cm
    /\ pc' = "pod"
    /\ UNCHANGED <<spec, latest, cm, vol, nu, pod, app, height, ran, want, target, faults, lost>>

----------------------------------------------------------------------------
(* The reconcile: ensurePod *)

\* The pod spec is built, and the pod is looked up: it is missing,
\* terminating, without node-utils (which failed, or does not answer), or it
\* reports its height.
EnsurePod ==
    /\ pc = "pod"
    /\ want' = AppVersion
    /\ CASE pod.state = "none" -> pc' = "create" /\ UNCHANGED <<latest, nu>>
         [] pod.state = "terminating" -> pc' = "wait" /\ UNCHANGED <<latest, nu>>
         [] pod.state = "up" /\ ~nu.alive ->
              /\ \/ pc' = "delete"
                 \/ app # "stopped" /\ pc' = "idle"
              /\ UNCHANGED <<latest, nu>>
         [] OTHER -> /\ pc' = "required"
                     /\ latest' = IF nu.latest = 0 THEN latest ELSE nu.latest
                     /\ nu' = [nu EXCEPT !.polled = IF nu.requires /\ @ = "no" THEN "height" ELSE @]
    /\ UNCHANGED <<spec, ups, cm, vol, pod, app, height, ran, target, faults, lost>>

\* node-utils requires an upgrade: begin it, or fail if none is scheduled for
\* the latest height.  Otherwise recreate a pod that failed or has changed.
CheckRequired ==
    /\ pc = "required"
    /\ nu' = [nu EXCEPT !.polled = IF @ = "height" THEN "yes" ELSE @]
    /\ CASE ~nu.alive \/ (nu.requires /\ ~CanUpgrade) ->
              pc' = "idle" /\ UNCHANGED <<ups, target>>
         [] nu.alive /\ nu.requires /\ CanUpgrade ->
              /\ target' = latest
              /\ ups' = [ups EXCEPT ![latest].status = "ongoing"]
              /\ pc' = "publish"
         [] nu.alive /\ ~nu.requires ->
              /\ pc' = IF app = "stopped" \/ pod.image # want THEN "delete" ELSE "idle"
              /\ UNCHANGED <<ups, target>>
    /\ UNCHANGED <<spec, latest, cm, vol, pod, app, height, ran, want, faults, lost>>

\* setUpgradeStatus ends with the ConfigMap; then configs are generated anew.
Publish ==
    /\ pc \in {"publish", "record"}
    /\ cm' = ups
    /\ pc' = IF pc = "publish" THEN "shutdown" ELSE "idle"
    /\ UNCHANGED <<spec, ups, latest, vol, nu, pod, app, height, ran, want, target, faults, lost>>

----------------------------------------------------------------------------
(* The reconcile: upgradePod *)

\* node-utils is asked to shut down, which stops the application too.
Shutdown ==
    /\ pc = "shutdown"
    /\ pc' = "upgrade"
    /\ \/ /\ nu.alive
          /\ nu' = [nu EXCEPT !.alive = FALSE]
          /\ app' = IF app = "running" THEN "stopping" ELSE app
       \/ UNCHANGED <<nu, app>>
    /\ UNCHANGED <<spec, ups, latest, cm, vol, pod, height, ran, want, target, faults, lost>>

UpgradeDelete ==
    /\ pc = "upgrade"
    /\ pod' = [pod EXCEPT !.state = "terminating"]
    /\ pc' = "upgradeWait"
    /\ UNCHANGED <<spec, ups, latest, cm, vol, nu, app, height, ran, want, target, faults, lost>>

UpgradeWait ==
    /\ pc = "upgradeWait"
    /\ pod.state = "none"
    /\ pc' = "upgradeCreate"
    /\ UNCHANGED <<spec, ups, latest, cm, vol, nu, pod, app, height, ran, want, target, faults, lost>>

\* A variant that does not swap the image.
UpgradeCreateUnswapped ==
    /\ pc = "upgradeCreate"
    /\ StartPod(want)
    /\ pc' = "complete"
    /\ UNCHANGED <<spec, ups, latest, cm, height, ran, want, target, faults, lost>>

UpgradeCreate ==
    /\ pc = "upgradeCreate"
    /\ StartPod(target)
    /\ pc' = "complete"
    /\ UNCHANGED <<spec, ups, latest, cm, height, ran, want, target, faults, lost>>

\* The container started, or failed to: the image was swapped either way.
Complete ==
    /\ pc = "complete"
    /\ SetUpgradeStatus("completed")
    /\ pc' = "record"
    /\ UNCHANGED <<spec, latest, cm, vol, nu, pod, app, height, ran, want, target, faults, lost>>

\* upgradePod returns an error before the pod is created.
UpgradeFails ==
    /\ pc \in {"shutdown", "upgrade", "upgradeWait", "upgradeCreate"}
    /\ faults < MaxFaults
    /\ faults' = faults + 1
    /\ pc' = "revert"
    /\ UNCHANGED <<spec, ups, latest, cm, vol, nu, pod, app, height, ran, want, target, lost>>

\* The pod is created but the reply is lost: an error for the reconcile.
CreateReplyLost ==
    /\ pc = "upgradeCreate"
    /\ lost < MaxLost
    /\ lost' = lost + 1
    /\ StartPod(target)
    /\ pc' = "revert"
    /\ UNCHANGED <<spec, ups, latest, cm, height, ran, want, target, faults>>

Revert ==
    /\ pc = "revert"
    /\ SetUpgradeStatus("scheduled")
    /\ pc' = "record"
    /\ UNCHANGED <<spec, latest, cm, vol, nu, pod, app, height, ran, want, target, faults, lost>>

----------------------------------------------------------------------------
(* The reconcile: recreatePod and createPod *)

\* Deleting a pod that is gone is an error.
Delete ==
    /\ pc = "delete"
    /\ pod' = [pod EXCEPT !.state = IF @ = "none" THEN "none" ELSE "terminating"]
    /\ pc' = IF pod.state = "none" THEN "idle" ELSE "wait"
    /\ UNCHANGED <<spec, ups, latest, cm, vol, nu, app, height, ran, want, target, faults, lost>>

Wait ==
    /\ pc = "wait"
    /\ pod.state = "none"
    /\ pc' = "create"
    /\ UNCHANGED <<spec, ups, latest, cm, vol, nu, pod, app, height, ran, want, target, faults, lost>>

Create ==
    /\ pc = "create"
    /\ StartPod(want)
    /\ pc' = "idle"
    /\ UNCHANGED <<spec, ups, latest, cm, height, ran, want, target, faults, lost>>

\* A call fails, or the manager crashes: the reconcile ends where it stands.
Abort ==
    /\ pc # "idle"
    /\ faults < MaxFaults
    /\ faults' = faults + 1
    /\ pc' = "idle"
    /\ UNCHANGED <<spec, ups, latest, cm, vol, nu, pod, app, height, ran, want, target, lost>>

----------------------------------------------------------------------------
(* node-utils *)

\* One trace of block t: the next block, or more of the one being executed.
\* An on-chain upgrade waits for the panic; a manual one stops the process.
Trace ==
    /\ nu.alive /\ nu.tracing /\ pod.state # "none"
    /\ \E t \in {nu.next, nu.latest} :
         /\ t # 0 /\ t <= height
         /\ t = nu.latest => t = height /\ app = "running"
         /\ LET due == Due(t)
                manual == due # {} /\ vol[Min(due)].source = "manual"
                stopped == manual /\ app = "running"
            IN /\ nu' = [nu EXCEPT !.latest = t, !.next = t + 1,
                                   !.requires = @ \/ due # {},
                                   !.tracing = ~stopped]
               /\ app' = IF stopped THEN "stopping" ELSE app
    /\ UNCHANGED <<spec, ups, latest, cm, vol, pod, height, ran, ctrl, faults, lost>>

\* The kubelet updates the mounted ConfigMap and node-utils reloads it.
LoadConfig ==
    /\ pod.state = "up" /\ nu.alive /\ nu.watching
    /\ vol # cm
    /\ vol' = cm
    /\ UNCHANGED <<spec, ups, latest, cm, nu, pod, app, height, ran, ctrl, faults, lost>>

\* The watcher ends on its first error and is not restarted.
WatchFails ==
    /\ nu.alive /\ nu.watching
    /\ faults < MaxFaults
    /\ faults' = faults + 1
    /\ nu' = [nu EXCEPT !.watching = FALSE]
    /\ UNCHANGED <<spec, ups, latest, cm, vol, pod, app, height, ran, ctrl, lost>>

----------------------------------------------------------------------------
(* The application, the kubelet and the user *)

\* The application refuses a block whose plan asks for another image, and an
\* image whose plan is not reached yet.
Refuses ==
    \/ height \in Plans /\ pod.image < height
    \/ \E p \in Plans : p > height /\ pod.image >= p

CommitBlock ==
    /\ pod.state # "none" /\ app \in {"running", "stopping"}
    /\ ~Refuses
    /\ height < MaxHeight
    /\ nu.alive /\ nu.tracing => height + 1 - nu.next <= MaxLag
    /\ height' = height + 1
    /\ ran' = Max({ran, pod.image})
    /\ UNCHANGED <<spec, ups, latest, cm, vol, nu, pod, app, ctrl, faults, lost>>

\* The application panics, or exits after SIGTERM.  If things are timely,
\* node-utils reads the traces it left before its end is reported.
Exit ==
    /\ Timely /\ nu.alive /\ nu.tracing => nu.next > height
    /\ \/ app = "stopping"
       \/ app = "running" /\ pod.state # "none" /\ Refuses
    /\ app' = "stopped"
    /\ UNCHANGED <<spec, ups, latest, cm, vol, nu, pod, height, ran, ctrl, faults, lost>>

\* The application or node-utils dies of something else.
ProcessDies ==
    /\ pod.state = "up"
    /\ faults < MaxFaults
    /\ faults' = faults + 1
    /\ \/ app = "running" /\ app' = "stopped" /\ UNCHANGED nu
       \/ nu.alive /\ nu' = [nu EXCEPT !.alive = FALSE] /\ UNCHANGED app
    /\ UNCHANGED <<spec, ups, latest, cm, vol, pod, height, ran, ctrl, lost>>

\* Once the application has terminated the kubelet terminates node-utils,
\* which ignores the signal while it requires an upgrade, then kills it.  If
\* things are timely the grace period lets the reconcile poll node-utils.
KillNodeUtils ==
    /\ pod.state = "up" /\ app = "stopped" /\ nu.alive
    /\ Timely /\ nu.requires => nu.polled = "yes"
    /\ nu' = [nu EXCEPT !.alive = FALSE]
    /\ UNCHANGED <<spec, ups, latest, cm, vol, pod, app, height, ran, ctrl, faults, lost>>

\* The kubelet restarts node-utils next to a running application.
RestartNodeUtils ==
    /\ pod.state = "up" /\ app = "running" /\ ~nu.alive
    /\ nu' = FreshNodeUtils
    /\ vol' = cm
    /\ UNCHANGED <<spec, ups, latest, cm, pod, app, height, ran, ctrl, faults, lost>>

PodGone ==
    /\ pod.state = "terminating"
    /\ pod' = [pod EXCEPT !.state = "none"]
    /\ app' = "stopped"
    /\ nu' = [nu EXCEPT !.alive = FALSE]
    /\ UNCHANGED <<spec, ups, latest, cm, vol, height, ran, ctrl, faults, lost>>

\* The user configures an upgrade, forced only where there is a plan.
AddUpgrade ==
    /\ \E h \in Heights :
         /\ spec[h] = "none"
         /\ \E how \in {"manual"} \cup (IF h \in Plans THEN {"forced"} ELSE {}) :
              spec' = [spec EXCEPT ![h] = how]
    /\ UNCHANGED <<ups, latest, cm, vol, nu, pod, app, height, ran, ctrl, faults, lost>>

----------------------------------------------------------------------------
(* The specification *)

NoUpgrade == [status |-> "none", source |-> "manual"]

Init ==
    /\ spec = [h \in Heights |-> "none"]
    /\ ups = [h \in Heights |-> NoUpgrade]
    /\ latest = 0
    /\ cm = ups
    /\ vol = ups
    /\ height = 1
    /\ nu = [FreshNodeUtils EXCEPT !.alive = FALSE]
    /\ pod = [state |-> "none", image |-> 0]
    /\ app = "stopped"
    /\ ran = 0
    /\ pc = "idle"
    /\ want = 0
    /\ target = 0
    /\ faults = 0
    /\ lost = 0

Reconcile ==
    \/ EnsureUpgrades \/ SaveUpgrades \/ EnsurePod \/ CheckRequired \/ Publish
    \/ Shutdown \/ UpgradeDelete \/ UpgradeWait \/ UpgradeCreate \/ Complete
    \/ Revert \/ Delete \/ Wait \/ Create

Faults == UpgradeFails \/ CreateReplyLost \/ Abort \/ WatchFails \/ ProcessDies

Next ==
    \/ Reconcile \/ Faults
    \/ Trace \/ LoadConfig
    \/ CommitBlock \/ Exit \/ KillNodeUtils \/ RestartNodeUtils \/ PodGone
    \/ AddUpgrade

Spec == Init /\ [][Next]_vars

\* The work queue retries, the kubelet acts, and the chain produces blocks.
FairSpec ==
    /\ Spec
    /\ WF_vars(Reconcile) /\ WF_vars(Trace) /\ WF_vars(LoadConfig)
    /\ WF_vars(CommitBlock) /\ WF_vars(Exit) /\ WF_vars(KillNodeUtils)
    /\ WF_vars(RestartNodeUtils) /\ WF_vars(PodGone)

----------------------------------------------------------------------------
(* Properties *)

\* Every variable has its type; in particular an upgrade is performed only at a
\* height there is, and no image is newer than the newest upgrade.
TypeOK ==
    /\ spec \in [Heights -> {"none", "manual", "forced"}]
    /\ ups \in [Heights -> Upgrade]
    /\ latest \in 0..MaxHeight
    /\ cm \in [Heights -> Upgrade]
    /\ vol \in [Heights -> Upgrade]
    /\ nu \in [alive : BOOLEAN, watching : BOOLEAN, tracing : BOOLEAN,
               requires : BOOLEAN, polled : {"no", "height", "yes"}, latest : 0..MaxHeight,
               next : 1..(MaxHeight + 1)]
    /\ pod \in [state : {"none", "up", "terminating"}, image : Images]
    /\ app \in {"running", "stopping", "stopped"}
    /\ height \in 1..MaxHeight
    /\ ran \in Images
    /\ pc \in Steps
    /\ want \in Images
    /\ target \in Images
    /\ faults \in 0..MaxFaults
    /\ lost \in 0..MaxLost

\* A pod never starts with an older image than one that already committed
\* blocks: that would be a downgrade over upgraded data.
NoDowngrade ==
    [][pod.state # "up" /\ pod'.state = "up" => pod'.image >= ran]_vars

\* The same as long as the reply to every pod creation arrives, whatever else
\* fails or crashes between the steps of an upgrade.
NoDowngradeAnswered ==
    [][lost = 0 /\ pod.state # "up" /\ pod'.state = "up" => pod'.image >= ran]_vars

\* An upgrade in status completed is in effect: whatever failed since, a pod
\* that runs carries its image or a newer one.
CompletedIsInEffect ==
    \A h \in Heights :
        ups[h].status = "completed" /\ pod.state = "up" => pod.image >= h

\* No pod runs the image of an upgrade before the chain reached its height.
NotBeforeHeight == pod.state = "up" => pod.image <= height

\* Upgrades whose height the node reached, except for those without an image.
Reached == {h \in Heights : h <= height /\ ups[h].status \notin {"none", "image-missing"}}
Applied == pod.state = "up" /\ \A h \in Reached : pod.image >= h

\* An upgrade whose height the node reaches is carried out, or overtaken by a
\* later one, whatever fails on the way and even if node-utils learns of it
\* late.
UpgradesAreApplied == []<>Applied

----------------------------------------------------------------------------
(* The inductive invariant of the safety properties *)

\* Upgrades that were begun: what counts for the image of a pod.
Begun(u) == u.status \in {"completed", "skipped", "ongoing"}

\* The steps that may end in a pod of the image the pass wanted, and those of
\* an upgrade before its pod is created.
Recreating == {"required", "delete", "wait", "create"}
Upgrading == {"publish", "shutdown", "upgrade", "upgradeWait", "upgradeCreate", "revert"}

\* Nobody is ahead of the chain, node-utils is not behind the reconcile, and no
\* image is ahead of the reconcile.
InOrder ==
    /\ latest <= nu.next /\ nu.latest < nu.next /\ nu.next <= height + 1
    /\ nu.latest = 0 \/ latest <= nu.latest
    /\ latest <= height
    /\ {want, target, pod.image, ran} \subseteq 0..latest

\* Merging neither completes an upgrade nor takes back one that was begun.
MergesKeep ==
    pc = "save" => \A h \in Heights :
        /\ cm[h].status = "completed" => ups[h].status = "completed"
        /\ Begun(ups[h]) => Begun(cm[h])

\* The upgrade that is performed is the one of the latest height.
PerformsOngoing ==
    pc \in Upgrading \cup {"complete"} =>
        /\ target = latest /\ target \in Heights /\ ups[target].status = "ongoing"
        /\ pc = "complete" => pod.image = target

\* A completed upgrade is in the past, and the pods to come have its image.
CompletedStays ==
    \A h \in Heights : ups[h].status = "completed" =>
        /\ h <= latest
        /\ pc \in Recreating => h <= want
        /\ pod.state = "up" => h <= pod.image

\* As long as every reply arrives, an image that ran is the one of the spec or
\* of an upgrade that was begun, and the pods to come are not older.
RanStays ==
    lost = 0 =>
        /\ \A i \in {ran, pod.image} : i = 0 \/ Begun(ups[i])
        /\ pc \in Recreating => /\ want = 0 \/ Begun(ups[want])
                                /\ ran <= want /\ pod.image <= want
        /\ pc \in Upgrading => ran # target /\ pod.image # target

IInv == TypeOK /\ InOrder /\ MergesKeep /\ PerformsOngoing /\ CompletedStays /\ RanStays

=============================================================================
