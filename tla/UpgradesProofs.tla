--------------------------- MODULE UpgradesProofs ---------------------------
(***************************************************************************)
(* Proofs about Upgrades, for all heights, plans and images, any lag of    *)
(* node-utils, any number of faults, and whether or not things are timely. *)
(***************************************************************************)
EXTENDS Upgrades, WellFoundedInduction, TLAPS

\* A set of natural numbers that has an element and a bound has a maximum: the
\* element the least distance below the bound.
LEMMA MaxIsGreatest ==
    ASSUME NEW S \in SUBSET Nat, S # {}, NEW b \in Nat, \A x \in S : x <= b
    PROVE  Max(S) \in S /\ \A x \in S : x <= Max(S)
<1> DEFINE T == {b - x : x \in S}
           R == OpToRel(<, Nat)
<1>1. T \in SUBSET Nat /\ T # {}
  <2>1. PICK e \in S : TRUE
    OBVIOUS
  <2>2. b - e \in T
    BY <2>1
  <2>3. \A x \in S : x \in Nat /\ b - x \in Nat
    OBVIOUS
  <2> QED BY <2>2, <2>3
<1>2. \E t \in T : \A u \in T : ~(<<u, t>> \in R)
  <2>1. IsWellFoundedOn(R, Nat)
    BY NatLessThanWellFounded
  <2> HIDE DEF R, T
  <2> QED BY <1>1, <2>1, WFMin
<1>3. PICK t \in T : \A u \in T : ~(u < t)
  <2> HIDE DEF T
  <2> QED BY <1>1, <1>2 DEF OpToRel
<1>4. PICK m \in S : t = b - m
  BY <1>3
<1>5. ASSUME NEW x \in S PROVE x <= m
  <2>1. b - x \in T
    OBVIOUS
  <2>2. ~(b - x < t)
    BY <1>3, <2>1
  <2>3. x \in Nat /\ m \in Nat
    OBVIOUS
  <2> QED BY <1>4, <2>2, <2>3
<1> QED BY <1>5 DEF Max

\* Images are identified with numbers.
LEMMA HeightsAreNumbers == Heights \subseteq Nat /\ 0 \notin Heights /\ Images \subseteq Nat
BY UpgradesAssumption DEF Images

\* The version is the newest one that was begun, up to the latest height.
LEMMA AppVersionIsNewest ==
    ASSUME TypeOK
    PROVE  /\ AppVersion \in 0..latest
           /\ AppVersion \in Images
           /\ AppVersion = 0 \/ Begun(ups[AppVersion])
           /\ \A h \in Heights : Begun(ups[h]) /\ h <= latest => h <= AppVersion
<1> DEFINE V == {0} \cup {h \in Heights : Begun(ups[h]) /\ h <= latest}
<1>1. V \in SUBSET Nat /\ V # {}
  <2>1. 0 \in V
    OBVIOUS
  <2>2. \A h \in V : h \in Nat
    BY HeightsAreNumbers
  <2> QED BY <2>1, <2>2
<1>2. latest \in Nat /\ \A h \in V : h <= latest
  BY UpgradesAssumption DEF TypeOK
<1>3. AppVersion = Max(V)
  BY DEF AppVersion, Begun
<1>4. Max(V) \in V /\ \A h \in V : h <= Max(V)
  <2> HIDE DEF V
  <2> QED BY <1>1, <1>2, MaxIsGreatest
<1> QED BY <1>1, <1>2, <1>3, <1>4 DEF Images

\* A definition that meets an entry of the status neither completes it nor
\* takes back that it was begun.
LEMMA UpdateKeeps ==
    ASSUME NEW u \in Upgrade, NEW h \in Heights,
           NEW d \in [status : {"scheduled", "skipped", "image-missing"},
                      source : {"manual", "on-chain"}, image : BOOLEAN]
    PROVE  LET v == AddOrUpdateUpgrade(u, d, h)
           IN /\ v \in Upgrade
              /\ v.status = "completed" => u.status = "completed"
              /\ Begun(u) => Begun(v)
BY DEF AddOrUpdateUpgrade, Upgrade, Statuses, Begun

LEMMA MergedKeeps ==
    ASSUME TypeOK, NEW gov
    PROVE  /\ Merged(gov) \in [Heights -> Upgrade]
           /\ \A h \in Heights :
                /\ Merged(gov)[h].status = "completed" => ups[h].status = "completed"
                /\ Begun(ups[h]) => Begun(Merged(gov)[h])
<1> DEFINE g(h) == IF h \in gov THEN AddOrUpdateUpgrade(ups[h], GovUpgrade(h), h) ELSE ups[h]
           m(h) == IF spec[h] = "none" THEN g(h) ELSE AddOrUpdateUpgrade(g(h), SpecUpgrade(h), h)
<1>1. Merged(gov) = [h \in Heights |-> m(h)]
  BY DEF Merged
<1>2. ASSUME NEW h \in Heights
      PROVE  /\ g(h) \in Upgrade
             /\ g(h).status = "completed" => ups[h].status = "completed"
             /\ Begun(ups[h]) => Begun(g(h))
  <2>1. ups[h] \in Upgrade
    BY DEF TypeOK
  <2>2. GovUpgrade(h) \in [status : {"scheduled", "skipped", "image-missing"},
                           source : {"manual", "on-chain"}, image : BOOLEAN]
    BY DEF GovUpgrade
  <2> QED BY <2>1, <2>2, UpdateKeeps
<1>3. ASSUME NEW h \in Heights
      PROVE  /\ m(h) \in Upgrade
             /\ m(h).status = "completed" => ups[h].status = "completed"
             /\ Begun(ups[h]) => Begun(m(h))
  <2>1. SpecUpgrade(h) \in [status : {"scheduled", "skipped", "image-missing"},
                            source : {"manual", "on-chain"}, image : BOOLEAN]
    BY DEF SpecUpgrade
  <2> HIDE DEF g
  <2> QED BY <1>2, <2>1, UpdateKeeps
<1> HIDE DEF m
<1> QED BY <1>1, <1>3

----------------------------------------------------------------------------
(* The steps *)

\* A step of the reconcile before the pod: nothing moves but the status.
LEMMA UpgradesStep ==
    ASSUME IInv, EnsureUpgrades \/ SaveUpgrades \/ Publish
    PROVE  IInv'
<1> USE DEF IInv
<1>1. CASE EnsureUpgrades
  <2>1. PICK gov : cm' = Merged(gov)
    BY <1>1 DEF EnsureUpgrades
  <2>2. cm' \in [Heights -> Upgrade] /\ MergesKeep'
    BY <1>1, <2>1, MergedKeeps DEF EnsureUpgrades, MergesKeep, Begun
  <2> QED BY <1>1, <2>2 DEF EnsureUpgrades, TypeOK, Steps, InOrder, PerformsOngoing, Upgrading,
        CompletedStays, Recreating, RanStays, Begun
<1>2. CASE SaveUpgrades
  <2>1. TypeOK' /\ InOrder' /\ MergesKeep' /\ PerformsOngoing'
    BY <1>2 DEF SaveUpgrades, TypeOK, Steps, InOrder, MergesKeep, PerformsOngoing, Upgrading
  <2>2. CompletedStays'
    BY <1>2 DEF SaveUpgrades, CompletedStays, MergesKeep, Recreating
  <2>3. RanStays'
    BY <1>2 DEF SaveUpgrades, RanStays, MergesKeep, Recreating, Upgrading, TypeOK, Images
  <2> QED BY <2>1, <2>2, <2>3
<1>3. CASE Publish
  BY <1>3 DEF Publish, TypeOK, Steps, InOrder, MergesKeep, PerformsOngoing, Upgrading,
        CompletedStays, Recreating, RanStays, Begun
<1> QED BY <1>1, <1>2, <1>3

\* The pod spec is built: the image it wants is not older than one that ran.
LEMMA EnsurePodStep ==
    ASSUME IInv, EnsurePod
    PROVE  IInv'
<1> USE DEF IInv
<1>1. /\ want' = AppVersion
      /\ UNCHANGED <<spec, ups, cm, vol, pod, app, height, ran, target, faults, lost>>
      /\ pc' \in {"create", "wait", "delete", "idle", "required"}
  BY DEF EnsurePod
<1>2. /\ latest' \in {latest, nu.latest} /\ (latest' = latest \/ nu.latest # 0)
      /\ nu' \in [alive : BOOLEAN, watching : BOOLEAN, tracing : BOOLEAN,
                  requires : BOOLEAN, polled : {"no", "height", "yes"}, latest : 0..MaxHeight,
                  next : 1..(MaxHeight + 1)]
      /\ nu'.latest = nu.latest /\ nu'.next = nu.next
  BY DEF EnsurePod, TypeOK
<1>3. latest <= latest' /\ latest' \in 0..MaxHeight
  BY <1>2, UpgradesAssumption DEF InOrder, TypeOK
<1>4. TypeOK'
  BY <1>1, <1>2, <1>3, AppVersionIsNewest DEF TypeOK, Steps
<1>5. InOrder'
  BY <1>1, <1>2, <1>3, AppVersionIsNewest, UpgradesAssumption DEF InOrder, TypeOK
<1>6. MergesKeep' /\ PerformsOngoing'
  BY <1>1 DEF MergesKeep, PerformsOngoing, Upgrading
<1>7. CompletedStays'
  BY <1>1, <1>3, AppVersionIsNewest, UpgradesAssumption
     DEF CompletedStays, Recreating, Begun, TypeOK
<1>8. RanStays'
  BY <1>1, AppVersionIsNewest, UpgradesAssumption
     DEF RanStays, Recreating, Upgrading, InOrder, TypeOK, Images
<1> QED BY <1>4, <1>5, <1>6, <1>7, <1>8

\* An upgrade is begun only if it was not: no image that ran is its image.
LEMMA CheckRequiredStep ==
    ASSUME IInv, CheckRequired
    PROVE  IInv'
<1> USE DEF IInv
<1>1. /\ UNCHANGED <<spec, latest, cm, vol, pod, app, height, ran, want, faults, lost>>
      /\ nu' = [nu EXCEPT !.polled = IF @ = "height" THEN "yes" ELSE @]
      /\ pc = "required"
  BY DEF CheckRequired
<1>2. CASE pc' \in {"idle", "delete"} /\ UNCHANGED <<ups, target>>
  BY <1>1, <1>2 DEF TypeOK, Steps, InOrder, MergesKeep, PerformsOngoing, Upgrading,
     CompletedStays, Recreating, RanStays, Begun
<1>3. CASE /\ CanUpgrade /\ target' = latest /\ pc' = "publish"
           /\ ups' = [ups EXCEPT ![latest].status = "ongoing"]
  <2>1. /\ latest \in Heights /\ ups[latest].status = "scheduled"
        /\ ups' \in [Heights -> Upgrade]
        /\ \A h \in Heights : ups'[h] = IF h = latest THEN [ups[h] EXCEPT !.status = "ongoing"]
                                        ELSE ups[h]
    <3>1. latest \in Heights /\ ups[latest].status = "scheduled" /\ ups \in [Heights -> Upgrade]
      BY <1>3 DEF CanUpgrade, TypeOK
    <3>2. [ups[latest] EXCEPT !.status = "ongoing"] \in Upgrade
      BY <3>1 DEF Upgrade, Statuses
    <3> QED BY <1>3, <3>1, <3>2
  <2>2. TypeOK'
    BY <1>1, <1>3, <2>1 DEF TypeOK, Steps, Images
  <2>3. InOrder' /\ MergesKeep' /\ PerformsOngoing'
    BY <1>1, <1>3, <2>1 DEF TypeOK, InOrder, MergesKeep, PerformsOngoing, Upgrade
  <2>4. CompletedStays'
    BY <1>1, <1>3, <2>1 DEF TypeOK, CompletedStays, Recreating, Upgrade
  <2>5. lost = 0 => latest # ran /\ latest # pod.image
    BY <2>1, UpgradesAssumption DEF RanStays, Begun
  <2>6. RanStays'
    BY <1>1, <1>3, <2>1, <2>5 DEF TypeOK, RanStays, Recreating, Begun, Upgrade, Images
  <2> QED BY <2>2, <2>3, <2>4, <2>6
<1> QED BY <1>2, <1>3 DEF CheckRequired

\* The steps of an upgrade, and of recreating a pod, that end no pod's life or
\* begin none.
LEMMA PodStep ==
    ASSUME IInv, Shutdown \/ UpgradeDelete \/ UpgradeWait \/ UpgradeFails \/ Delete \/ Wait \/ Abort
    PROVE  IInv'
<1> USE DEF IInv
<1>1. /\ UNCHANGED <<spec, ups, latest, cm, vol, height, ran, want, target, lost>>
      /\ pod' \in [state : {"none", "up", "terminating"}, image : Images]
      /\ pod'.image = pod.image /\ (pod'.state = "up" => pod.state = "up")
      /\ nu' \in [alive : BOOLEAN, watching : BOOLEAN, tracing : BOOLEAN,
                  requires : BOOLEAN, polled : {"no", "height", "yes"}, latest : 0..MaxHeight,
                  next : 1..(MaxHeight + 1)]
      /\ nu'.latest = nu.latest /\ nu'.next = nu.next
      /\ app' \in {"running", "stopping", "stopped"}
      /\ faults' \in 0..MaxFaults
  <2>1. CASE Shutdown
    BY <2>1 DEF Shutdown, TypeOK
  <2>2. CASE UpgradeDelete \/ Delete
    BY <2>2 DEF UpgradeDelete, Delete, TypeOK
  <2>3. CASE UpgradeWait \/ Wait
    BY <2>3 DEF UpgradeWait, Wait, TypeOK
  <2>4. CASE UpgradeFails \/ Abort
    BY <2>4, UpgradesAssumption DEF UpgradeFails, Abort, TypeOK
  <2> QED BY <2>1, <2>2, <2>3, <2>4
<1>2. \/ pc \in Upgrading /\ pc' \in Upgrading
      \/ pc \in Recreating /\ pc' \in Recreating
      \/ pc' = "idle"
  BY DEF Shutdown, UpgradeDelete, UpgradeWait, UpgradeFails, Delete, Wait, Abort, Upgrading,
     Recreating
<1> QED BY <1>1, <1>2 DEF TypeOK, Steps, InOrder, MergesKeep, PerformsOngoing, Upgrading,
     CompletedStays, Recreating, RanStays, Begun

\* A pod starts with the image of the upgrade, or with the one that was wanted.
LEMMA StartStep ==
    ASSUME IInv, UpgradeCreate \/ CreateReplyLost \/ Create
    PROVE  IInv'
<1> USE DEF IInv
<1>1. /\ UNCHANGED <<spec, ups, latest, cm, height, ran, want, target, faults>>
      /\ app' = "running" /\ vol' = cm /\ nu' = FreshNodeUtils
      /\ \/ pc = "upgradeCreate" /\ pc' = "complete" /\ UNCHANGED lost
         \/ pc = "upgradeCreate" /\ pc' = "revert" /\ lost < MaxLost /\ lost' = lost + 1
         \/ pc = "create" /\ pc' = "idle" /\ UNCHANGED lost
      /\ pod' = [state |-> "up", image |-> IF pc = "create" THEN want ELSE target]
  BY DEF UpgradeCreate, CreateReplyLost, Create, StartPod
<1>2. /\ lost' \in 0..MaxLost /\ (lost' = 0 => lost = 0 /\ pc' # "revert")
  BY <1>1, UpgradesAssumption DEF TypeOK
<1>3. TypeOK'
  BY <1>1, <1>2, UpgradesAssumption DEF TypeOK, Steps, FreshNodeUtils
<1>4. InOrder' /\ MergesKeep' /\ PerformsOngoing'
  BY <1>1, UpgradesAssumption
     DEF TypeOK, InOrder, MergesKeep, PerformsOngoing, Upgrading, FreshNodeUtils
<1>5. CompletedStays'
  BY <1>1 DEF TypeOK, CompletedStays, Recreating, PerformsOngoing, Upgrading, InOrder
<1>6. RanStays'
  BY <1>1, <1>2 DEF TypeOK, RanStays, Recreating, PerformsOngoing, Upgrading, InOrder, Begun
<1> QED BY <1>3, <1>4, <1>5, <1>6

\* The outcome of an upgrade is recorded.
LEMMA OutcomeStep ==
    ASSUME IInv, Complete \/ Revert
    PROVE  IInv'
<1> USE DEF IInv
<1>1. /\ UNCHANGED <<spec, latest, cm, vol, nu, pod, app, height, ran, want, target, faults, lost>>
      /\ pc' = "record"
      /\ target = latest /\ target \in Heights
  BY DEF Complete, Revert, PerformsOngoing, Upgrading
<1>2. PICK s \in {"completed", "scheduled"} :
        /\ ups' = [ups EXCEPT ![target].status = s]
        /\ s = "completed" => pc = "complete"
        /\ s = "scheduled" => pc = "revert"
  BY DEF Complete, Revert, SetUpgradeStatus
<1>3. /\ ups' \in [Heights -> Upgrade]
      /\ \A h \in Heights : ups'[h] = IF h = target THEN [ups[h] EXCEPT !.status = s] ELSE ups[h]
      /\ ups'[target].status = s
  <2>1. \A h \in Heights : ups[h] \in Upgrade /\ [ups[h] EXCEPT !.status = s] \in Upgrade
    BY <1>2 DEF TypeOK, Upgrade, Statuses
  <2>2. [ups[target] EXCEPT !.status = s].status = s
    BY <1>1, <2>1 DEF Upgrade
  <2> QED BY <1>1, <1>2, <2>1, <2>2 DEF TypeOK
<1>4. TypeOK' /\ InOrder' /\ MergesKeep' /\ PerformsOngoing'
  BY <1>1, <1>3 DEF TypeOK, Steps, InOrder, MergesKeep, PerformsOngoing, Upgrading
<1>5. CompletedStays'
  BY <1>1, <1>2, <1>3 DEF TypeOK, CompletedStays, Recreating, PerformsOngoing, InOrder
<1>6. RanStays'
  BY <1>1, <1>2, <1>3 DEF TypeOK, RanStays, Recreating, Upgrading, Begun, Images
<1> QED BY <1>4, <1>5, <1>6

\* node-utils, the kubelet and the user leave the reconcile and the status alone.
LEMMA OtherStep ==
    ASSUME IInv, \/ Trace \/ LoadConfig \/ WatchFails \/ Exit \/ ProcessDies
                 \/ KillNodeUtils \/ RestartNodeUtils \/ PodGone \/ AddUpgrade
    PROVE  IInv'
<1> USE DEF IInv
<1>1. UNCHANGED <<ups, latest, cm, height, ran, pc, want, target, lost>>
  BY DEF Trace, LoadConfig, WatchFails, Exit, ProcessDies, KillNodeUtils, RestartNodeUtils,
     PodGone, AddUpgrade, ctrl
<1>2. /\ pod' \in [state : {"none", "up", "terminating"}, image : Images]
      /\ pod'.image = pod.image /\ (pod'.state = "up" => pod.state = "up")
      /\ app' \in {"running", "stopping", "stopped"}
      /\ vol' \in [Heights -> Upgrade]
      /\ faults' \in 0..MaxFaults
      /\ spec' \in [Heights -> {"none", "manual", "forced"}]
  BY UpgradesAssumption DEF Trace, LoadConfig, WatchFails, Exit, ProcessDies, KillNodeUtils,
     RestartNodeUtils, PodGone, AddUpgrade, TypeOK
<1>3. /\ nu' \in [alive : BOOLEAN, watching : BOOLEAN, tracing : BOOLEAN,
                  requires : BOOLEAN, polled : {"no", "height", "yes"}, latest : 0..MaxHeight,
                  next : 1..(MaxHeight + 1)]
      /\ latest <= nu'.next /\ nu'.latest < nu'.next /\ nu'.next <= height + 1
      /\ nu'.latest = 0 \/ latest <= nu'.latest
  <2>1. CASE Trace
    <3>1. PICK t \in {nu.next, nu.latest}, requires \in BOOLEAN, tracing \in BOOLEAN :
            /\ t # 0 /\ t <= height
            /\ nu' = [nu EXCEPT !.latest = t, !.next = t + 1, !.requires = requires,
                                !.tracing = tracing]
      BY <2>1 DEF Trace, TypeOK
    <3>2. t \in 1..MaxHeight
      BY <3>1, UpgradesAssumption DEF TypeOK
    <3>3. latest <= t
      BY <3>1, <3>2, UpgradesAssumption DEF TypeOK, InOrder
    <3>4. nu'.latest = t /\ nu'.next = t + 1
      BY <3>1 DEF TypeOK
    <3>5. nu' \in [alive : BOOLEAN, watching : BOOLEAN, tracing : BOOLEAN,
                    requires : BOOLEAN, polled : {"no", "height", "yes"}, latest : 0..MaxHeight,
                    next : 1..(MaxHeight + 1)]
      <4>1. t \in 0..MaxHeight /\ t + 1 \in 1..(MaxHeight + 1)
        BY <3>2, UpgradesAssumption
      <4> QED BY <3>1, <4>1 DEF TypeOK
    <3>6. height \in Nat /\ latest \in Nat /\ t \in Nat /\ t <= height
      BY <3>1, <3>2, UpgradesAssumption DEF TypeOK
    <3> QED BY <3>3, <3>4, <3>5, <3>6
  <2>2. CASE RestartNodeUtils
    BY <2>2, UpgradesAssumption DEF RestartNodeUtils, FreshNodeUtils, TypeOK, InOrder
  <2>3. CASE LoadConfig \/ WatchFails \/ Exit \/ ProcessDies \/ KillNodeUtils \/ PodGone \/ AddUpgrade
    BY <2>3 DEF LoadConfig, WatchFails, Exit, ProcessDies, KillNodeUtils, PodGone, AddUpgrade,
       TypeOK, InOrder
  <2> QED BY <2>1, <2>2, <2>3
<1>4. TypeOK' /\ InOrder' /\ MergesKeep' /\ PerformsOngoing'
  BY <1>1, <1>2, <1>3 DEF TypeOK, InOrder, MergesKeep, PerformsOngoing
<1>5. CompletedStays' /\ RanStays'
  BY <1>1, <1>2 DEF CompletedStays, RanStays
<1> QED BY <1>4, <1>5

\* A block is committed: the image of the pod has run.
LEMMA CommitBlockStep ==
    ASSUME IInv, CommitBlock
    PROVE  IInv'
<1> USE DEF IInv
<1>1. /\ UNCHANGED <<spec, ups, latest, cm, vol, nu, pod, app, pc, want, target, faults, lost>>
      /\ height < MaxHeight /\ height' = height + 1
      /\ ran' = Max({ran, pod.image})
  BY DEF CommitBlock, ctrl
<1>2. ran' \in {ran, pod.image}
  <2>1. ran \in Nat /\ pod.image \in Nat
    BY HeightsAreNumbers DEF TypeOK
  <2>2. \A x \in {ran, pod.image} : x <= ran + pod.image
    BY <2>1
  <2>3. Max({ran, pod.image}) \in {ran, pod.image}
    BY <2>1, <2>2, MaxIsGreatest
  <2> QED BY <1>1, <2>3
<1>3. TypeOK' /\ InOrder' /\ MergesKeep' /\ PerformsOngoing'
  BY <1>1, <1>2, UpgradesAssumption DEF TypeOK, InOrder, MergesKeep, PerformsOngoing
<1>4. CompletedStays' /\ RanStays'
  BY <1>1, <1>2 DEF CompletedStays, RanStays
<1> QED BY <1>3, <1>4

----------------------------------------------------------------------------
(* The theorems *)

LEMMA IInvStep ==
    ASSUME IInv, [Next]_vars
    PROVE  IInv'
<1>1. CASE UNCHANGED vars
  BY <1>1 DEF vars, ctrl, IInv, TypeOK, InOrder, MergesKeep, PerformsOngoing, CompletedStays, RanStays
<1>2. CASE Next
  BY <1>2, UpgradesStep, EnsurePodStep, CheckRequiredStep, PodStep, StartStep, OutcomeStep,
     OtherStep, CommitBlockStep
     DEF Next, Reconcile, Faults
<1> QED BY <1>1, <1>2

\* The invariant holds of every reachable state.
THEOREM Invariance == Spec => []IInv
<1>1. Init => IInv
  <2> SUFFICES ASSUME Init PROVE IInv
    OBVIOUS
  <2>1. \A h \in Heights : ups[h] = NoUpgrade
    BY DEF Init
  <2>2. TypeOK
    <3>1. NoUpgrade \in Upgrade
      BY DEF NoUpgrade, Upgrade, Statuses
    <3>2. /\ ups \in [Heights -> Upgrade] /\ cm = ups /\ vol = ups
          /\ spec \in [Heights -> {"none", "manual", "forced"}]
      BY <3>1 DEF Init
    <3>3. nu \in [alive : BOOLEAN, watching : BOOLEAN, tracing : BOOLEAN,
                     requires : BOOLEAN, polled : {"no", "height", "yes"}, latest : 0..MaxHeight,
                     next : 1..(MaxHeight + 1)]
      <4>1. nu = [alive |-> FALSE, watching |-> TRUE, tracing |-> TRUE, requires |-> FALSE,
                  polled |-> "no", latest |-> 0, next |-> 1]
        BY DEF Init, FreshNodeUtils
      <4>2. 0 \in 0..MaxHeight /\ 1 \in 1..(MaxHeight + 1)
        BY UpgradesAssumption
      <4> QED BY <4>1, <4>2
    <3>4. /\ pod \in [state : {"none", "up", "terminating"}, image : Images]
          /\ ran \in Images /\ want \in Images /\ target \in Images
      BY DEF Init, Images
    <3> QED BY <3>2, <3>3, <3>4, UpgradesAssumption DEF Init, TypeOK, Steps
  <2>3. InOrder
    BY DEF Init, InOrder, FreshNodeUtils
  <2>4. MergesKeep /\ PerformsOngoing
    BY DEF Init, MergesKeep, PerformsOngoing, Upgrading
  <2>5. CompletedStays /\ RanStays
    BY <2>1 DEF Init, CompletedStays, RanStays, Recreating, Upgrading, NoUpgrade
  <2> QED BY <2>2, <2>3, <2>4, <2>5 DEF IInv
<1> QED BY <1>1, IInvStep, PTL DEF Spec

\* Every variable has its type.
THEOREM TypeCorrect == Spec => []TypeOK
BY Invariance, PTL DEF IInv

\* A pod never runs an image before the chain reached the height of its upgrade,
\* whatever fails and whatever node-utils learns late.
THEOREM NeverEarly == Spec => []NotBeforeHeight
<1>1. IInv => NotBeforeHeight
  BY UpgradesAssumption DEF IInv, TypeOK, InOrder, NotBeforeHeight, Images
<1> QED BY <1>1, Invariance, PTL

\* An upgrade in status completed is in effect in every pod that runs.
THEOREM CompletedForGood == Spec => []CompletedIsInEffect
<1>1. IInv => CompletedIsInEffect
  BY UpgradesAssumption DEF IInv, TypeOK, CompletedStays, CompletedIsInEffect, Images
<1> QED BY <1>1, Invariance, PTL

\* As long as the replies to pod creations arrive, no pod starts with an image
\* older than one that already committed blocks.
THEOREM NeverBack == Spec => NoDowngradeAnswered
<1>1. ASSUME IInv, [Next]_vars
      PROVE  [lost = 0 /\ pod.state # "up" /\ pod'.state = "up" => pod'.image >= ran]_vars
  <2> SUFFICES ASSUME Next, lost = 0, pod.state # "up", pod'.state = "up"
               PROVE  pod'.image >= ran
    BY <1>1
  <2>1. CASE UpgradeCreate \/ CreateReplyLost
    BY <1>1, <2>1, UpgradesAssumption
       DEF UpgradeCreate, CreateReplyLost, StartPod, IInv, TypeOK, InOrder, PerformsOngoing, Upgrading
  <2>2. CASE Create
    BY <1>1, <2>2, UpgradesAssumption
       DEF Create, StartPod, IInv, TypeOK, InOrder, RanStays, Recreating
  <2>3. CASE ~(UpgradeCreate \/ CreateReplyLost \/ Create)
    BY <1>1, <2>3 DEF Next, Reconcile, Faults, EnsureUpgrades, SaveUpgrades, EnsurePod,
       CheckRequired, Publish, Shutdown, UpgradeDelete, UpgradeWait, Complete, Revert, Delete,
       Wait, UpgradeFails, Abort, WatchFails, ProcessDies, Trace, LoadConfig, CommitBlock, Exit,
       KillNodeUtils, RestartNodeUtils, PodGone, AddUpgrade, IInv, TypeOK
  <2> QED BY <2>1, <2>2, <2>3
<1> QED BY <1>1, Invariance, PTL DEF Spec, NoDowngradeAnswered

=============================================================================
