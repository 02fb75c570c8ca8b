---------------------------- MODULE SignerProofs ----------------------------
(***************************************************************************)
(* That a managed signer keeps its raft membership and its slash-          *)
(* protection history, and implements SignerService, for any number of     *)
(* replicas, backends, keys, edits and faults.  The steps of the           *)
(* controller are in SignerLemmas, those of the signer's surroundings in   *)
(* SignerCluster; here are the initial states, the invariant and the       *)
(* theorems it gives, and the refinement.                                  *)
(*                                                                         *)
(* OneKey is what the invariant lacks for the refinement: which key the    *)
(* StatefulSet, the pods and the claims are of, at every point of a pass.  *)
(* First what most steps do to the objects, then the steps that choose a   *)
(* key, serve it or let go of its history.                                 *)
(***************************************************************************)
EXTENDS SignerLemmas, SignerCluster

\* A leaf is for Zenon unless it says otherwise.
USE Zenon DEF Unplanned

(* The invariant *)

LEMMA InitObjects ==
    ASSUME NEW s \in Specs
    PROVE  /\ NoObjects \in SignerObjectsType
           /\ [NoObjects EXCEPT !.taken = TRUE] \in SignerObjectsType
           /\ LeftOver(s) \in SignerObjectsType
           /\ LegacyObjects(s) \in SignerObjectsType
<1> DEFINE conf == [dest |-> s.dest, key |-> FirstKey, ver |-> 0]
           sts == [conf |-> conf, shape |-> s.shape, up |-> TRUE, latched |-> FALSE,
                    ever |-> FALSE, keep |-> FALSE, guarded |-> FALSE, seen |-> TRUE]
           pods == [o \in Ordinals |-> [conf |-> conf, st |-> "ready"]]
           mine == [o \in Ordinals |-> [owner |-> "mine", guard |-> FALSE, going |-> FALSE,
                                           history |-> {FirstKey}, shape |-> s.shape]]
           other == [o \in Ordinals |-> [owner |-> "other", guard |-> FALSE, going |-> FALSE,
                                            history |-> {}, shape |-> s.shape]]
           none == [o \in Ordinals |-> None]
<1>1. conf \in Confs
  BY SignerAssumption DEF Specs, Confs
<1>2. /\ NoObjects = [sts |-> None, pods |-> none, claims |-> none, cm |-> None, taken |-> FALSE]
      /\ LeftOver(s) = [NoObjects EXCEPT !.claims = other]
      /\ LegacyObjects(s) = [NoObjects EXCEPT !.sts = sts, !.pods = pods, !.claims = mine, !.cm = conf]
  BY DEF NoObjects, NoPods, LeftOver, LegacyObjects
<1> HIDE DEF conf
<1>3. sts \in StatefulSets
  BY <1>1 DEF Specs, StatefulSets
<1>4. pods \in [Ordinals -> Pods \cup {None}]
  BY <1>1 DEF Pods
<1>5. mine \in [Ordinals -> PVCs \cup {None}] /\ other \in [Ordinals -> PVCs \cup {None}]
  <2>1. /\ [owner |-> "mine", guard |-> FALSE, going |-> FALSE, history |-> {FirstKey},
            shape |-> s.shape] \in PVCs
        /\ [owner |-> "other", guard |-> FALSE, going |-> FALSE, history |-> {},
            shape |-> s.shape] \in PVCs
    BY SignerAssumption DEF Specs, PVCs
  <2> QED
    BY <2>1
<1>6. none \in [Ordinals -> PVCs \cup {None}] /\ none \in [Ordinals -> Pods \cup {None}]
  OBVIOUS
<1> HIDE DEF sts, pods, mine, other, none
<1>7. NoObjects \in SignerObjectsType
  BY <1>2, <1>6 DEF SignerObjectsType
<1>8. [NoObjects EXCEPT !.taken = TRUE] \in SignerObjectsType
  BY <1>7 DEF SignerObjectsType
<1>9. LeftOver(s) \in SignerObjectsType
  BY <1>2, <1>5, <1>7 DEF SignerObjectsType
<1>10. LegacyObjects(s) \in SignerObjectsType
  <2>1. LegacyObjects(s) = [sts |-> sts, pods |-> pods, claims |-> mine, cm |-> conf, taken |-> FALSE]
    BY <1>2
  <2> QED
    BY <1>1, <1>3, <1>4, <1>5, <2>1, SMT DEF SignerObjectsType
<1> QED
  BY <1>7, <1>8, <1>9, <1>10

LEMMA InitStatus ==
    ASSUME Init
    PROVE  /\ st \in Statuses /\ st.mig = None /\ st.pub \in {None, FirstKey}
           /\ spec \in Specs /\ k \in SignerObjectsType
           /\ \/ /\ k \in {NoObjects, [NoObjects EXCEPT !.taken = TRUE], LeftOver(spec)}
                 /\ st.shape = None /\ served = {}
              \/ k = LegacyObjects(spec) /\ st.shape = spec.shape /\ served = {FirstKey}
<1>1. spec \in Specs /\ spec.shape \in Shapes /\ spec.dest \in Dests
  BY SignerAssumption, SMT DEF Init, Specs
<1>2. NoStatus \in Statuses /\ NoStatus.shape = None /\ NoStatus.pub = None /\ NoStatus.mig = None
  BY DEF NoStatus, Statuses
<1>3. PICK life \in Lives :
          /\ k \in CASE life = "fresh" -> {NoObjects}
                     [] life = "obstructed" -> {LeftOver(spec), [NoObjects EXCEPT !.taken = TRUE]}
                     [] life = "legacy" -> {LegacyObjects(spec)}
          /\ \E applied \in IF life = "legacy" THEN {None, k.cm} ELSE {None} :
                st = IF life # "legacy" THEN NoStatus
                     ELSE [NoStatus EXCEPT !.shape = spec.shape, !.adig = applied,
                                           !.pub = IF applied = None THEN None ELSE FirstKey,
                                           !.sdig = IF val THEN spec.dest ELSE None]
          /\ served = IF life = "legacy" THEN {FirstKey} ELSE {}
  BY DEF Init
<1>4. CASE life # "legacy"
  <2>1. life \in {"fresh", "obstructed"}
    BY <1>4, SignerAssumption
  <2>2. st = NoStatus /\ served = {}
    BY <1>3, <1>4
  <2>3. k \in {NoObjects, [NoObjects EXCEPT !.taken = TRUE], LeftOver(spec)}
    BY <1>3, <2>1
  <2> QED
    BY <1>1, <1>2, <2>2, <2>3, InitObjects
<1>5. CASE life = "legacy"
  <2>1. k = LegacyObjects(spec) /\ served = {FirstKey}
    BY <1>3, <1>5
  <2>2. k \in SignerObjectsType /\ k.cm \in Confs \cup {None}
    BY <1>1, <2>1, InitObjects DEF SignerObjectsType
  <2>3. PICK applied \in Confs \cup {None} :
           st = [NoStatus EXCEPT !.shape = spec.shape, !.adig = applied,
                                 !.pub = IF applied = None THEN None ELSE FirstKey,
                                 !.sdig = IF val THEN spec.dest ELSE None]
    BY <1>3, <1>5, <2>2
  <2> DEFINE pub == IF applied = None THEN None ELSE FirstKey
             sdig == IF val THEN spec.dest ELSE None
  <2>4. st = [shape |-> spec.shape, sdig |-> sdig, adig |-> applied, pub |-> pub, mig |-> None,
              imp |-> None, ver |-> None]
    BY <2>3 DEF NoStatus
  <2>5. pub \in {None, FirstKey} /\ pub \in Keys \cup {None} /\ sdig \in Dests \cup {None}
    BY <1>1, SignerAssumption
  <2> HIDE DEF pub, sdig
  <2>6. st \in Statuses /\ st.mig = None /\ st.pub = pub /\ st.shape = spec.shape
    BY <1>1, <2>4, <2>5 DEF Statuses
  <2> QED
    BY <1>1, <2>1, <2>2, <2>5, <2>6
<1> QED
  BY <1>4, <1>5

LEMMA InitIInv == ASSUME Init PROVE IInv
<1>1. /\ st \in Statuses /\ st.mig = None /\ st.pub \in {None, FirstKey}
      /\ spec \in Specs /\ k \in SignerObjectsType
      /\ \/ /\ k \in {NoObjects, [NoObjects EXCEPT !.taken = TRUE], LeftOver(spec)}
            /\ st.shape = None /\ served = {}
         \/ k = LegacyObjects(spec) /\ st.shape = spec.shape /\ served = {FirstKey}
  BY InitStatus
<1>2. /\ pc = "idle" /\ loc = NoLoc /\ root = "alive" /\ wiped = {} /\ lost = FALSE
      /\ job = None /\ ckr = {} /\ src = FirstKey /\ edits = 0 /\ faults = 0
      /\ val \in BOOLEAN /\ onChain \in Keys \cup {None} /\ (val => onChain = FirstKey)
  BY SignerAssumption DEF Init
<1>3. kms \in [Dests -> Seq(Versions)]
  <2>1. [key |-> HeldKey, ready |-> TRUE] \in Versions
    BY SignerAssumption DEF Versions
  <2>2. <<[key |-> HeldKey, ready |-> TRUE]>> \in Seq(Versions) /\ <<>> \in Seq(Versions)
    BY <2>1, SMT
  <2> QED
    BY <2>2 DEF Init, NoVersions
<1>4. TypeOK
  <2>1. served \subseteq Keys
    BY <1>1, SignerAssumption
  <2>2. edits \in 0..MaxEdits /\ faults \in 0..MaxFaults
    BY <1>2, SignerAssumption, SMT
  <2>3. src \in Keys \cup {None}
    BY <1>2, SignerAssumption
  <2> QED
    BY <1>1, <1>2, <1>3, <2>1, <2>2, <2>3, LocTypes DEF TypeOK, Steps
<1>5. WorksUnderLock /\ StoppedForReset /\ SameKey
  BY <1>1, <1>2 DEF WorksUnderLock, StoppedForReset, SameKey, NoLoc
<1>6. CASE /\ k \in {NoObjects, [NoObjects EXCEPT !.taken = TRUE], LeftOver(spec)}
           /\ st.shape = None /\ served = {}
  <2>1. k.sts = None /\ \A o \in Ordinals : k.pods[o] = None /\ ~Owned(k.claims[o])
    BY <1>6, SMT DEF NoObjects, NoPods, LeftOver, Owned
  <2>2. \A o \in Ordinals : k.claims[o] # None => k.claims[o].history = {}
    BY <1>6, SMT DEF NoObjects, LeftOver
  <2>3. OneMembership /\ NothingGivenUp
    BY <1>2, <1>6, <2>1 DEF OneMembership, NothingGivenUp
  <2>4. Guarded
    BY <1>2, <2>1, <2>2 DEF Guarded, Unprotected
  <2>5. Remembered
    BY <1>2, <1>6, <2>1 DEF Remembered, Ready
  <2> QED
    BY <1>4, <1>5, <2>3, <2>4, <2>5 DEF IInv
<1>7. CASE k = LegacyObjects(spec) /\ st.shape = spec.shape /\ served = {FirstKey}
  <2> DEFINE conf == [dest |-> spec.dest, key |-> FirstKey, ver |-> 0]
  <2>1. /\ k.sts # None /\ k.sts.shape = spec.shape /\ k.sts.guarded = FALSE /\ k.sts.conf = conf
        /\ \A o \in Ordinals : /\ k.pods[o] # None /\ k.pods[o].conf = conf
                               /\ k.claims[o] # None /\ k.claims[o].owner = "mine"
                               /\ k.claims[o].guard = FALSE /\ k.claims[o].going = FALSE
                               /\ k.claims[o].history = {FirstKey} /\ k.claims[o].shape = spec.shape
    <3>1. /\ k.sts = [conf |-> conf, shape |-> spec.shape, up |-> TRUE, latched |-> FALSE,
                      ever |-> FALSE, keep |-> FALSE, guarded |-> FALSE, seen |-> TRUE]
          /\ \A o \in Ordinals :
                /\ k.pods[o] = [conf |-> conf, st |-> "ready"]
                /\ k.claims[o] = [owner |-> "mine", guard |-> FALSE, going |-> FALSE,
                                  history |-> {FirstKey}, shape |-> spec.shape]
      BY <1>7 DEF LegacyObjects, NoObjects
    <3>2. conf \in Confs /\ spec.shape \in Shapes
      BY <1>1, SignerAssumption DEF Specs, Confs
    <3> HIDE DEF conf
    <3>3. k.sts \in StatefulSets
      BY <3>1, <3>2, SMT DEF StatefulSets
    <3> DEFINE p == [conf |-> conf, st |-> "ready"]
               c == [owner |-> "mine", guard |-> FALSE, going |-> FALSE, history |-> {FirstKey},
                     shape |-> spec.shape]
    <3>4. p \in Pods /\ p.conf = conf
      BY <3>2 DEF Pods
    <3>5. /\ c \in PVCs /\ c.owner = "mine" /\ c.guard = FALSE /\ c.going = FALSE
          /\ c.history = {FirstKey} /\ c.shape = spec.shape
      <4>1. FirstKey \in Keys
        BY SignerAssumption
      <4>2. c \in PVCs
        BY <3>2, <4>1 DEF PVCs
      <4>3. /\ c.owner = "mine" /\ c.guard = FALSE /\ c.going = FALSE
            /\ c.history = {FirstKey} /\ c.shape = spec.shape
        OBVIOUS
      <4> QED
        BY <4>2, <4>3
    <3>6. k.sts # None /\ k.sts.shape = spec.shape /\ k.sts.guarded = FALSE /\ k.sts.conf = conf
      <4> DEFINE s == [conf |-> conf, shape |-> spec.shape, up |-> TRUE, latched |-> FALSE,
                       ever |-> FALSE, keep |-> FALSE, guarded |-> FALSE, seen |-> TRUE]
      <4>1. s.shape = spec.shape /\ s.guarded = FALSE /\ s.conf = conf
        OBVIOUS
      <4>2. k.sts = s
        BY <3>1
      <4> HIDE DEF s
      <4> QED
        BY <3>3, <4>1, <4>2, NoneIsNoObject
    <3>7. \A o \in Ordinals : k.pods[o] = p /\ k.claims[o] = c
      BY <3>1
    <3> HIDE DEF p, c
    <3> QED
      BY <3>4, <3>5, <3>6, <3>7, NoneIsNoObject
  <2>2. conf.key = FirstKey
    OBVIOUS
  <2> HIDE DEF conf
  <2>3. spec.shape # None
    BY <1>1, NoneIsNoObject DEF Specs
  <2>4. OneMembership /\ NothingGivenUp
    BY <1>2, <1>7, <2>1, <2>3 DEF OneMembership, NothingGivenUp, Owned
  <2>5. Guarded
    BY <1>2, <2>1, <2>2 DEF Guarded, Unprotected, Owned
  <2>6. Remembered
    <3>1. FirstKey \in HistoryOf(k)
      BY <2>1, SignerAssumption, SMT DEF HistoryOf
    <3> QED
      BY <1>2, <1>7, <2>1, <2>2, <3>1 DEF Remembered, Ready
  <2> QED
    BY <1>4, <1>5, <2>4, <2>5, <2>6 DEF IInv
<1> QED
  BY <1>1, <1>6, <1>7

LEMMA IInvStep == ASSUME IInv, [Next]_vars PROVE IInv'
<1>1. CASE UNCHANGED vars
  <2>1. TypeOK'
    BY <1>1 DEF IInv, TypeOK, vars
  <2>2. Quiet /\ Moves
    BY <1>1 DEF Quiet, Moves, vars
  <2> QED
    BY <1>1, <2>1, <2>2, SameIsCalm, PassStep DEF IInv, TypeOK, vars, Unprotected
<1>2. CASE Controller
  BY <1>2, PrepareStep, RemoveStep, ClearStatusStep, PreflightParamsStep, PreflightObjectsStep, LocksStep,
     MigrateFirstStep, MigrateStep, ImportCallStep, RunJobStep, JobWaitStep, JobDoneStep,
     JobCleanStep, VerifyStep, ApplyConfigStep, ApplyStsStep, RecordDigestStep, MarkStep,
     RecordStep, ClaimsStep, FinalizeStep DEF Controller
<1>3. CASE Cluster
  BY <1>3, KubeStep, ImportRunsStep, VersionReadyStep DEF Cluster
<1>4. CASE Next /\ ~Controller /\ ~Cluster
  BY <1>4, EditStep, DeleteRootStep, FreeNameStep, PreflightConflictStep, AbortStep,
     StatusLostStep, JobLostStep, EvictStep, DeleteClaimStep, DeleteStsStep DEF Next
<1> QED
  BY <1>1, <1>2, <1>3, <1>4

\* The inductive invariant of the signer, for every number of replicas, set of
\* backends, keys and shapes, and every number of edits and faults.
THEOREM Invariance == Spec => []IInv
<1>1. Init => IInv
  BY InitIInv
<1>2. IInv /\ [Next]_vars => IInv'
  BY IInvStep
<1> QED
  BY <1>1, <1>2, PTL DEF Spec

\* Type correctness of the signer's controller.
THEOREM TypeCorrect == Spec => []TypeOK
<1>1. IInv => TypeOK
  BY DEF IInv
<1> QED
  BY <1>1, Invariance, PTL

\* No pod ever mounts a claim under another raft membership or storage than the
\* claim was created with.
THEOREM MembershipIsKept == Spec => []MembershipKept
<1>1. IInv => MembershipKept
  BY DEF IInv, OneMembership, MembershipKept, Owned
<1> QED
  BY <1>1, Invariance, PTL

\* No pod is started for a key whose slash-protection history is gone, unless it
\* was given up on purpose; and a validator that lives gives up none while its
\* status is not lost.
THEOREM HistoryIsKept == Spec => []HistoryKept
<1>1. IInv => HistoryKept
  BY DEF IInv, TypeOK, Guarded, Remembered, NothingGivenUp, HistoryKept, SignerPodsGone
<1> QED
  BY <1>1, Invariance, PTL

----------------------------------------------------------------------------
(* What most steps do to the objects *)

\* The pods that can sign afterwards were there with the same key, and the
\* histories stay.
Peaceful(a, b) ==
    /\ \A i \in Ordinals : b.pods[i] # None =>
          \/ a.pods[i] # None /\ b.pods[i].conf = a.pods[i].conf
          \/ b.pods[i].st = "starting"
    /\ HistoryOf(b) = HistoryOf(a)

\* What starts has the configuration of the StatefulSet, which keeps it, and
\* the claims keep their histories and guards.
Gentle(a, b) ==
    /\ b.sts # None => a.sts # None /\ b.sts.conf = a.sts.conf
    /\ \A i \in Ordinals : b.pods[i] # None =>
          \/ a.pods[i] # None /\ b.pods[i].conf = a.pods[i].conf
          \/ a.sts # None /\ b.pods[i].conf = a.sts.conf /\ b.pods[i].st = "starting"
    /\ \A i \in Ordinals : b.claims[i] # None /\ b.claims[i].history # {} =>
          /\ a.claims[i] # None /\ b.claims[i].history = a.claims[i].history
          /\ a.claims[i].guard => b.claims[i].guard
    /\ \A i \in Ordinals : a.claims[i] # None /\ a.claims[i].history # {} =>
          b.claims[i] # None /\ b.claims[i].history = a.claims[i].history

LEMMA GentleIsPeaceful == ASSUME NEW a, NEW b, Gentle(a, b) PROVE Peaceful(a, b)
<1>1. \A x : x \in HistoryOf(b) => x \in HistoryOf(a)
  BY DEF Gentle, HistoryOf
<1>2. \A x : x \in HistoryOf(a) => x \in HistoryOf(b)
  BY DEF Gentle, HistoryOf
<1>3. HistoryOf(b) = HistoryOf(a)
  BY <1>1, <1>2
<1> QED
  BY <1>3 DEF Gentle, Peaceful

LEMMA CalmIsGentle == ASSUME NEW a, NEW b, Calm(a, b) PROVE Gentle(a, b)
BY DEF Calm, Gentle

\* The objects stay with the keys they were of.
Loyal(a, b) ==
    /\ \A x : /\ Pinned(a, x) => Pinned(b, x)
              /\ Bound(a, x) => Bound(b, x)
              /\ Sole(a, x) => Sole(b, x)
    /\ b.sts # None \/ ~SignerPodsGone(b) => a.sts # None \/ ~SignerPodsGone(a)

LEMMA GentleIsLoyal == ASSUME NEW a, NEW b, Gentle(a, b) PROVE Loyal(a, b)
<1>1. ASSUME NEW x PROVE Pinned(a, x) => Pinned(b, x)
  BY DEF Gentle, Pinned
<1>2. ASSUME NEW x PROVE Bound(a, x) => Bound(b, x)
  BY <1>1 DEF Gentle, Bound
<1>3. ASSUME NEW x PROVE Sole(a, x) => Sole(b, x)
  BY <1>1 DEF Gentle, Sole
<1>4. b.sts # None \/ ~SignerPodsGone(b) => a.sts # None \/ ~SignerPodsGone(a)
  BY DEF Gentle, SignerPodsGone
<1> QED
  BY <1>1, <1>2, <1>3, <1>4 DEF Loyal

LEMMA Weaker ==
    ASSUME NEW a, NEW x
    PROVE  (Sole(a, x) => Bound(a, x)) /\ (Bound(a, x) => Pinned(a, x))
BY DEF Sole, Bound

LEMMA OnePin ==
    ASSUME NEW a, NEW x, NEW y, Pinned(a, x), Pinned(a, y), a.sts # None \/ ~SignerPodsGone(a)
    PROVE  x = y
<1>1. CASE a.sts # None
  BY <1>1 DEF Pinned
<1>2. CASE ~SignerPodsGone(a)
  <2>1. PICK i \in Ordinals : a.pods[i] # None
    BY <1>2 DEF SignerPodsGone
  <2>2. a.pods[i].conf.key = x
    BY <2>1 DEF Pinned
  <2>3. a.pods[i].conf.key = y
    BY <2>1 DEF Pinned
  <2> QED
    BY <2>2, <2>3
<1> QED
  BY <1>1, <1>2

\* What the status says of the key stays.
KeyKept ==
    /\ val' = val /\ st'.adig = st.adig /\ st'.pub = st.pub /\ st'.mig = st.mig
    /\ st'.sdig = st.sdig \/ val

\* The pass ends, starts, or goes on without choosing a key or passing the migration.
Onward ==
    \/ pc' \in Unplanned
    \/ /\ pc \notin Unplanned /\ loc'.conf = loc.conf
       /\ pc' \notin {"locks", "migrate"} => pc \notin {"locks", "migrate"}

\* OneKey of the next state, conjunct by conjunct.
LEMMA OneKeyNext ==
    ASSUME val' => Sole(k', FirstKey),
           k'.sts # None \/ ~SignerPodsGone(k') => \E x \in Keys : Bound(k', x),
           st'.adig # None /\ st'.mig = None => Pinned(k', st'.pub),
           st'.mig # None =>
             /\ st'.adig # None
             /\ st'.mig.phase \in {"recreating", "rollingOut"} =>
                   Pinned(k', st'.mig.want.key) /\ (st'.mig.reset => Sole(k', st'.mig.want.key)),
           ~val' => st'.sdig = None,
           pc' \notin Unplanned /\ st'.adig = None => Bound(k', loc'.conf.key),
           pc' \notin Unplanned \cup {"locks", "migrate"} =>
             /\ Pinned(k', loc'.conf.key)
             /\ st'.adig # None /\ st'.mig = None => st'.pub = loc'.conf.key
             /\ st'.mig # None => st'.mig.phase = "rollingOut" /\ st'.mig.want = loc'.conf
    PROVE  OneKey'
BY DEF OneKey, Pinned, Bound, Sole, SignerPodsGone

LEMMA LoyalStep == ASSUME OneKey, Loyal(k, k'), KeyKept, Onward PROVE OneKey'
<1> USE DEF KeyKept
<1>1. /\ \A x : /\ Pinned(k, x) => Pinned(k', x)
                /\ Bound(k, x) => Bound(k', x)
                /\ Sole(k, x) => Sole(k', x)
      /\ k'.sts # None \/ ~SignerPodsGone(k') => k.sts # None \/ ~SignerPodsGone(k)
  BY DEF Loyal
<1>2. val' => Sole(k', FirstKey)
  BY <1>1 DEF OneKey
<1>3. k'.sts # None \/ ~SignerPodsGone(k') => \E x \in Keys : Bound(k', x)
  BY <1>1 DEF OneKey
<1>4. st'.adig # None /\ st'.mig = None => Pinned(k', st'.pub)
  BY <1>1 DEF OneKey
<1>5. st'.mig # None =>
         /\ st'.adig # None
         /\ st'.mig.phase \in {"recreating", "rollingOut"} =>
               Pinned(k', st'.mig.want.key) /\ (st'.mig.reset => Sole(k', st'.mig.want.key))
  BY <1>1 DEF OneKey
<1>6. ~val' => st'.sdig = None
  BY DEF OneKey
<1>7. pc' \notin Unplanned /\ st'.adig = None => Bound(k', loc'.conf.key)
  BY <1>1 DEF OneKey, Onward
<1>8. pc' \notin Unplanned \cup {"locks", "migrate"} =>
         /\ Pinned(k', loc'.conf.key)
         /\ st'.adig # None /\ st'.mig = None => st'.pub = loc'.conf.key
         /\ st'.mig # None => st'.mig.phase = "rollingOut" /\ st'.mig.want = loc'.conf
  BY <1>1 DEF OneKey, Onward
<1> QED
  BY <1>2, <1>3, <1>4, <1>5, <1>6, <1>7, <1>8, OneKeyNext

\* Most steps are gentle and leave the key to the pass that chose it.
Ordinary == Gentle(k, k') /\ KeyKept /\ Onward

LEMMA OrdinaryStep == ASSUME OneKey, Ordinary PROVE OneKey' /\ Peaceful(k, k')
BY GentleIsLoyal, GentleIsPeaceful, LoyalStep DEF Ordinary

----------------------------------------------------------------------------
(* The ordinary steps *)

LEMMA SameIsGentle == ASSUME IInv, k' = k PROVE Gentle(k, k')
BY SameIsCalm, CalmIsGentle DEF IInv, TypeOK

\* Steps that leave objects and status alone.
LEMMA NothingChanged == ASSUME IInv, k' = k, st' = st, val' = val, Onward PROVE Ordinary
BY SameIsGentle DEF Ordinary, KeyKept

LEMMA PassesOn ==
    ASSUME IInv, PreflightParams \/ RunJob \/ JobWait \/ JobClean \/ Claims \/ Abort
    PROVE  Ordinary
<1>1. CASE PreflightParams \/ Claims \/ Abort
  <2>1. k' = k /\ st' = st /\ val' = val /\ pc' = "idle"
    BY <1>1 DEF PreflightParams, Claims, Abort, Return, signer, ghost
  <2> QED
    BY <2>1, NothingChanged DEF Onward
<1>2. CASE RunJob \/ JobWait \/ JobClean
  <2>1. /\ k' = k /\ st' = st /\ val' = val /\ pc \in {"job", "jobWait", "jobResume", "jobClean"}
        /\ pc' = "idle" \/ loc' = loc \/ loc' = [loc EXCEPT !.ver = job.n]
    BY <1>2 DEF RunJob, JobWait, JobClean, Goto, Return, ReadLog, ghost
  <2>2. loc \in Locs
    BY DEF IInv, TypeOK
  <2>3. pc' = "idle" \/ loc'.conf = loc.conf
    BY <2>1, <2>2 DEF Locs
  <2> QED
    BY <2>1, <2>3, NothingChanged DEF Onward
<1> QED
  BY <1>1, <1>2

LEMMA GoesOnAround ==
    ASSUME IInv, Edit \/ EditSecret \/ VersionReady \/ ImportRuns \/ JobLost
    PROVE  Ordinary
<1>1. k' = k /\ st' = st /\ val' = val /\ pc' = pc
  BY DEF Edit, EditSecret, VersionReady, ImportRuns, JobLost, Outdated, run, ghost
<1>2. loc'.conf = loc.conf
  <2>1. loc' = loc \/ Outdated
    BY DEF Edit, EditSecret, VersionReady, ImportRuns, JobLost, run
  <2> QED
    BY <2>1, LocTypes DEF Outdated, IInv, TypeOK
<1> QED
  BY <1>1, <1>2, NothingChanged DEF Onward

LEMMA RecordsOn ==
    ASSUME IInv, JobDone \/ Verify("verify") \/ Verify("verifyNew") \/ RecordDigest \/ Locks
    PROVE  Ordinary
<1>1. k' = k /\ val' = val
  BY DEF JobDone, Verify, RecordDigest, Locks, ghost
<1>2. \/ st' = st
      \/ st' = [st EXCEPT !.imp = [dest |-> loc.spec.dest, key |-> loc.mat]]
      \/ st' = [st EXCEPT !.ver = [dest |-> loc.spec.dest, n |-> loc.ver]]
      \/ st' = [st EXCEPT !.shape = ReadSignerLock(k, loc.spec.shape)]
      \/ val /\ st' = [st EXCEPT !.sdig = loc.spec.dest]
  BY DEF JobDone, Verify, RecordDigest, Locks
<1>3. KeyKept
  <2>1. st \in Statuses
    BY DEF IInv, TypeOK
  <2>2. st'.adig = st.adig /\ st'.pub = st.pub /\ st'.mig = st.mig /\ (st'.sdig = st.sdig \/ val)
    BY <1>2, <2>1 DEF Statuses
  <2> QED
    BY <1>1, <2>2 DEF KeyKept
<1>4. \/ pc' = "idle"
      \/ loc' = loc /\ pc = "locks" /\ pc' = "migrate"
      \/ /\ loc' = loc \/ loc' = [loc EXCEPT !.fresh = TRUE]
         /\ pc \in {"jobDone", "verify", "verifyNew", "digest"}
  BY DEF JobDone, Verify, RecordDigest, Locks, Goto, Refreshed, Return
<1>5. Onward
  <2>1. pc' = "idle" \/ loc'.conf = loc.conf
    BY <1>4, LocTypes DEF IInv, TypeOK
  <2> QED
    BY <1>4, <2>1 DEF Onward
<1> QED
  BY <1>1, <1>3, <1>5, SameIsGentle DEF Ordinary

LEMMA CallsOn ==
    ASSUME IInv, Import("import", "import2") \/ Import("import2", "config") \/ ApplyConfig \/ Mark
                 \/ PreflightConflict
    PROVE  Ordinary
<1>1. k \in SignerObjectsType /\ loc \in Locs
  BY DEF IInv, TypeOK
<1>2. CASE Import("import", "import2") \/ Import("import2", "config")
  <2>1. st' = st /\ val' = val /\ pc \in {"import", "import2"} /\ k' \in {k, ScaleDown(k).k}
    BY <1>2 DEF Import, Objects, ghost
  <2>2. pc' = "idle" \/ loc' = loc \/ loc' = [loc EXCEPT !.mat = src]
    BY <1>2 DEF Import, Goto, Return
  <2>3. pc' = "idle" \/ loc'.conf = loc.conf
    BY <1>1, <2>2 DEF Locs
  <2>4. Gentle(k, k')
    BY <1>1, <2>1, ScaleDownIsCalm, SameIsCalm, CalmIsGentle
  <2> QED
    BY <2>1, <2>3, <2>4 DEF Ordinary, KeyKept, Onward
<1>3. CASE ApplyConfig
  <2>1. /\ st' = st /\ val' = val /\ pc = "config" /\ (pc' = "idle" \/ loc' = loc)
        /\ k' = k \/ k' = [k EXCEPT !.cm = loc.conf]
    BY <1>3 DEF ApplyConfig, Goto, Return, ghost
  <2>2. k'.sts = k.sts /\ k'.pods = k.pods /\ k'.claims = k.claims
    BY <1>1, <2>1 DEF SignerObjectsType
  <2>3. Gentle(k, k')
    BY <2>2 DEF Gentle
  <2> QED
    BY <2>1, <2>3 DEF Ordinary, KeyKept, Onward
<1>4. CASE Mark
  <2>1. st' = st /\ val' = val /\ pc = "mark" /\ (pc' = "idle" \/ loc' = loc) /\ k' = MarkEverRolledOut(k).k
    BY <1>4 DEF Mark, Objects, Goto, Return, ghost
  <2>2. Gentle(k, k')
    BY <1>1, <2>1, MarkIsCalm, CalmIsGentle
  <2> QED
    BY <2>1, <2>2 DEF Ordinary, KeyKept, Onward
<1>5. CASE PreflightConflict
  <2>1. st' = st /\ val' = val /\ pc' = "idle" /\ k' = ScaleDown(k).k
    BY <1>5 DEF PreflightConflict, Objects, Return, ghost
  <2>2. Gentle(k, k')
    BY <1>1, <2>1, ScaleDownIsCalm, CalmIsGentle
  <2> QED
    BY <2>1, <2>2 DEF Ordinary, KeyKept, Onward
<1> QED
  BY <1>2, <1>3, <1>4, <1>5

----------------------------------------------------------------------------
(* Guards, faults and Kubernetes *)

LEMMA PrepareIs == ASSUME IInv, Prepare PROVE Ordinary
<1> DEFINE g == OnOwnedClaims(k, Guard)
<1>1. k \in SignerObjectsType
  BY DEF IInv, TypeOK
<1>2. /\ k' = ProtectRetainedStatePVCs(k).k /\ st' = st /\ val' = val
      /\ pc' = "preflight" \/ (pc' = pc /\ loc' = loc)
  BY DEF Prepare, Objects, run, ghost
<1>3. /\ g \in SignerObjectsType /\ SameStates(k.claims, g.claims)
      /\ g.sts = k.sts /\ g.pods = k.pods
      /\ \A o \in Ordinals : k.claims[o] # None => (k.claims[o].guard => g.claims[o].guard)
  BY <1>1, GuardKeepsStates
<1>4. Calm(g, k')
  BY <1>2, <1>3, SameIsCalm, DeleteIsCalm DEF ProtectRetainedStatePVCs, Result
<1> HIDE DEF g
<1>5. /\ k'.pods = k.pods /\ k'.claims = g.claims
      /\ k'.sts # None => k.sts # None /\ k'.sts.conf = k.sts.conf
  BY <1>3, <1>4 DEF Calm
<1>6. \A i \in Ordinals :
        /\ k'.claims[i] = None <=> k.claims[i] = None
        /\ k.claims[i] # None => /\ k'.claims[i].history = k.claims[i].history
                                 /\ k.claims[i].guard => k'.claims[i].guard
  BY <1>3, <1>5 DEF SameStates
<1>7. Gentle(k, k')
  BY <1>5, <1>6 DEF Gentle
<1> QED
  BY <1>2, <1>7 DEF Ordinary, KeyKept, Onward

\* A pod that stops.
LEMMA StoppedPod ==
    ASSUME NEW a \in SignerObjectsType, NEW o \in Ordinals, a.pods[o] # None
    PROVE  Gentle(a, [a EXCEPT !.pods[o].st = "going"])
<1> DEFINE p == [a.pods[o] EXCEPT !.st = "going"]
           b == [a EXCEPT !.pods[o] = p]
<1>1. a.pods[o] \in Pods
  BY DEF SignerObjectsType
<1>2. p \in Pods \cup {None} /\ p.conf = a.pods[o].conf
  BY <1>1 DEF Pods
<1>3. [a EXCEPT !.pods[o].st = "going"] = b
  OBVIOUS
<1> HIDE DEF p
<1>4. /\ b.sts = a.sts /\ b.claims = a.claims
      /\ \A i \in Ordinals : b.pods[i] = IF i = o THEN p ELSE a.pods[i]
  BY <1>2, AtPod
<1> HIDE DEF b
<1>5. \A i \in Ordinals : b.pods[i] # None => a.pods[i] # None /\ b.pods[i].conf = a.pods[i].conf
  BY <1>2, <1>4
<1>6. Gentle(a, b)
  BY <1>4, <1>5 DEF Gentle
<1> QED
  BY <1>3, <1>6

LEMMA FaultsAre == ASSUME IInv, Evict \/ DeleteClaim \/ DeleteSts \/ FreeName \/ DeleteRoot PROVE Ordinary
<1>1. k \in SignerObjectsType /\ k.claims \in [Ordinals -> PVCs \cup {None}]
  BY DEF IInv, TypeOK, SignerObjectsType
<1>2. KeyKept /\ Onward
  <2>1. loc' = loc \/ Outdated
    BY DEF Evict, DeleteClaim, DeleteSts, FreeName, DeleteRoot, run
  <2>2. loc'.conf = loc.conf /\ pc' = pc
    BY <2>1, LocTypes DEF Outdated, IInv, TypeOK, Evict, DeleteClaim, DeleteSts, FreeName, DeleteRoot, run
  <2> QED
    BY <2>2 DEF Evict, DeleteClaim, DeleteSts, FreeName, DeleteRoot, ghost, KeyKept, Onward
<1>3. \A x \in PVCs : LET y == [x EXCEPT !.going = TRUE]
                      IN  y \in PVCs /\ y.guard = x.guard /\ y.history = x.history
  BY DEF PVCs
<1>4. CASE Evict
  <2>1. PICK o \in Ordinals : k.pods[o] # None /\ k' = [k EXCEPT !.pods[o].st = "going"]
    BY <1>4 DEF Evict, Ready
  <2> QED
    BY <1>1, <1>2, <2>1, StoppedPod DEF Ordinary
<1>5. CASE DeleteClaim
  <2>1. PICK o \in Ordinals : k.claims[o] # None /\ k' = [k EXCEPT !.claims[o].going = TRUE]
    BY <1>5 DEF DeleteClaim
  <2> DEFINE c == [k.claims[o] EXCEPT !.going = TRUE]
  <2>2. c \in PVCs /\ c.guard = k.claims[o].guard /\ c.history = k.claims[o].history /\ c # None
    <3>1. k.claims[o] \in PVCs
      BY <1>1, <2>1
    <3>2. c \in PVCs /\ c.guard = k.claims[o].guard /\ c.history = k.claims[o].history
      BY <1>3, <3>1
    <3> QED
      BY <3>2, NoneIsNoObject
  <2>3. k' = [k EXCEPT !.claims[o] = c]
    BY <2>1
  <2> HIDE DEF c
  <2>4. /\ k'.sts = k.sts /\ k'.pods = k.pods
        /\ \A i \in Ordinals : k'.claims[i] = IF i = o THEN c ELSE k.claims[i]
    BY <1>1, <2>2, <2>3, AtClaim, SMT
  <2>5. \A i \in Ordinals : /\ k'.claims[i] = None <=> k.claims[i] = None
                            /\ k.claims[i] # None => /\ k'.claims[i].history = k.claims[i].history
                                                     /\ k.claims[i].guard => k'.claims[i].guard
    BY <2>1, <2>2, <2>4
  <2>6. Gentle(k, k')
    BY <2>4, <2>5 DEF Gentle
  <2> QED
    BY <1>2, <2>6 DEF Ordinary
<1>6. CASE DeleteSts \/ DeleteRoot
  <2> DEFINE c == [o \in Ordinals |-> IF k.claims[o] = None \/ k.sts.keep THEN k.claims[o]
                                      ELSE [k.claims[o] EXCEPT !.going = TRUE]]
             e == [o \in Ordinals |->
                     IF k.claims[o] = None THEN None ELSE [k.claims[o] EXCEPT !.going = TRUE]]
  <2>1. \/ k' = k
        \/ k' = [k EXCEPT !.sts = None, !.claims = c]
        \/ k' = [k EXCEPT !.claims = e]
    BY <1>6 DEF DeleteSts, DeleteRoot, WithoutSts
  <2>2. \A i \in Ordinals : \A x \in {c[i], e[i]} :
            /\ x = None <=> k.claims[i] = None
            /\ k.claims[i] # None => x.guard = k.claims[i].guard /\ x.history = k.claims[i].history
    <3> SUFFICES ASSUME NEW i \in Ordinals
                 PROVE  \A x \in {c[i], e[i]} :
                          /\ x = None <=> k.claims[i] = None
                          /\ k.claims[i] # None => x.guard = k.claims[i].guard /\ x.history = k.claims[i].history
      OBVIOUS
    <3> DEFINE y == [k.claims[i] EXCEPT !.going = TRUE]
    <3>1. c[i] \in {k.claims[i], y} /\ e[i] \in {k.claims[i], y} /\ (k.claims[i] = None => c[i] = None /\ e[i] = None)
      OBVIOUS
    <3>2. k.claims[i] # None => y # None /\ y.guard = k.claims[i].guard /\ y.history = k.claims[i].history
      <4> SUFFICES ASSUME k.claims[i] # None
                   PROVE  y # None /\ y.guard = k.claims[i].guard /\ y.history = k.claims[i].history
        OBVIOUS
      <4>1. k.claims[i] \in PVCs
        BY <1>1
      <4>2. y \in PVCs /\ y.guard = k.claims[i].guard /\ y.history = k.claims[i].history
        BY <1>3, <4>1
      <4> QED
        BY <4>2, NoneIsNoObject
    <3> HIDE DEF c, e, y
    <3> QED
      BY <3>1, <3>2
  <2> HIDE DEF c, e
  <2>3. /\ k'.pods = k.pods /\ (k'.sts # None => k'.sts = k.sts) /\ k'.claims \in {k.claims, c, e}
    BY <1>1, <2>1 DEF SignerObjectsType
  <2>4. \A i \in Ordinals : /\ k'.claims[i] = None <=> k.claims[i] = None
                            /\ k.claims[i] # None => /\ k'.claims[i].history = k.claims[i].history
                                                     /\ k.claims[i].guard => k'.claims[i].guard
    BY <2>2, <2>3
  <2>5. Gentle(k, k')
    BY <2>3, <2>4 DEF Gentle
  <2> QED
    BY <1>2, <2>5 DEF Ordinary
<1>7. CASE FreeName
  <2> DEFINE c == [o \in Ordinals |-> IF Owned(k.claims[o]) THEN k.claims[o] ELSE None]
  <2>1. k' = [k EXCEPT !.taken = FALSE, !.claims = c]
    BY <1>7 DEF FreeName
  <2>2. \A i \in Ordinals : c[i] = IF Owned(k.claims[i]) THEN k.claims[i] ELSE None
    OBVIOUS
  <2> HIDE DEF c
  <2>3. k'.sts = k.sts /\ k'.pods = k.pods /\ k'.claims = c
    BY <1>1, <2>1 DEF SignerObjectsType
  <2>4. \A i \in Ordinals : k.claims[i] # None /\ ~Owned(k.claims[i]) => k.claims[i].history = {}
    BY DEF IInv, Guarded
  <2>5. Gentle(k, k')
    BY <2>2, <2>3, <2>4 DEF Gentle
  <2> QED
    BY <1>2, <2>5 DEF Ordinary
<1> QED
  BY <1>4, <1>5, <1>6, <1>7

LEMMA ClusterIs ==
    ASSUME IInv, Kube, k' \in ObserveSts(k) \cup StartPods(k) \cup StopPods(k) \cup RemovePods(k)
    PROVE  Ordinary
<1>1. k \in SignerObjectsType
  BY DEF IInv, TypeOK
<1>2. KeyKept /\ Onward
  BY DEF Kube, run, KeyKept, Onward
<1>3. CASE k' \in ObserveSts(k)
  <2> DEFINE s == [k.sts EXCEPT !.seen = TRUE]
  <2>1. k.sts \in StatefulSets /\ k.sts # None /\ k' = [k EXCEPT !.sts = s]
    BY <1>1, <1>3 DEF ObserveSts, SignerObjectsType
  <2>2. s.conf = k.sts.conf
    BY <2>1 DEF StatefulSets
  <2> HIDE DEF s
  <2>3. k'.sts = s /\ k'.pods = k.pods /\ k'.claims = k.claims
    BY <1>1, <2>1 DEF SignerObjectsType
  <2>4. Gentle(k, k')
    BY <2>1, <2>2, <2>3 DEF Gentle
  <2> QED
    BY <1>2, <2>4 DEF Ordinary
<1>4. CASE k' \in StopPods(k)
  <2>1. PICK o \in Ordinals : k.pods[o] # None /\ k' = [k EXCEPT !.pods[o].st = "going"]
    BY <1>4 DEF StopPods
  <2> QED
    BY <1>1, <1>2, <2>1, StoppedPod DEF Ordinary
<1>5. CASE k' \in RemovePods(k)
  <2>1. PICK o \in Ordinals : k' = [k EXCEPT !.pods[o] = None]
    BY <1>5 DEF RemovePods
  <2>2. /\ k'.sts = k.sts /\ k'.claims = k.claims
        /\ \A i \in Ordinals : k'.pods[i] = IF i = o THEN None ELSE k.pods[i]
    BY <1>1, <2>1, AtPod, SMT
  <2>3. Gentle(k, k')
    BY <2>2 DEF Gentle
  <2> QED
    BY <1>2, <2>3 DEF Ordinary
<1>6. CASE k' \in StartPods(k)
  <2>1. PICK o \in Ordinals :
          /\ k.sts # None
          /\ k' = [k EXCEPT !.pods[o] = [conf |-> k.sts.conf, st |-> "starting"],
                            !.claims[o] = IF k.claims[o] = None
                               THEN [owner |-> "mine", guard |-> k.sts.guarded, going |-> FALSE,
                                     history |-> {}, shape |-> k.sts.shape]
                               ELSE k.claims[o]]
    BY <1>6 DEF StartPods
  <2> DEFINE p == [conf |-> k.sts.conf, st |-> "starting"]
             n == [owner |-> "mine", guard |-> k.sts.guarded, going |-> FALSE,
                   history |-> {}, shape |-> k.sts.shape]
             c == IF k.claims[o] = None THEN n ELSE k.claims[o]
  <2>2. k.sts \in StatefulSets
    BY <1>1, <2>1 DEF SignerObjectsType
  <2>3. p \in Pods /\ p.conf = k.sts.conf /\ p.st = "starting"
    BY <2>2, SMT DEF Pods, StatefulSets
  <2>4. n \in PVCs /\ n.history = {}
    BY <2>2 DEF PVCs, StatefulSets
  <2> HIDE DEF n, p
  <2>5. c \in PVCs \cup {None} /\ (c = k.claims[o] \/ (k.claims[o] = None /\ c.history = {}))
    BY <1>1, <2>4 DEF SignerObjectsType
  <2>6. k' = At(k, o, p, c)
    BY <2>1 DEF p, n, At
  <2> HIDE DEF c
  <2>7. /\ k'.sts = k.sts
        /\ \A i \in Ordinals : /\ k'.pods[i] = IF i = o THEN p ELSE k.pods[i]
                               /\ k'.claims[i] = IF i = o THEN c ELSE k.claims[i]
    <3>1. p \in Pods \cup {None}
      BY <2>3
    <3> QED
      BY <1>1, <2>5, <2>6, <3>1, AtOrdinal, SMT
  <2>8. \A i \in Ordinals : k'.pods[i] # None =>
          \/ k.pods[i] # None /\ k'.pods[i].conf = k.pods[i].conf
          \/ k.sts # None /\ k'.pods[i].conf = k.sts.conf /\ k'.pods[i].st = "starting"
    BY <2>1, <2>3, <2>7
  <2>9. \A i \in Ordinals : \/ k'.claims[i] = k.claims[i]
                            \/ k.claims[i] = None /\ k'.claims[i].history = {}
    BY <2>5, <2>7
  <2>10. Gentle(k, k')
    BY <2>7, <2>8, <2>9 DEF Gentle
  <2> QED
    BY <1>2, <2>10 DEF Ordinary
<1> QED
  BY <1>3, <1>4, <1>5, <1>6

----------------------------------------------------------------------------
(* The steps that choose a key *)

\* A claim that is not the signer's holds no history, and a pod has a claim.
LEMMA NothingOwned ==
    ASSUME IInv, OwnedPVCsGone(k)
    PROVE  SignerPodsGone(k) /\ \A i \in Ordinals : k.claims[i] # None => k.claims[i].history = {}
BY DEF IInv, Guarded, OneMembership, OwnedPVCsGone, SignerPodsGone

\* The key expected of a signer that nothing is recorded of is the one it is bound to.
LEMMA ExpectedIsBound ==
    ASSUME IInv, OneKey, NEW d, NEW n, ExpectedKey(d, n).ok, KeyAllowed(ExpectedKey(d, n).key), st.adig = None
    PROVE  Bound(k, ExpectedKey(d, n).key)
<1> DEFINE key == ExpectedKey(d, n)
           r == RecoveredSigningPublicKey(k, d, n)
<1>1. CASE st.sdig # None
  <2>1. val /\ onChain = FirstKey /\ onChain \in {None, key.key} /\ FirstKey # None
    BY <1>1, NoneIsNoObject, SignerAssumption DEF IInv, OneKey, SameKey, KeyAllowed
  <2>2. Sole(k, FirstKey)
    BY <2>1 DEF OneKey
  <2> HIDE DEF key
  <2> QED
    BY <2>1, <2>2, Weaker DEF key
<1>2. CASE st.sdig = None /\ (r.live \/ ~r.ok)
  <2>1. key = r
    BY <1>2 DEF ExpectedKey
  <2>2. k.sts # None /\ key.key = k.sts.conf.key
    <3>1. k.sts = None => ~r.live
      BY DEF RecoveredSigningPublicKey
    <3>2. k.sts # None
      <4>1. r.ok
        BY <2>1
      <4> HIDE DEF r
      <4> QED
        BY <1>2, <3>1, <4>1
    <3>3. r.key = k.sts.conf.key
      BY <3>2 DEF RecoveredSigningPublicKey
    <3> QED
      BY <2>1, <3>2, <3>3
  <2>3. PICK x \in Keys : Bound(k, x)
    BY <2>2 DEF OneKey
  <2>4. x = key.key
    BY <2>2, <2>3 DEF Bound, Pinned
  <2> HIDE DEF key
  <2> QED
    BY <2>3, <2>4 DEF key
<1>3. CASE st.sdig = None /\ ~(r.live \/ ~r.ok)
  <2>1. k.sts = None
    <3>1. k.sts # None => r.live
      BY DEF RecoveredSigningPublicKey
    <3> QED
      BY <1>3, <3>1
  <2>2. r.ok = ~OrphanedClaim(k)
    BY <2>1, SMT DEF RecoveredSigningPublicKey
  <2>3. OwnedPVCsGone(k)
    BY <1>3, <2>2 DEF OrphanedClaim, OwnedPVCsGone
  <2> QED
    BY <2>1, <2>3, NothingOwned DEF Bound, Pinned, SignerPodsGone
<1> QED
  BY <1>1, <1>2, <1>3

LEMMA PreflightIs == ASSUME IInv, OneKey, PreflightObjects PROVE OneKey' /\ Peaceful(k, k')
<1> DEFINE d == loc.spec.dest
           s == RecoverVersion(d)
           n == VersionOf(s, d)
           can == PreflightDeployable(k, RetainedStateRequired(Established, st.mig))
           key == ExpectedKey(d, n)
           bad == ~key.ok \/ ~KeyAllowed(key.key) \/ ~Reservable(d, key.key)
           conf == LifecycleConfig(d, key.key, n)
<1>1. st' = s /\ val' = val
  BY DEF PreflightObjects, ghost
<1>2. \/ k' \in {can.k, ScaleDown(k).k, k} /\ pc' = "idle"
      \/ /\ ~bad /\ k' = k /\ pc' = "locks"
         /\ loc' = [loc EXCEPT !.conf = conf, !.fresh = @ \/ s # st]
  BY DEF PreflightObjects, Objects, Return
<1>3. k \in SignerObjectsType /\ loc \in Locs /\ st \in Statuses
  BY DEF IInv, TypeOK
<1>4. s = st \/ s = [st EXCEPT !.ver = [dest |-> d, n |-> k.cm.ver]]
  BY DEF RecoverVersion
<1>5. Calm(k, can.k)
  BY <1>3, PreflightIsCalm
<1>6. conf.key = key.key
  BY DEF LifecycleConfig
<1>7. ~bad /\ st.adig = None => Bound(k, key.key)
  BY ExpectedIsBound
<1> HIDE DEF s, n, can, key, bad, conf
<1>8. KeyKept
  BY <1>1, <1>3, <1>4 DEF KeyKept, Statuses
<1>9. Gentle(k, k')
  <2>1. Calm(k, k')
    BY <1>2, <1>3, <1>5, ScaleDownIsCalm, SameIsCalm
  <2> QED
    BY <2>1, CalmIsGentle
<1>10. CASE pc' = "idle"
  BY <1>8, <1>9, <1>10, OrdinaryStep DEF Ordinary, Onward
<1>11. CASE /\ ~bad /\ k' = k /\ pc' = "locks"
            /\ loc' = [loc EXCEPT !.conf = conf, !.fresh = @ \/ s # st]
  <2>1. loc'.conf.key = key.key
    BY <1>3, <1>6, <1>11 DEF Locs
  <2>2. /\ val' => Sole(k', FirstKey)
        /\ k'.sts # None \/ ~SignerPodsGone(k') => \E x \in Keys : Bound(k', x)
        /\ st'.adig # None /\ st'.mig = None => Pinned(k', st'.pub)
        /\ st'.mig # None =>
             /\ st'.adig # None
             /\ st'.mig.phase \in {"recreating", "rollingOut"} =>
                   Pinned(k', st'.mig.want.key) /\ (st'.mig.reset => Sole(k', st'.mig.want.key))
        /\ ~val' => st'.sdig = None
    BY <1>8, <1>11 DEF KeyKept, OneKey
  <2>3. st'.adig = None => Bound(k', loc'.conf.key)
    BY <1>7, <1>8, <1>11, <2>1 DEF KeyKept
  <2>4. pc' = "locks"
    BY <1>11
  <2> QED
    BY <1>9, <2>2, <2>3, <2>4, OneKeyNext, GentleIsPeaceful
<1> QED
  BY <1>2, <1>10, <1>11

LEMMA MigrateFirstIs == ASSUME IInv, OneKey, MigrateFirst PROVE OneKey' /\ Peaceful(k, k')
<1>1. /\ pc = "migrate" /\ st.adig = None /\ st.mig = None /\ val' = val
      /\ k \in SignerObjectsType /\ st \in Statuses /\ loc.conf # None
  BY PassTypes DEF MigrateFirst, IInv, TypeOK, OneKey, ghost
<1>2. Bound(k, loc.conf.key) /\ Pinned(k, loc.conf.key)
  BY <1>1, Weaker DEF OneKey
<1>3. \/ st' = st /\ k' = k /\ pc' = "idle"
      \/ st' = st /\ k' = k /\ pc' = "import" /\ loc' = loc
      \/ /\ k' = MarkEverRolledOut(k).k /\ pc' = "idle"
         /\ st' \in {st, [st EXCEPT !.adig = k.sts.conf, !.pub = loc.conf.key]}
  BY DEF MigrateFirst, Goto, Return
<1>4. Gentle(k, k')
  <2>1. Calm(k, k')
    BY <1>1, <1>3, MarkIsCalm, SameIsCalm
  <2> QED
    BY <2>1, CalmIsGentle
<1>5. CASE st' = st /\ pc' = "idle"
  BY <1>1, <1>4, <1>5, OrdinaryStep DEF Ordinary, KeyKept, Onward
<1>6. CASE st' = st /\ k' = k /\ pc' = "import" /\ loc' = loc
  <2>1. /\ val' => Sole(k', FirstKey)
        /\ k'.sts # None \/ ~SignerPodsGone(k') => \E x \in Keys : Bound(k', x)
        /\ ~val' => st'.sdig = None
    BY <1>1, <1>6 DEF OneKey
  <2>2. st'.adig = None /\ st'.mig = None /\ Bound(k', loc'.conf.key) /\ Pinned(k', loc'.conf.key)
    BY <1>1, <1>2, <1>6
  <2> QED
    BY <1>4, <2>1, <2>2, OneKeyNext, GentleIsPeaceful
<1>7. CASE pc' = "idle" /\ st' = [st EXCEPT !.adig = k.sts.conf, !.pub = loc.conf.key]
  <2>1. st'.pub = loc.conf.key /\ st'.mig = None /\ st'.sdig = st.sdig
    BY <1>1, <1>7 DEF Statuses
  <2>2. Pinned(k', st'.pub)
    BY <1>2, <1>4, <2>1, GentleIsLoyal DEF Loyal
  <2>3. /\ val' => Sole(k', FirstKey)
        /\ k'.sts # None \/ ~SignerPodsGone(k') => \E x \in Keys : Bound(k', x)
        /\ ~val' => st'.sdig = None
    BY <1>1, <1>4, <2>1, GentleIsLoyal DEF Loyal, OneKey
  <2>4. pc' = "idle"
    BY <1>7
  <2> QED
    BY <1>4, <2>1, <2>2, <2>3, <2>4, OneKeyNext, GentleIsPeaceful
<1> QED
  BY <1>3, <1>5, <1>6, <1>7

\* Claims that are let go of keep their histories while nothing runs on them.
LEMMA LetGoIs ==
    ASSUME OneKey, k'.sts = None, SignerPodsGone(k'), SameStates(k.claims, k'.claims)
    PROVE  /\ Peaceful(k, k') /\ (val => Sole(k', FirstKey))
           /\ \A x : Pinned(k', x) /\ (Sole(k, x) => Sole(k', x))
<1>1. \A x : Pinned(k', x)
  BY DEF Pinned, SignerPodsGone
<1>2. \A x : Sole(k, x) => Sole(k', x)
  BY <1>1 DEF Sole, SameStates
<1>3. Peaceful(k, k')
  BY SameHistory DEF Peaceful, SignerPodsGone
<1> QED
  BY <1>1, <1>2, <1>3 DEF OneKey

LEMMA LetGoKey ==
    ASSUME OneKey, k'.sts = None, SignerPodsGone(k'), SameStates(k.claims, k'.claims), val' = val,
           pc' \in Unplanned, st' \in {st, NoStatus}
    PROVE  OneKey' /\ Peaceful(k, k')
<1>1. NoStatus.mig = None /\ NoStatus.adig = None /\ NoStatus.sdig = None
  BY DEF NoStatus
<1>2. Peaceful(k, k') /\ (val => Sole(k', FirstKey)) /\ \A x : Pinned(k', x) /\ (Sole(k, x) => Sole(k', x))
  BY LetGoIs
<1>3. st'.mig # None =>
         /\ st'.adig # None
         /\ st'.mig.phase \in {"recreating", "rollingOut"} =>
               Pinned(k', st'.mig.want.key) /\ (st'.mig.reset => Sole(k', st'.mig.want.key))
  BY <1>1, <1>2 DEF OneKey
<1>4. ~val' => st'.sdig = None
  BY <1>1 DEF OneKey
<1> QED
  BY <1>2, <1>3, <1>4, OneKeyNext

\* A migration clears the way for its key before it goes on to the rollout.
LEMMA PhaseIs ==
    ASSUME NEW a, NEW mig \in Migrations, mig.phase # "rollingOut",
           MigrationStep(a, mig).next \in {"recreating", "rollingOut"}
    PROVE  \/ mig.phase = "recreating"
           \/ /\ mig.phase = "resettingState"
              /\ mig.reset => OwnedPVCsGone(MigrationStep(a, mig).k)
<1> DEFINE step == MigrationStep(a, mig)
<1>1. mig.phase \in {"quiescing", "deleting", "resettingState", "recreating"}
  BY DEF Migrations, Phases
<1>2. CASE mig.phase = "quiescing"
  <2>1. step.next \in {"quiescing", "deleting"}
    BY <1>2 DEF MigrationStep
  <2> QED
    BY <2>1
<1>3. CASE mig.phase = "deleting"
  <2> DEFINE ok == DeleteStatefulSet(a).ok
  <2>1. step.next = IF ok THEN "resettingState" ELSE "deleting"
    BY <1>3 DEF MigrationStep
  <2> QED
    BY <2>1
<1>4. CASE mig.phase = "resettingState"
  <2> DEFINE reset == IF mig.reset THEN DeletePVCs(a) ELSE a
  <2>1. /\ step.k = reset
        /\ step.next = IF mig.reset /\ ~OwnedPVCsGone(reset) THEN "resettingState" ELSE "recreating"
    BY <1>4 DEF MigrationStep
  <2> HIDE DEF reset, step
  <2> QED
    BY <1>4, <2>1 DEF step
<1> QED
  BY <1>1, <1>2, <1>3, <1>4

LEMMA MigrateIs == ASSUME IInv, OneKey, Migrate PROVE OneKey' /\ Peaceful(k, k')
<1>1. /\ pc = "migrate" /\ st.adig # None /\ val' = val /\ loc.conf # None
      /\ k \in SignerObjectsType /\ st \in Statuses
  BY PassTypes DEF Migrate, IInv, TypeOK
<1>2. \/ st' = st /\ k' = k /\ pc' = "idle"
      \/ /\ st' = st /\ k' = k /\ pc' = "import" /\ loc' = loc
         /\ \/ st.mig = None /\ st.pub = loc.conf.key
            \/ st.mig # None /\ st.mig.want = loc.conf /\ st.mig.phase = "rollingOut"
      \/ /\ st.mig # None /\ st.mig.phase # "rollingOut" /\ k' = MigrationStep(k, st.mig).k /\ pc' = "idle"
         /\ st' \in {st, [st EXCEPT !.mig.phase = MigrationStep(k, st.mig).next]}
      \/ st' = [st EXCEPT !.mig = NewMigration(loc.conf)] /\ k' = k /\ pc' = "idle"
  BY DEF Migrate, Goto, Return, OnPurpose
<1>3. CASE st' = st /\ k' = k /\ pc' = "idle"
  BY <1>1, <1>3, NothingChanged, OrdinaryStep DEF Onward
<1>4. CASE /\ st' = st /\ k' = k /\ pc' = "import" /\ loc' = loc
           /\ \/ st.mig = None /\ st.pub = loc.conf.key
              \/ st.mig # None /\ st.mig.want = loc.conf /\ st.mig.phase = "rollingOut"
  <2>1. Pinned(k, loc.conf.key)
    BY <1>1, <1>4 DEF OneKey
  <2>2. /\ val' => Sole(k', FirstKey)
        /\ k'.sts # None \/ ~SignerPodsGone(k') => \E x \in Keys : Bound(k', x)
        /\ st'.adig # None /\ st'.mig = None => Pinned(k', st'.pub)
        /\ st'.mig # None =>
             /\ st'.adig # None
             /\ st'.mig.phase \in {"recreating", "rollingOut"} =>
                   Pinned(k', st'.mig.want.key) /\ (st'.mig.reset => Sole(k', st'.mig.want.key))
        /\ ~val' => st'.sdig = None
    BY <1>1, <1>4 DEF OneKey
  <2>3. st'.adig # None /\ Pinned(k', loc'.conf.key)
    BY <1>1, <1>4, <2>1
  <2>4. /\ st'.adig # None /\ st'.mig = None => st'.pub = loc'.conf.key
        /\ st'.mig # None => st'.mig.phase = "rollingOut" /\ st'.mig.want = loc'.conf
    BY <1>4
  <2>5. Peaceful(k, k')
    BY <1>4, SameIsGentle, GentleIsPeaceful
  <2> QED
    BY <2>2, <2>3, <2>4, <2>5, OneKeyNext
<1>5. CASE st' = [st EXCEPT !.mig = NewMigration(loc.conf)] /\ k' = k /\ pc' = "idle"
  <2> DEFINE m == NewMigration(loc.conf)
  <2>1. m.phase = "quiescing"
    BY DEF NewMigration
  <2> HIDE DEF m
  <2>2. st'.adig = st.adig /\ st'.mig = m /\ st'.sdig = st.sdig
    BY <1>1, <1>5 DEF Statuses, m
  <2>3. m # None
    <3>1. loc.conf \in Confs
      BY <1>1, PassTypes DEF IInv, TypeOK
    <3>2. NewMigration(loc.conf) \in Migrations
      BY <3>1 DEF NewMigration, Migrations, Phases
    <3> QED
      BY <3>2, NoneIsNoObject DEF m
  <2>4. /\ val' => Sole(k', FirstKey)
        /\ k'.sts # None \/ ~SignerPodsGone(k') => \E x \in Keys : Bound(k', x)
        /\ ~val' => st'.sdig = None
    BY <1>1, <1>5, <2>2 DEF OneKey
  <2>5. Peaceful(k, k') /\ pc' = "idle"
    BY <1>5, SameIsGentle, GentleIsPeaceful
  <2> QED
    BY <1>1, <2>1, <2>2, <2>3, <2>4, <2>5, OneKeyNext
<1>6. CASE /\ st.mig # None /\ st.mig.phase # "rollingOut" /\ k' = MigrationStep(k, st.mig).k /\ pc' = "idle"
           /\ st' \in {st, [st EXCEPT !.mig.phase = MigrationStep(k, st.mig).next]}
  <2> DEFINE mig == st.mig
             next == MigrationStep(k, mig).next
             o == MigrationStep(k, mig).k
             t == [mig EXCEPT !.phase = next]
             x == mig.want.key
  <2>1. mig \in Migrations
    BY <1>1, <1>6 DEF Statuses
  <2>2. /\ next \in Phases
        /\ Calm(k, o) \/ (mig.phase = "resettingState" /\ o = DeletePVCs(k))
    BY <1>1, <1>6, <2>1, MigrationStepIs
  <2>3. next \in {"recreating", "rollingOut"} =>
          \/ mig.phase = "recreating"
          \/ mig.phase = "resettingState" /\ (mig.reset => OwnedPVCsGone(o))
    BY <1>6, <2>1, PhaseIs
  <2>4. st' \in {st, [st EXCEPT !.mig = t]} /\ k' = o /\ pc' = "idle"
    BY <1>1, <1>6, <2>1 DEF Statuses, Migrations
  <2> HIDE DEF next, o
  <2>5. t.phase = next /\ t.reset = mig.reset /\ t.want = mig.want
    BY <2>1, <2>2 DEF Migrations
  <2> HIDE DEF t
  <2>6. st'.adig = st.adig /\ st'.sdig = st.sdig /\ st'.pub = st.pub /\ st'.mig \in {mig, t}
    BY <1>1, <2>4 DEF Statuses
  <2>7. mig.phase = "resettingState" => k.sts = None /\ SignerPodsGone(k)
    BY <1>6 DEF IInv, StoppedForReset
  <2>8. /\ Peaceful(k, k')
        /\ Pinned(k, x) => Pinned(k', x)
        /\ Sole(k, x) => Sole(k', x)
        /\ val => Sole(k', FirstKey)
        /\ k'.sts # None \/ ~SignerPodsGone(k') => \E y \in Keys : Bound(k', y)
        /\ OwnedPVCsGone(k') => OwnedPVCsGone(k)
    <3>1. CASE Calm(k, o)
      <4>1. Peaceful(k, k') /\ Loyal(k, k')
        BY <2>4, <3>1, CalmIsGentle, GentleIsPeaceful, GentleIsLoyal
      <4>2. k'.claims = k.claims
        BY <2>4, <3>1 DEF Calm
      <4> QED
        BY <4>1, <4>2 DEF Loyal, OneKey, OwnedPVCsGone
    <3>2. CASE mig.phase = "resettingState" /\ o = DeletePVCs(k)
      <4>1. SameStates(k.claims, k'.claims) /\ k'.sts = None /\ SignerPodsGone(k')
        BY <1>1, <2>4, <2>7, <3>2, DiscardKeepsStates DEF SignerPodsGone
      <4>2. OwnedPVCsGone(k') => OwnedPVCsGone(k)
        BY <4>1 DEF SameStates, OwnedPVCsGone, Owned
      <4> QED
        BY <4>1, <4>2, LetGoIs
    <3> QED
      BY <2>2, <3>1, <3>2
  <2>9. st'.mig.phase \in {"recreating", "rollingOut"} => Pinned(k', x) /\ (mig.reset => Sole(k', x))
    <3>1. CASE mig.phase \in {"recreating", "rollingOut"}
      BY <1>6, <2>8, <3>1 DEF OneKey
    <3>2. CASE mig.phase = "resettingState" /\ (mig.reset => OwnedPVCsGone(k'))
      <4>1. Pinned(k, x)
        BY <2>7, <3>2 DEF Pinned, SignerPodsGone
      <4>2. mig.reset => Sole(k, x)
        BY <2>8, <3>2, <4>1, NothingOwned DEF Sole
      <4> QED
        BY <2>8, <4>1, <4>2
    <3> QED
      BY <2>3, <2>4, <2>5, <2>6, <3>1, <3>2
  <2>10. st'.mig # None =>
           /\ st'.adig # None
           /\ st'.mig.phase \in {"recreating", "rollingOut"} =>
                 Pinned(k', st'.mig.want.key) /\ (st'.mig.reset => Sole(k', st'.mig.want.key))
    BY <1>1, <2>5, <2>6, <2>9
  <2>11. st'.mig # None
    <3>1. t \in Migrations
      BY <2>1, <2>2 DEF t, Migrations
    <3> QED
      BY <1>6, <2>6, <3>1, NoneIsNoObject
  <2>12. ~val' => st'.sdig = None
    BY <1>1, <2>6 DEF OneKey
  <2>13. (val' => Sole(k', FirstKey)) /\ st'.adig # None
    BY <1>1, <2>6, <2>8
  <2> QED
    BY <2>4, <2>8, <2>10, <2>11, <2>12, <2>13, OneKeyNext
<1> QED
  BY <1>2, <1>3, <1>4, <1>5, <1>6

LEMMA RecordIs == ASSUME IInv, OneKey, Record PROVE OneKey' /\ Peaceful(k, k')
<1>1. /\ pc = "record" /\ k' = k /\ val' = val /\ loc.conf # None /\ st \in Statuses
  BY PassTypes DEF Record, IInv, TypeOK, ghost
<1>2. (st' = st /\ pc' = "idle") \/ (st' = Applied /\ pc' = "claims" /\ loc' = loc)
  BY DEF Record, Goto, Return
<1>3. CASE st' = st /\ pc' = "idle"
  BY <1>1, <1>3, NothingChanged, OrdinaryStep DEF Onward
<1>4. CASE st' = Applied /\ pc' = "claims" /\ loc' = loc
  <2>1. /\ st'.adig = loc.conf /\ st'.pub = loc.conf.key /\ st'.mig = None
        /\ ~val => st'.sdig = st.sdig
    BY <1>1, <1>4 DEF Applied, Statuses
  <2>2. Pinned(k', loc.conf.key)
    BY <1>1 DEF OneKey
  <2>3. /\ val' => Sole(k', FirstKey)
        /\ k'.sts # None \/ ~SignerPodsGone(k') => \E x \in Keys : Bound(k', x)
        /\ ~val' => st'.sdig = None
    BY <1>1, <2>1 DEF OneKey
  <2>4. Peaceful(k, k')
    BY <1>1, SameIsGentle, GentleIsPeaceful
  <2>5. loc' = loc
    BY <1>4
  <2> QED
    BY <1>1, <2>1, <2>2, <2>3, <2>4, <2>5, OneKeyNext
<1> QED
  BY <1>2, <1>3, <1>4

\* The StatefulSet of a key is only applied to claims that are of that key, or
\* that Kubernetes leaves alone.
LEMMA ApplyIsBound ==
    ASSUME IInv, OneKey, pc = "sts", ApplyAllowed(st.mig),
           StatefulSetPVCsForApply(k, RetainedStateRequired(Established, st.mig))
    PROVE  Bound(k, loc.conf.key)
<1> DEFINE x == loc.conf.key
<1>1. /\ Pinned(k, x)
      /\ st.mig # None => st.mig.phase = "rollingOut" /\ st.mig.want = loc.conf
      /\ st.adig = None => Bound(k, x)
  BY DEF OneKey
<1>2. CASE st.adig = None
  BY <1>1, <1>2
<1>3. CASE k.sts # None \/ ~SignerPodsGone(k)
  <2>1. PICK y \in Keys : Bound(k, y)
    BY <1>3 DEF OneKey
  <2>2. y = x
    BY <1>1, <1>3, <2>1, Weaker, OnePin
  <2> QED
    BY <2>1, <2>2
<1>4. CASE st.adig # None /\ st.mig # None /\ st.mig.reset
  <2>1. Sole(k, x)
    BY <1>1, <1>4 DEF OneKey
  <2> QED
    BY <2>1, Weaker
<1>5. CASE st.adig # None /\ (st.mig = None \/ ~st.mig.reset)
  <2>1. RetainedStateRequired(Established, st.mig) = TRUE
    BY <1>5 DEF RetainedStateRequired, Established
  <2>2. EnsureRetainedDataPVCs(k)
    BY <2>1 DEF StatefulSetPVCsForApply
  <2> QED
    BY <1>1, <2>2 DEF EnsureRetainedDataPVCs, Bound
<1> QED
  BY <1>2, <1>3, <1>4, <1>5

LEMMA ApplyStsIs == ASSUME IInv, OneKey, ApplySts PROVE OneKey' /\ Peaceful(k, k')
<1> DEFINE required == RetainedStateRequired(Established, st.mig)
           applied == ApplyStatefulSet(k, loc.conf, loc.spec.shape, required)
           x == loc.conf.key
<1>1. /\ k \in SignerObjectsType /\ loc.conf \in Confs /\ x \in Keys /\ loc.conf # None /\ pc = "sts"
      /\ st' = st /\ val' = val
  BY PassTypes DEF IInv, TypeOK, ApplySts, ghost
<1>2. pc' = "idle" \/ (pc' = "digest" /\ loc' = loc)
  BY DEF ApplySts, Goto, Return
<1>3. CASE Calm(k, k')
  BY <1>1, <1>2, <1>3, CalmIsGentle, OrdinaryStep DEF Ordinary, KeyKept, Onward
<1>4. CASE ~Calm(k, k')
  <2>1. k' # k /\ k' # QuiesceUnsafeRetainedState(k)
    BY <1>1, <1>4, SameIsCalm, QuiesceIsCalm
  <2>2. ApplyAllowed(st.mig) /\ k' = applied.k
    BY <2>1 DEF ApplySts, Objects
  <2>3. /\ StatefulSetPVCsForApply(k, required)
        /\ \/ k.sts = None /\ k' = [k EXCEPT !.sts = NewStatefulSet(loc.conf, loc.spec.shape)]
           \/ k.sts # None /\ k' = Changed(k, [k.sts EXCEPT !.conf = loc.conf, !.up = TRUE, !.keep = FALSE])
    BY <2>1, <2>2 DEF ApplyStatefulSet, Result
  <2>4. /\ k'.sts # None => k'.sts.conf = loc.conf
        /\ k'.pods = k.pods /\ k'.claims = k.claims
    <3>1. CASE k.sts = None
      <4> DEFINE s == NewStatefulSet(loc.conf, loc.spec.shape)
      <4>1. s.conf = loc.conf
        BY DEF NewStatefulSet
      <4>2. k' = [k EXCEPT !.sts = s]
        BY <2>3, <3>1
      <4> HIDE DEF s
      <4> QED
        BY <1>1, <4>1, <4>2 DEF SignerObjectsType
    <3>2. CASE k.sts # None
      <4> DEFINE u == [k.sts EXCEPT !.conf = loc.conf, !.up = TRUE, !.keep = FALSE]
                 s == [u EXCEPT !.seen = FALSE]
      <4>1. k.sts \in StatefulSets
        BY <1>1, <3>2 DEF SignerObjectsType
      <4>2. u \in StatefulSets /\ u.conf = loc.conf
        BY <1>1, <4>1 DEF StatefulSets
      <4>3. k' = [k EXCEPT !.sts = s]
        BY <2>3, <3>2 DEF Changed
      <4> HIDE DEF u
      <4>4. s.conf = loc.conf
        BY <4>2 DEF StatefulSets
      <4> HIDE DEF s
      <4> QED
        BY <1>1, <4>3, <4>4 DEF SignerObjectsType
    <3> QED
      BY <3>1, <3>2
  <2>5. Bound(k, x)
    BY <1>1, <2>2, <2>3, ApplyIsBound
  <2>6. Bound(k', x) /\ Pinned(k', x)
    BY <2>4, <2>5 DEF Bound, Pinned
  <2>7. \A y : Sole(k, y) /\ y = x => Sole(k', y)
    BY <2>4, <2>6 DEF Sole
  <2>8. val' => Sole(k', FirstKey)
    BY <1>1, <2>7 DEF OneKey, IInv, SameKey
  <2>9. /\ st.adig # None /\ st.mig = None => st.pub = x
        /\ st.mig # None => st.mig.phase = "rollingOut" /\ st.mig.want = loc.conf
    BY <1>1 DEF OneKey
  <2>10. st.mig # None => st.adig # None /\ (st.mig.reset => Sole(k', st.mig.want.key))
    BY <2>7, <2>9 DEF OneKey
  <2>11. /\ Peaceful(k, k')
         /\ ~val' => st'.sdig = None
    BY <1>1, <2>4 DEF OneKey, Peaceful, HistoryOf
  <2>12. pc' \notin Unplanned => loc' = loc
    BY <1>2
  <2> QED
    BY <1>1, <2>6, <2>8, <2>9, <2>10, <2>11, <2>12, OneKeyNext
<1> QED
  BY <1>3, <1>4

----------------------------------------------------------------------------
(* The steps that let go of a key *)

LEMMA RemoveIs == ASSUME IInv, OneKey, Remove PROVE OneKey' /\ Peaceful(k, k')
<1> DEFINE o == Undeploy(k)
<1>1. /\ k \in SignerObjectsType /\ val' = val /\ k' = o
      /\ pc' = "idle" \/ (pc' = "clear" /\ IsTornDown(o))
      /\ st' = st
  BY DEF IInv, TypeOK, Remove, OnPurpose, run
<1>2. Calm(k, o) \/ (SameStates(k.claims, o.claims) /\ o.sts = None /\ SignerPodsGone(o))
  BY <1>1, UndeployIs
<1> HIDE DEF o
<1>3. CASE Calm(k, o)
  BY <1>1, <1>3, CalmIsGentle, OrdinaryStep DEF Ordinary, KeyKept, Onward
<1>4. CASE ~Calm(k, o)
  BY <1>1, <1>2, <1>4, LetGoKey
<1> QED
  BY <1>3, <1>4

LEMMA ClearStatusIs == ASSUME IInv, OneKey, ClearStatus PROVE OneKey' /\ Peaceful(k, k')
<1>1. pc = "clear" /\ pc' = "release" /\ k' = k /\ val' = val /\ st' \in {st, NoStatus}
  BY DEF ClearStatus, Goto, ghost
<1>2. k'.sts = None /\ SignerPodsGone(k')
  BY <1>1 DEF IInv, NothingGivenUp, SignerPodsGone
<1>3. SameStates(k.claims, k'.claims)
  BY <1>1 DEF SameStates
<1> QED
  BY <1>1, <1>2, <1>3, LetGoKey

LEMMA FinalizeIs == ASSUME IInv, OneKey, Finalize PROVE OneKey' /\ Peaceful(k, k')
<1> DEFINE f == IF root = "namespace" THEN FinalizeTerminatingNamespace ELSE FinalizeOwner(k, root)
<1>1. k \in SignerObjectsType /\ pc = "idle" /\ pc' = pc /\ val' = val /\ st' = st /\ k' = f.k
  BY DEF IInv, TypeOK, Finalize, OnPurpose, run
<1>2. \/ Calm(k, f.k)
      \/ /\ f.k.sts = k.sts /\ f.k.claims = k.claims
         /\ \A o \in Ordinals : IF k.pods[o] = None THEN f.k.pods[o] = None
                                ELSE f.k.pods[o].conf = k.pods[o].conf
      \/ SameStates(k.claims, f.k.claims) /\ f.k.sts = None /\ SignerPodsGone(f.k)
  <2>1. CASE root = "namespace"
    BY <2>1, FinalizeNamespaceIs
  <2>2. CASE root # "namespace"
    BY <1>1, <2>2, FinalizeOwnerIs
  <2> QED
    BY <2>1, <2>2
<1> HIDE DEF f
<1>3. CASE Calm(k, f.k)
  BY <1>1, <1>3, CalmIsGentle, OrdinaryStep DEF Ordinary, KeyKept, Onward
<1>4. CASE /\ f.k.sts = k.sts /\ f.k.claims = k.claims
           /\ \A o \in Ordinals : IF k.pods[o] = None THEN f.k.pods[o] = None
                                  ELSE f.k.pods[o].conf = k.pods[o].conf
  <2>1. Gentle(k, k')
    BY <1>1, <1>4 DEF Gentle
  <2> QED
    BY <1>1, <2>1, OrdinaryStep DEF Ordinary, KeyKept, Onward
<1>5. CASE SameStates(k.claims, f.k.claims) /\ f.k.sts = None /\ SignerPodsGone(f.k)
  BY <1>1, <1>5, LetGoKey
<1> QED
  BY <1>2, <1>3, <1>4, <1>5

LEMMA StatusLostIs == ASSUME IInv, OneKey, StatusLost PROVE OneKey' /\ Peaceful(k, k')
<1>1. NoStatus.mig = None /\ NoStatus.adig = None /\ NoStatus.sdig = None
  BY DEF NoStatus
<1>2. k' = k /\ st' = NoStatus /\ val' = val /\ pc' = "idle"
  BY DEF StatusLost, run
<1>3. /\ val' => Sole(k', FirstKey)
      /\ k'.sts # None \/ ~SignerPodsGone(k') => \E x \in Keys : Bound(k', x)
  BY <1>2 DEF OneKey
<1> QED
  BY <1>1, <1>2, <1>3, OneKeyNext, SameIsGentle, GentleIsPeaceful

----------------------------------------------------------------------------
(* Serving a key, and forgetting it *)

\* The key of a pod that can sign is in the history of its claim.
LEMMA SigningIs ==
    ASSUME IInv
    PROVE  \A x \in Signing : \E i \in Ordinals :
              /\ k.pods[i] # None /\ k.pods[i].conf.key = x /\ k.pods[i].st # "starting"
              /\ k.claims[i] # None /\ x \in k.claims[i].history
<1>1. \A i \in Ordinals : k.pods[i] # None => k.pods[i].st \in {"starting", "ready", "going"}
  BY DEF IInv, TypeOK, SignerObjectsType, Pods
<1>2. \A i \in Ordinals : k.pods[i] # None => k.claims[i] # None
  BY DEF IInv, OneMembership, Owned
<1>3. \A i \in Ordinals : k.pods[i] # None /\ k.pods[i].st = "ready" =>
                              k.pods[i].conf.key \in k.claims[i].history
  BY DEF IInv, Remembered, Ready
<1> QED
  BY <1>1, <1>2, <1>3 DEF Signing, MaySign

LEMMA SigningNext ==
    ASSUME IInv'
    PROVE  \A x \in Signing' : \E i \in Ordinals :
              /\ k'.pods[i] # None /\ k'.pods[i].conf.key = x /\ k'.pods[i].st # "starting"
              /\ k'.claims[i] # None /\ x \in k'.claims[i].history
<1>1. \A i \in Ordinals : k'.pods[i] # None => k'.pods[i].st \in {"starting", "ready", "going"}
  BY DEF IInv, TypeOK, SignerObjectsType, Pods
<1>2. \A i \in Ordinals : k'.pods[i] # None => k'.claims[i] # None
  BY DEF IInv, OneMembership, Owned
<1>3. \A i \in Ordinals : k'.pods[i] # None /\ k'.pods[i].st = "ready" =>
                              k'.pods[i].conf.key \in k'.claims[i].history
  BY DEF IInv, Remembered, Ready
<1> QED
  BY <1>1, <1>2, <1>3 DEF Signing, MaySign

\* A pod that begins to serve puts its key into the history of its claim.
LEMMA ServeIs ==
    ASSUME IInv, OneKey, Kube, k' \in ServePods(k, Serves)
    PROVE  /\ OneKey'
           /\ \E x \in Signing' : Pinned(k, x) /\ ~SignerPodsGone(k) /\ HistoryOf(k') = HistoryOf(k) \cup {x}
<1>0. k \in SignerObjectsType
  BY DEF IInv, TypeOK
<1>1. PICK o \in Ordinals :
        /\ k.pods[o] # None /\ k.pods[o].st = "starting"
        /\ k' = [k EXCEPT !.pods[o].st = "ready",
                          !.claims[o].history = @ \cup {k.pods[o].conf.key}]
  BY DEF ServePods
<1> DEFINE p == [k.pods[o] EXCEPT !.st = "ready"]
           c == [k.claims[o] EXCEPT !.history = @ \cup {k.pods[o].conf.key}]
           x == k.pods[o].conf.key
<1>2. k.pods[o] \in Pods /\ x \in Keys /\ k.claims[o] \in PVCs /\ k.claims[o] # None
  BY <1>0, <1>1 DEF IInv, OneMembership, Owned, SignerObjectsType, Pods, Confs
<1>3. p \in Pods /\ p.conf = k.pods[o].conf /\ p.st = "ready" /\ p # None
  BY <1>2, NoneIsNoObject DEF Pods
<1>4. c \in PVCs /\ c # None /\ c.guard = k.claims[o].guard /\ c.history = k.claims[o].history \cup {x}
  BY <1>2, NoneIsNoObject, SMT DEF PVCs
<1>5. k' = [k EXCEPT !.pods[o] = p, !.claims[o] = c]
  BY <1>1
<1>6. k.pods[o] # None /\ k.pods[o].conf.key = x
  BY <1>1
<1> HIDE DEF p, c, x
<1>7. /\ k'.sts = k.sts
      /\ \A i \in Ordinals : /\ k'.pods[i] = IF i = o THEN p ELSE k.pods[i]
                             /\ k'.claims[i] = IF i = o THEN c ELSE k.claims[i]
  <2>1. p \in Pods \cup {None} /\ c \in PVCs \cup {None}
    BY <1>3, <1>4
  <2>2. k' = At(k, o, p, c)
    BY <1>5, SMT DEF At
  <2> QED
    BY <1>0, <2>1, <2>2, AtOrdinal, SMT
<1>8. \A i \in Ordinals :
        /\ k'.pods[i] = None <=> k.pods[i] = None
        /\ k.pods[i] # None => k'.pods[i].conf = k.pods[i].conf
        /\ k'.claims[i] # None => /\ k.claims[i] # None /\ k'.claims[i].guard = k.claims[i].guard
                                  /\ k'.claims[i].history \subseteq k.claims[i].history \cup {x}
  BY <1>2, <1>3, <1>4, <1>6, <1>7
<1>9. Loyal(k, k')
  <2>1. ASSUME NEW y PROVE Pinned(k, y) => Pinned(k', y)
    BY <1>7, <1>8 DEF Pinned
  <2>2. ASSUME NEW y PROVE Pinned(k, y) => x = y
    BY <1>6 DEF Pinned
  <2>3. ASSUME NEW y PROVE Bound(k, y) => Bound(k', y)
    BY <1>8, <2>1, <2>2 DEF Bound
  <2>4. ASSUME NEW y PROVE Sole(k, y) => Sole(k', y)
    BY <1>8, <2>1, <2>2 DEF Sole
  <2>5. SignerPodsGone(k) => SignerPodsGone(k')
    BY <1>8 DEF SignerPodsGone
  <2> QED
    BY <1>7, <2>1, <2>3, <2>4, <2>5 DEF Loyal
<1>10. OneKey'
  <2>1. KeyKept /\ Onward
    BY DEF Kube, run, KeyKept, Onward
  <2> QED
    BY <1>9, <2>1, LoyalStep
<1>11. Pinned(k, x) /\ ~SignerPodsGone(k)
  <2>1. ~SignerPodsGone(k)
    BY <1>6 DEF SignerPodsGone
  <2>2. PICK y \in Keys : Bound(k, y)
    BY <2>1 DEF OneKey
  <2> QED
    BY <1>6, <2>1, <2>2 DEF Bound, Pinned
<1>12. x \in Signing'
  <2>1. k'.pods[o] = p
    BY <1>7
  <2>2. p.conf.key = x
    BY <1>3, <1>6
  <2> QED
    BY <1>3, <2>1, <2>2 DEF Signing, MaySign
<1>13. HistoryOf(k') = HistoryOf(k) \cup {x}
  <2>1. ASSUME NEW y \in HistoryOf(k') PROVE y \in HistoryOf(k) \cup {x}
    <3>1. PICK j \in Ordinals : k'.claims[j] # None /\ y \in k'.claims[j].history
      BY DEF HistoryOf
    <3>2. k.claims[j] # None /\ y \in k.claims[j].history \cup {x}
      BY <1>8, <3>1
    <3> QED
      BY <3>2 DEF HistoryOf
  <2>2. \A y : y \in HistoryOf(k) => y \in HistoryOf(k')
    BY <1>4, <1>7 DEF HistoryOf
  <2>3. x \in HistoryOf(k')
    <3>1. k'.claims[o] = c
      BY <1>7
    <3> QED
      BY <1>4, <3>1 DEF HistoryOf
  <2> QED
    BY <2>1, <2>2, <2>3
<1> QED
  BY <1>10, <1>11, <1>12, <1>13

\* While a key can be signed with, a claim that goes takes no history with it
\* that is not held by another.
LEMMA RemoveClaimIs ==
    ASSUME IInv, OneKey, Kube, k' \in RemoveClaims(k)
    PROVE  /\ OneKey' /\ Signing' = Signing /\ HistoryOf(k') \subseteq HistoryOf(k)
           /\ Signing # {} => HistoryOf(k') = HistoryOf(k)
<1>1. PICK o \in Ordinals : /\ k.claims[o] # None /\ ~k.claims[o].guard
                            /\ k.pods[o] = None /\ k' = [k EXCEPT !.claims[o] = None]
  BY DEF RemoveClaims
<1>2. k \in SignerObjectsType
  BY DEF IInv, TypeOK
<1>3. /\ k'.sts = k.sts /\ k'.pods = k.pods
      /\ \A i \in Ordinals : k'.claims[i] = IF i = o THEN None ELSE k.claims[i]
  BY <1>1, <1>2, AtClaim, SMT
<1>4. /\ k.claims[o] # None /\ ~k.claims[o].guard /\ k.pods[o] = None
  BY <1>1
<1>5. \A i \in Ordinals : k'.claims[i] # None => k'.claims[i] = k.claims[i]
  BY <1>3
<1>6. Loyal(k, k')
  BY <1>3, <1>5 DEF Loyal, Pinned, Bound, Sole, SignerPodsGone
<1>7. OneKey'
  <2>1. KeyKept /\ Onward
    BY DEF Kube, run, KeyKept, Onward
  <2> QED
    BY <1>6, <2>1, LoyalStep
<1>8. Signing' = Signing
  <2>1. \A i \in Ordinals : k.pods[i] # None => k'.claims[i] = k.claims[i]
    BY <1>3, <1>4
  <2>2. \A i \in Ordinals : MaySign(i)' <=> MaySign(i)
    BY <1>3, <2>1 DEF MaySign
  <2>3. \A x : x \in Signing' <=> x \in Signing
    BY <1>3, <2>2 DEF Signing
  <2> QED
    BY <2>3
<1>9. HistoryOf(k') \subseteq HistoryOf(k)
  BY <1>5 DEF HistoryOf
<1>10. ASSUME Signing # {} PROVE HistoryOf(k) \subseteq HistoryOf(k')
  <2>1. PICK x \in Signing : TRUE
    BY <1>10
  <2>2. PICK i \in Ordinals : /\ k.pods[i] # None /\ k.pods[i].conf.key = x
                              /\ k.claims[i] # None /\ x \in k.claims[i].history
    BY <2>1, SigningIs
  <2>3. i # o /\ ~SignerPodsGone(k)
    BY <1>4, <2>2 DEF SignerPodsGone
  <2>4. PICK y \in Keys : Bound(k, y)
    BY <2>3 DEF OneKey
  <2>5. y = x
    BY <2>2, <2>4 DEF Bound, Pinned
  <2>6. k.claims[o].history \subseteq {x}
    BY <1>4, <2>4, <2>5 DEF Bound
  <2>7. x \in HistoryOf(k')
    <3>1. k'.claims[i] = k.claims[i]
      BY <1>3, <2>3
    <3> QED
      BY <2>2, <3>1 DEF HistoryOf
  <2>8. \A z : z \in HistoryOf(k) => z \in HistoryOf(k')
    <3> SUFFICES ASSUME NEW z \in HistoryOf(k) PROVE z \in HistoryOf(k')
      OBVIOUS
    <3>1. PICK j \in Ordinals : k.claims[j] # None /\ z \in k.claims[j].history
      BY DEF HistoryOf
    <3>2. CASE j = o
      BY <2>6, <2>7, <3>1, <3>2
    <3>3. CASE j # o
      <4>1. k'.claims[j] = k.claims[j]
        BY <1>3, <3>3
      <4> QED
        BY <3>1, <4>1 DEF HistoryOf
    <3> QED
      BY <3>2, <3>3
  <2> QED
    BY <2>8
<1> QED
  BY <1>7, <1>8, <1>9, <1>10

----------------------------------------------------------------------------
(* The refinement *)

\* What is signed with is remembered, and is one key.
LEMMA OneSigning ==
    ASSUME IInv, OneKey
    PROVE  /\ Signing \subseteq HistoryOf(k)
           /\ \A x : Pinned(k, x) => Signing \subseteq {x}
           /\ Signing = {} \/ \E x : Signing = {x}
<1>1. Signing \subseteq HistoryOf(k)
  BY SigningIs DEF HistoryOf
<1>2. ASSUME NEW x, Pinned(k, x) PROVE Signing \subseteq {x}
  BY <1>2, SigningIs DEF Pinned
<1>3. ASSUME Signing # {} PROVE \E x : Signing = {x}
  <2>1. ~SignerPodsGone(k)
    BY <1>3, SigningIs DEF SignerPodsGone
  <2>2. PICK x \in Keys : Bound(k, x)
    BY <2>1 DEF OneKey
  <2>3. Signing \subseteq {x}
    BY <1>2, <2>2, Weaker
  <2> QED
    BY <1>3, <2>3
<1> QED
  BY <1>1, <1>2, <1>3

\* A peaceful step stops the signer, starts it, or changes nothing.
LEMMA PeacefulStep ==
    ASSUME IInv, OneKey, IInv', Peaceful(k, k')
    PROVE  [Service!Next]_<<Signing, HistoryOf(k)>>
<1>1. HistoryOf(k)' = HistoryOf(k)
  BY DEF Peaceful, HistoryOf
<1>2. CASE Signing' = {}
  BY <1>1, <1>2 DEF Service!Next, Service!Stop
<1>3. CASE Signing' # {}
  <2>1. \A x \in Signing' : \E i \in Ordinals : k.pods[i] # None /\ k.pods[i].conf.key = x
    BY SigningNext DEF Peaceful
  <2>2. ~SignerPodsGone(k)
    BY <1>3, <2>1 DEF SignerPodsGone
  <2>3. PICK x \in Keys : Bound(k, x)
    BY <2>2 DEF OneKey
  <2>4. Signing' \subseteq {x}
    BY <2>1, <2>3 DEF Bound, Pinned
  <2>5. Signing' = {x}
    BY <1>3, <2>4
  <2>6. x \in HistoryOf(k)'
    BY <2>5, SigningNext DEF HistoryOf
  <2>7. Signing \subseteq {x}
    BY <2>3, Weaker, OneSigning
  <2>8. CASE Signing = {x}
    BY <1>1, <2>5, <2>8
  <2>9. CASE Signing = {}
    <3>1. HistoryOf(k)' = HistoryOf(k) \cup {x}
      BY <1>1, <2>6
    <3> QED
      BY <2>5, <2>6, <2>9, <3>1 DEF Service!Next, Service!Start
  <2> QED
    BY <2>7, <2>8, <2>9
<1> QED
  BY <1>2, <1>3

LEMMA ServeRefines ==
    ASSUME IInv, OneKey, IInv', Kube, k' \in ServePods(k, Serves)
    PROVE  OneKey' /\ [Service!Next]_<<Signing, HistoryOf(k)>>
<1>1. OneKey'
  BY ServeIs
<1>2. PICK x \in Signing' : Pinned(k, x) /\ ~SignerPodsGone(k) /\ HistoryOf(k') = HistoryOf(k) \cup {x}
  BY ServeIs
<1>3. Signing \subseteq {x} /\ Signing \subseteq HistoryOf(k)
  BY <1>2, OneSigning
<1>4. HistoryOf(k)' = HistoryOf(k) \cup {x}
  BY <1>2 DEF HistoryOf
<1>5. Signing' = {x}
  <2>1. ~SignerPodsGone(k')
    BY <1>2, SigningNext DEF SignerPodsGone
  <2>2. PICK y \in Keys : Bound(k', y)
    BY <1>1, <2>1 DEF OneKey, Bound, Pinned, SignerPodsGone
  <2>3. Signing' \subseteq {y}
    BY <2>2, SigningNext DEF Bound, Pinned
  <2> QED
    BY <1>2, <2>3
<1>6. CASE Signing = {}
  <2>1. x \in HistoryOf(k)'
    BY <1>4
  <2>2. Service!Start
    BY <1>4, <1>5, <1>6, <2>1 DEF Service!Start
  <2> QED
    BY <1>1, <2>2 DEF Service!Next
<1>7. CASE Signing = {x}
  <2>1. HistoryOf(k)' = HistoryOf(k)
    BY <1>3, <1>4, <1>7
  <2> QED
    BY <1>1, <1>5, <1>7, <2>1
<1> QED
  BY <1>1, <1>3, <1>6, <1>7

LEMMA RemoveClaimRefines ==
    ASSUME IInv, OneKey, Kube, k' \in RemoveClaims(k)
    PROVE  OneKey' /\ [Service!Next]_<<Signing, HistoryOf(k)>>
<1>1. /\ OneKey' /\ Signing' = Signing /\ HistoryOf(k') \subseteq HistoryOf(k)
      /\ Signing # {} => HistoryOf(k') = HistoryOf(k)
  BY RemoveClaimIs
<1>2. HistoryOf(k)' = HistoryOf(k')
  BY DEF HistoryOf
<1>3. CASE Signing = {}
  BY <1>1, <1>2, <1>3 DEF Service!Next, Service!Forget
<1>4. CASE Signing # {}
  BY <1>1, <1>2, <1>4
<1> QED
  BY <1>1, <1>3, <1>4

LEMMA RefinementStep ==
    ASSUME IInv, OneKey, IInv', [Next]_vars
    PROVE  OneKey' /\ [Service!Next]_<<Signing, HistoryOf(k)>>
<1>1. CASE Kube
  <2>1. k' \in KubeSteps(k, Serves)
    BY <1>1 DEF Kube
  <2>2. CASE k' \in ObserveSts(k) \cup StartPods(k) \cup StopPods(k) \cup RemovePods(k)
    BY <1>1, <2>2, ClusterIs, OrdinaryStep, PeacefulStep
  <2>3. CASE k' \in ServePods(k, Serves)
    BY <1>1, <2>3, ServeRefines
  <2>4. CASE k' \in RemoveClaims(k)
    BY <1>1, <2>4, RemoveClaimRefines
  <2> QED
    BY <2>1, <2>2, <2>3, <2>4 DEF KubeSteps
<1>2. CASE PreflightObjects \/ MigrateFirst \/ Migrate \/ Record \/ ApplySts \/ Remove \/ ClearStatus
           \/ Finalize \/ StatusLost
  BY <1>2, PreflightIs, MigrateFirstIs, MigrateIs, RecordIs, ApplyStsIs, RemoveIs, ClearStatusIs, FinalizeIs,
     StatusLostIs, PeacefulStep
<1>3. CASE \/ PreflightParams \/ RunJob \/ JobWait \/ JobClean \/ Claims \/ Abort
           \/ Edit \/ EditSecret \/ VersionReady \/ ImportRuns \/ JobLost
           \/ JobDone \/ Verify("verify") \/ Verify("verifyNew") \/ RecordDigest \/ Locks
           \/ Import("import", "import2") \/ Import("import2", "config") \/ ApplyConfig \/ Mark
           \/ PreflightConflict \/ Prepare \/ Evict \/ DeleteClaim \/ DeleteSts \/ FreeName \/ DeleteRoot
  <2>1. Ordinary
    BY <1>3, PassesOn, GoesOnAround, RecordsOn, CallsOn, PrepareIs, FaultsAre
  <2> QED
    BY <2>1, OrdinaryStep, PeacefulStep
<1>4. CASE UNCHANGED vars
  <2>1. k' = k /\ st' = st /\ val' = val /\ pc' = pc /\ loc' = loc
    BY <1>4 DEF vars
  <2>2. Ordinary
    BY <2>1, NothingChanged DEF Onward
  <2> QED
    BY <2>2, OrdinaryStep, PeacefulStep
<1> QED
  BY <1>1, <1>2, <1>3, <1>4 DEF Next, Controller, Cluster

LEMMA InitOneKey == ASSUME Init PROVE OneKey
<1>1. /\ k \in SignerObjectsType /\ pc = "idle"
      /\ \/ k \in {NoObjects, [NoObjects EXCEPT !.taken = TRUE], LeftOver(spec)}
         \/ k = LegacyObjects(spec)
  BY InitStatus DEF Init
<1>2. st.mig = None /\ (~val => st.sdig = None) /\ (st.adig # None => st.pub = FirstKey)
  <2>1. /\ NoStatus.mig = None /\ NoStatus.adig = None /\ NoStatus.sdig = None
    BY DEF NoStatus
  <2>2. PICK applied :
          \/ st = NoStatus
          \/ st = [NoStatus EXCEPT !.shape = spec.shape, !.adig = applied,
                                   !.pub = IF applied = None THEN None ELSE FirstKey,
                                   !.sdig = IF val THEN spec.dest ELSE None]
    BY DEF Init
  <2>3. CASE st = NoStatus
    BY <2>1, <2>3
  <2>4. CASE st = [NoStatus EXCEPT !.shape = spec.shape, !.adig = applied,
                                   !.pub = IF applied = None THEN None ELSE FirstKey,
                                   !.sdig = IF val THEN spec.dest ELSE None]
    <3> DEFINE pub == IF applied = None THEN None ELSE FirstKey
               sdig == IF val THEN spec.dest ELSE None
    <3>1. st = [shape |-> spec.shape, sdig |-> sdig, adig |-> applied, pub |-> pub, mig |-> None,
                imp |-> None, ver |-> None]
      BY <2>4 DEF NoStatus
    <3>2. (~val => sdig = None) /\ (applied # None => pub = FirstKey)
      OBVIOUS
    <3> HIDE DEF pub, sdig
    <3> QED
      BY <3>1, <3>2
  <2> QED
    BY <2>2, <2>3, <2>4
<1>3. Sole(k, FirstKey)
  <2>1. CASE k \in {NoObjects, [NoObjects EXCEPT !.taken = TRUE], LeftOver(spec)}
    <3> DEFINE none == [o \in Ordinals |-> None]
               other == [o \in Ordinals |-> [owner |-> "other", guard |-> FALSE, going |-> FALSE,
                                             history |-> {}, shape |-> spec.shape]]
    <3>1. /\ NoObjects = [sts |-> None, pods |-> none, claims |-> none, cm |-> None, taken |-> FALSE]
          /\ LeftOver(spec) = [NoObjects EXCEPT !.claims = other]
      BY DEF NoObjects, NoPods, LeftOver
    <3>2. \A i \in Ordinals : none[i] = None /\ other[i].history = {}
      OBVIOUS
    <3> HIDE DEF none, other
    <3>3. k.sts = None /\ k.pods = none /\ k.claims \in {none, other}
      <4>1. CASE k = NoObjects
        BY <3>1, <4>1
      <4>2. CASE k = [NoObjects EXCEPT !.taken = TRUE]
        BY <3>1, <4>2
      <4>3. CASE k = LeftOver(spec)
        BY <3>1, <4>3
      <4> QED
        BY <2>1, <4>1, <4>2, <4>3
    <3> QED
      BY <3>2, <3>3 DEF Sole, Pinned
  <2>2. CASE k = LegacyObjects(spec)
    <3> DEFINE conf == [dest |-> spec.dest, key |-> FirstKey, ver |-> 0]
               sts == [conf |-> conf, shape |-> spec.shape, up |-> TRUE, latched |-> FALSE,
                       ever |-> FALSE, keep |-> FALSE, guarded |-> FALSE, seen |-> TRUE]
               pods == [o \in Ordinals |-> [conf |-> conf, st |-> "ready"]]
               mine == [o \in Ordinals |-> [owner |-> "mine", guard |-> FALSE, going |-> FALSE,
                                            history |-> {FirstKey}, shape |-> spec.shape]]
    <3>1. k = [NoObjects EXCEPT !.sts = sts, !.pods = pods, !.claims = mine, !.cm = conf]
      BY <2>2 DEF LegacyObjects
    <3>2. conf.key = FirstKey /\ sts.conf = conf
      OBVIOUS
    <3>3. \A i \in Ordinals : pods[i].conf = conf /\ mine[i].history = {FirstKey}
      OBVIOUS
    <3> HIDE DEF conf, sts, pods, mine
    <3>4. k.sts = sts /\ k.pods = pods /\ k.claims = mine
      BY <3>1 DEF NoObjects
    <3> QED
      BY <3>2, <3>3, <3>4 DEF Sole, Pinned
  <2> QED
    BY <1>1, <2>1, <2>2
<1>4. Bound(k, FirstKey) /\ Pinned(k, FirstKey)
  BY <1>3, Weaker
<1> QED
  BY <1>1, <1>2, <1>3, <1>4, SignerAssumption DEF OneKey

LEMMA InitRefines == ASSUME IInv, OneKey PROVE Service!Init
BY OneSigning DEF Service!Init

\* A managed signer is of one key at a time, at every point of a pass: the
\* validator's, the one in the status, or the one a migration has cleared the
\* way for; and a claim that Kubernetes may remove holds no other key's history.
THEOREM OneKeyAtATime == Spec => []OneKey
<1>1. Init => OneKey
  BY InitOneKey
<1>2. IInv /\ IInv' /\ OneKey /\ [Next]_vars => OneKey'
  BY RefinementStep
<1> QED
  BY <1>1, <1>2, Invariance, PTL DEF Spec

\* A managed signer does what SignerService promises: whatever is edited,
\* migrated, lost, deleted or restarted, its pods can sign with at most one key,
\* they all stop before another key is served or a history is forgotten, and
\* every key that can be signed with is remembered by a claim.
THEOREM ServiceImplemented == Spec => ImplementsService
<1>1. Init => Service!Init
  BY InitIInv, InitOneKey, InitRefines
<1>2. IInv /\ IInv' /\ OneKey /\ [Next]_vars => [Service!Next]_<<Signing, HistoryOf(k)>>
  BY RefinementStep
<1> QED
  BY <1>1, <1>2, Invariance, OneKeyAtATime, PTL DEF Spec, Service!Spec, ImplementsService

=============================================================================
