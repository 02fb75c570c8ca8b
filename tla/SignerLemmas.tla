---------------------------- MODULE SignerLemmas ----------------------------
(***************************************************************************)
(* What the library calls on a signer's objects change, and that the steps *)
(* of the controller keep the invariant of Signer: the preflight, the      *)
(* import, the migration, the rollout and its records, and the steps that  *)
(* guard, remove or release the claims.                                    *)
(***************************************************************************)
EXTENDS Signer, TLAPS

\* A leaf is for Zenon unless it says otherwise.
USE Zenon DEF Unplanned

(* The library calls *)

\* A call that touches neither pods nor claims, and creates no StatefulSet.
Calm(a, b) ==
    /\ b \in SignerObjectsType
    /\ b.pods = a.pods /\ b.claims = a.claims
    /\ b.sts # None => /\ a.sts # None
                       /\ b.sts.conf = a.sts.conf /\ b.sts.shape = a.sts.shape
                       /\ b.sts.guarded = a.sts.guarded

\* A change of the spec of a StatefulSet that leaves its template alone is calm.
LEMMA ChangedIsCalm ==
    ASSUME NEW a \in SignerObjectsType, a.sts # None, NEW s \in StatefulSets,
           s.conf = a.sts.conf, s.shape = a.sts.shape, s.guarded = a.sts.guarded
    PROVE  Calm(a, Changed(a, s)) /\ Changed(a, s).sts # None
<1> DEFINE t == [s EXCEPT !.seen = FALSE]
<1>1. t \in StatefulSets /\ t.conf = s.conf /\ t.shape = s.shape /\ t.guarded = s.guarded
  BY DEF StatefulSets
<1>2. Changed(a, s) = [a EXCEPT !.sts = t]
  BY DEF Changed
<1> HIDE DEF t
<1>3. [a EXCEPT !.sts = t] \in SignerObjectsType
  BY <1>1 DEF SignerObjectsType
<1>4. /\ [a EXCEPT !.sts = t].sts = t
      /\ [a EXCEPT !.sts = t].pods = a.pods
      /\ [a EXCEPT !.sts = t].claims = a.claims
  BY DEF SignerObjectsType
<1>5. t # None
  BY <1>1, NoneIsNoObject
<1> QED
  BY <1>1, <1>2, <1>3, <1>4, <1>5 DEF Calm

\* Nothing changed.
LEMMA SameIsCalm == ASSUME NEW a \in SignerObjectsType PROVE Calm(a, a)
BY DEF Calm

LEMMA CalmTwice ==
    ASSUME NEW a, NEW b, NEW c, Calm(a, b), Calm(b, c) PROVE Calm(a, c)
BY DEF Calm

\* ScaleDown changes replicas only, and succeeds when no pod is left.
LEMMA ScaleDownIsCalm ==
    ASSUME NEW a \in SignerObjectsType
    PROVE  /\ Calm(a, ScaleDown(a).k)
           /\ ScaleDown(a).k.sts = None <=> a.sts = None
           /\ ScaleDown(a).ok => ScaleDown(a).k = a /\ SignerPodsGone(a)
<1>1. CASE a.sts = None \/ ~a.sts.up
  <2>1. ScaleDown(a).k = a /\ (ScaleDown(a).ok => SignerPodsGone(a))
    BY <1>1 DEF ScaleDown, Result
  <2> QED
    BY <2>1, SameIsCalm
<1>2. CASE a.sts # None /\ a.sts.up
  <2> DEFINE s == [a.sts EXCEPT !.up = FALSE]
  <2>1. ScaleDown(a).k = Changed(a, s) /\ ~ScaleDown(a).ok
    BY <1>2 DEF ScaleDown, Result
  <2>2. a.sts \in StatefulSets
    BY <1>2 DEF SignerObjectsType
  <2>3. s \in StatefulSets /\ s.conf = a.sts.conf /\ s.shape = a.sts.shape /\ s.guarded = a.sts.guarded
    BY <2>2 DEF StatefulSets
  <2> HIDE DEF s
  <2>4. Calm(a, Changed(a, s)) /\ Changed(a, s).sts # None
    BY <1>2, <2>3, ChangedIsCalm
  <2> QED
    BY <1>2, <2>1, <2>4
<1> QED
  BY <1>1, <1>2

LEMMA RetainIsCalm ==
    ASSUME NEW a \in SignerObjectsType
    PROVE  /\ Calm(a, RetainStatefulSetPVCs(a).k)
           /\ RetainStatefulSetPVCs(a).k.sts = None <=> a.sts = None
           /\ RetainStatefulSetPVCs(a).ok =>
                 RetainStatefulSetPVCs(a).k = a /\ (a.sts # None => a.sts.keep)
<1>1. CASE a.sts = None \/ a.sts.keep
  <2>1. /\ RetainStatefulSetPVCs(a).k = a
        /\ a.sts # None => a.sts.keep
    BY <1>1 DEF RetainStatefulSetPVCs, Result
  <2> QED
    BY <2>1, SameIsCalm
<1>2. CASE a.sts # None /\ ~a.sts.keep
  <2> DEFINE s == [a.sts EXCEPT !.keep = TRUE]
  <2>1. RetainStatefulSetPVCs(a).k = Changed(a, s) /\ ~RetainStatefulSetPVCs(a).ok
    BY <1>2 DEF RetainStatefulSetPVCs, Result
  <2>2. a.sts \in StatefulSets
    BY <1>2 DEF SignerObjectsType
  <2>3. s \in StatefulSets /\ s.conf = a.sts.conf /\ s.shape = a.sts.shape /\ s.guarded = a.sts.guarded
    BY <2>2 DEF StatefulSets
  <2> HIDE DEF s
  <2>4. Calm(a, Changed(a, s)) /\ Changed(a, s).sts # None
    BY <1>2, <2>3, ChangedIsCalm
  <2> QED
    BY <1>2, <2>1, <2>4
<1> QED
  BY <1>1, <1>2

\* DeleteStatefulSet retains the claims before it deletes, and deletes when no pod
\* is left: nothing is lost with the StatefulSet.
LEMMA DeleteIsCalm ==
    ASSUME NEW a \in SignerObjectsType
    PROVE  /\ Calm(a, DeleteStatefulSet(a).k)
           /\ a.sts = None => DeleteStatefulSet(a).k = a
           /\ DeleteStatefulSet(a).ok => DeleteStatefulSet(a).k.sts = None /\ SignerPodsGone(a)
<1> DEFINE r == RetainStatefulSetPVCs(a)
           s == ScaleDown(r.k)
<1>1. Calm(a, r.k) /\ r.k \in SignerObjectsType
  BY RetainIsCalm DEF Calm
<1>2. CASE ~r.ok
  <2>1. DeleteStatefulSet(a) = r
    BY <1>2 DEF DeleteStatefulSet
  <2>2. a.sts # None
    BY <1>2 DEF RetainStatefulSetPVCs, Result
  <2> QED
    BY <1>1, <1>2, <2>1, <2>2
<1>3. CASE r.ok /\ ~s.ok
  <2>1. DeleteStatefulSet(a) = s
    BY <1>3 DEF DeleteStatefulSet
  <2>2. r.k = a
    BY <1>3, RetainIsCalm
  <2>3. Calm(a, s.k)
    BY <2>2, ScaleDownIsCalm
  <2>4. a.sts = None => s.k = a
    BY <2>2 DEF ScaleDown, Result
  <2> QED
    BY <1>3, <2>1, <2>3, <2>4
<1>4. CASE r.ok /\ s.ok
  <2>1. r.k = a /\ (a.sts # None => a.sts.keep)
    BY <1>4, RetainIsCalm
  <2>2. s.k = a /\ SignerPodsGone(a)
    BY <1>4, <2>1, ScaleDownIsCalm
  <2>3. DeleteStatefulSet(a) = Result(IF a.sts = None THEN a ELSE WithoutSts(a), TRUE)
    BY <1>4, <2>2 DEF DeleteStatefulSet
  <2>4. CASE a.sts = None
    BY <2>2, <2>3, <2>4, SameIsCalm, SMT DEF Result
  <2>5. CASE a.sts # None
    <3>1. [o \in Ordinals |-> IF a.claims[o] = None \/ a.sts.keep THEN a.claims[o]
                              ELSE [a.claims[o] EXCEPT !.going = TRUE]] = a.claims
      BY <2>1, <2>5 DEF SignerObjectsType
    <3>2. WithoutSts(a) = [a EXCEPT !.sts = None, !.claims = a.claims]
      BY <3>1 DEF WithoutSts
    <3>3. /\ WithoutSts(a) \in SignerObjectsType /\ WithoutSts(a).sts = None
          /\ WithoutSts(a).pods = a.pods /\ WithoutSts(a).claims = a.claims
      BY <3>2 DEF SignerObjectsType
    <3> QED
      BY <2>2, <2>3, <2>5, <3>3, SMT DEF Result, Calm
  <2> QED
    BY <2>4, <2>5
<1> QED
  BY <1>2, <1>3, <1>4

LEMMA QuiesceIsCalm ==
    ASSUME NEW a \in SignerObjectsType
    PROVE  /\ Calm(a, QuiesceUnsafeRetainedState(a))
           /\ QuiesceUnsafeRetainedState(a).sts = None <=> a.sts = None
<1>1. CASE a.sts = None \/ (a.sts.latched /\ ~a.sts.up)
  BY <1>1, SameIsCalm DEF QuiesceUnsafeRetainedState
<1>2. CASE a.sts # None /\ ~(a.sts.latched /\ ~a.sts.up)
  <2> DEFINE s == [a.sts EXCEPT !.latched = TRUE, !.up = FALSE]
  <2>1. QuiesceUnsafeRetainedState(a) = Changed(a, s)
    BY <1>2 DEF QuiesceUnsafeRetainedState
  <2>2. a.sts \in StatefulSets
    BY <1>2 DEF SignerObjectsType
  <2>3. s \in StatefulSets /\ s.conf = a.sts.conf /\ s.shape = a.sts.shape /\ s.guarded = a.sts.guarded
    BY <2>2 DEF StatefulSets
  <2> HIDE DEF s
  <2>4. Calm(a, Changed(a, s)) /\ Changed(a, s).sts # None
    BY <1>2, <2>3, ChangedIsCalm
  <2> QED
    BY <1>2, <2>1, <2>4
<1> QED
  BY <1>1, <1>2

LEMMA MarkIsCalm ==
    ASSUME NEW a \in SignerObjectsType
    PROVE  /\ Calm(a, MarkEverRolledOut(a).k)
           /\ MarkEverRolledOut(a).k.sts = None <=> a.sts = None
<1>1. CASE ~IsRolledOut(a)
  BY <1>1, SameIsCalm DEF MarkEverRolledOut, Result
<1>2. CASE IsRolledOut(a)
  <2>1. a.sts \in StatefulSets /\ a.sts # None
    BY <1>2 DEF IsRolledOut, SignerObjectsType
  <2> DEFINE s == [a.sts EXCEPT !.ever = TRUE]
  <2>2. /\ s \in StatefulSets /\ s.conf = a.sts.conf /\ s.shape = a.sts.shape
        /\ s.guarded = a.sts.guarded
    BY <2>1 DEF StatefulSets
  <2>3. MarkEverRolledOut(a).k = [a EXCEPT !.sts = s]
    BY <1>2 DEF MarkEverRolledOut, Result
  <2> HIDE DEF s
  <2>4. /\ [a EXCEPT !.sts = s] \in SignerObjectsType /\ [a EXCEPT !.sts = s].sts = s
        /\ [a EXCEPT !.sts = s].pods = a.pods /\ [a EXCEPT !.sts = s].claims = a.claims
    BY <2>2 DEF SignerObjectsType
  <2>5. s # None
    BY <2>2, NoneIsNoObject
  <2> QED
    BY <2>1, <2>2, <2>3, <2>4, <2>5 DEF Calm
<1> QED
  BY <1>1, <1>2

----------------------------------------------------------------------------
(* Steps *)

\* What a step leaves alone in most cases.
Quiet ==
    /\ root' = root /\ val' = val /\ onChain' = onChain
    /\ served' = served /\ lost' = lost
    /\ wiped \subseteq wiped' /\ (val /\ root = "alive" /\ ~lost => wiped' = wiped)
    /\ st'.shape = st.shape
    /\ st'.mig = None \/ st'.mig = st.mig \/ st'.mig.phase \notin {"resettingState", "recreating"}
    /\ pc' # "idle" => pc # "idle"
    /\ pc' = "clear" => pc = "clear"

\* A step whose calls are calm keeps the invariant.
LEMMA CalmStep ==
    ASSUME IInv, TypeOK', Quiet, Calm(k, k'), Unprotected /\ root = "alive" => k'.sts # None,
           WorksUnderLock', SameKey'
    PROVE  IInv'
<1> USE DEF IInv, Quiet
<1>1. /\ k'.pods = k.pods /\ k'.claims = k.claims
      /\ k'.sts # None => /\ k.sts # None /\ k'.sts.conf = k.sts.conf
                          /\ k'.sts.shape = k.sts.shape /\ k'.sts.guarded = k.sts.guarded
  BY DEF Calm
<1>2. OneMembership'
  BY <1>1 DEF OneMembership, Owned
<1>3. Guarded'
  BY <1>1 DEF Guarded, Owned, Forsaken, Unprotected, SignerPodsGone
<1>4. Remembered'
  BY <1>1, SMTT(30) DEF Remembered, Ready, HistoryOf, Owned
<1>5. StoppedForReset'
  BY <1>1 DEF StoppedForReset, SignerPodsGone
<1>6. NothingGivenUp'
  BY <1>1 DEF NothingGivenUp, Owned
<1> QED
  BY <1>2, <1>3, <1>4, <1>5, <1>6

\* How a pass goes on: it ends, it stays where it is, or it goes further with what
\* it read.
Moves ==
    \/ pc' = "idle" /\ loc' = NoLoc
    \/ pc' = pc /\ loc'.spec = loc.spec /\ loc'.conf = loc.conf
    \/ /\ pc \notin Unplanned \cup {"locks"}
       /\ loc'.spec = loc.spec /\ loc'.conf = loc.conf

\* A step that moves a pass and changes neither key nor migration.
LEMMA PassStep ==
    ASSUME IInv, TypeOK', Quiet, Calm(k, k'), Unprotected => k'.sts # None,
           Moves, st'.pub = st.pub, st'.mig = st.mig
    PROVE  IInv'
<1>1. WorksUnderLock'
  BY DEF IInv, Quiet, Moves, WorksUnderLock
<1>2. SameKey'
  BY SMT DEF IInv, Quiet, Moves, SameKey, NoLoc
<1> QED
  BY <1>1, <1>2, CalmStep

\* The records that passes start from and end with have their types.
LEMMA LocTypes ==
    /\ NoLoc \in Locs
    /\ spec \in Specs => Read \in Locs /\ Read.spec = spec /\ Read.conf = None
    /\ \A l \in Locs : /\ \A c \in Confs : [l EXCEPT !.conf = c] \in Locs
                       /\ \A m \in Keys \cup {None} : [l EXCEPT !.mat = m] \in Locs
                       /\ \A n \in Nat : [l EXCEPT !.ver = n] \in Locs
                       /\ \A b \in BOOLEAN : LET m == [l EXCEPT !.fresh = b]
                                             IN  m \in Locs /\ m.spec = l.spec /\ m.conf = l.conf
                                                 /\ m.mat = l.mat
BY DEF NoLoc, Locs, Read

\* While a pass runs its spec is there, and once it knows the key, its configuration.
LEMMA PassTypes ==
    ASSUME TypeOK
    PROVE  /\ pc # "idle" => loc.spec \in Specs /\ loc.spec.dest \in Dests /\ loc.spec.shape \in Shapes
           /\ pc \notin Unplanned => /\ loc.conf \in Confs /\ loc.conf.key \in Keys
                                                 /\ loc.conf # None
BY NoneIsNoObject DEF TypeOK, Locs, Specs, Confs

\* Steps of a pass, the import pod and Cloud KMS that leave the signer alone.
LEMMA PreflightParamsStep == ASSUME IInv, PreflightParams PROVE IInv'
<1> USE DEF PreflightParams, Return, signer, ghost
<1>1. TypeOK'
  BY LocTypes DEF IInv, TypeOK, NoLoc, Steps
<1>2. Quiet /\ Moves
  BY DEF Quiet, Moves
<1> QED
  BY <1>1, <1>2, SameIsCalm, PassStep DEF IInv, TypeOK, Unprotected

LEMMA RunJobStep == ASSUME IInv, RunJob PROVE IInv'
<1> USE DEF RunJob, Goto, ReadLog, ghost
<1>0. /\ loc \in Locs /\ loc.spec \in Specs /\ loc.spec.dest \in Dests
      /\ job \in Jobs \cup {None}
      /\ NewJob(loc.spec.dest) \in Jobs
  BY PassTypes DEF IInv, TypeOK, NewJob, Jobs
<1>1. job' \in Jobs \cup {None}
  BY <1>0
<1>2. loc' \in Locs /\ loc'.spec = loc.spec /\ loc'.conf = loc.conf
  <2>1. CASE job # None /\ job.n \in Nat
    BY <1>0, <2>1, LocTypes, SMT DEF Locs
  <2>2. CASE job = None
    BY <1>0, <2>2
  <2> QED
    BY <1>0, <2>1, <2>2 DEF Jobs
<1>3. TypeOK'
  BY <1>1, <1>2 DEF IInv, TypeOK, Steps
<1>4. Quiet /\ Moves
  BY <1>2 DEF Quiet, Moves
<1> QED
  BY <1>3, <1>4, SameIsCalm, PassStep DEF IInv, TypeOK, Unprotected

LEMMA JobWaitStep == ASSUME IInv, JobWait PROVE IInv'
<1> USE DEF JobWait, Return, ReadLog, ghost
<1>1. job \in Jobs /\ job.n \in Nat /\ loc \in Locs
  BY DEF IInv, TypeOK, Jobs
<1>2. [loc EXCEPT !.ver = job.n] \in Locs
  BY <1>1, LocTypes
<1>3. \/ loc' \in Locs /\ loc'.spec = loc.spec /\ loc'.conf = loc.conf /\ pc' = "jobDone"
      \/ loc' = NoLoc /\ pc' = "idle"
  BY <1>1, <1>2 DEF Locs
<1>4. TypeOK'
  BY <1>1, <1>3, LocTypes DEF IInv, TypeOK, Steps, NoLoc
<1>5. Quiet /\ Moves
  BY <1>3 DEF Quiet, Moves
<1> QED
  BY <1>4, <1>5, SameIsCalm, PassStep DEF IInv, TypeOK, Unprotected

LEMMA JobCleanStep == ASSUME IInv, JobClean PROVE IInv'
<1> USE DEF JobClean, Goto, ghost
<1>1. TypeOK'
  BY DEF IInv, TypeOK, Steps
<1>2. Quiet /\ Moves
  BY DEF Quiet, Moves
<1> QED
  BY <1>1, <1>2, SameIsCalm, PassStep DEF IInv, TypeOK, Unprotected

LEMMA ClaimsStep == ASSUME IInv, Claims PROVE IInv'
<1> USE DEF Claims, Return, ghost
<1>1. TypeOK'
  BY LocTypes DEF IInv, TypeOK, Steps, NoLoc, Kept
<1>2. Quiet /\ Moves
  BY DEF Quiet, Moves
<1> QED
  BY <1>1, <1>2, SameIsCalm, PassStep DEF IInv, TypeOK, Unprotected

LEMMA AbortStep == ASSUME IInv, Abort PROVE IInv'
<1> USE DEF Abort, Fault, Return, signer, ghost
<1>1. TypeOK'
  BY LocTypes, SignerAssumption, SMT DEF IInv, TypeOK, Steps, NoLoc
<1>2. Quiet /\ Moves
  BY DEF Quiet, Moves
<1> QED
  BY <1>1, <1>2, SameIsCalm, PassStep DEF IInv, TypeOK, Unprotected

LEMMA EditStep == ASSUME IInv, Edit \/ EditSecret PROVE IInv'
<1> USE DEF Edit, EditSecret, run, ghost
<1>0. pc' = pc /\ loc' \in Locs /\ loc'.spec = loc.spec /\ loc'.conf = loc.conf
  BY LocTypes DEF IInv, TypeOK, Outdated
<1>1. TypeOK'
  BY <1>0, SignerAssumption, SMT DEF IInv, TypeOK, Specs
<1>2. Quiet /\ Moves
  BY <1>0 DEF Quiet, Moves
<1> QED
  BY <1>1, <1>2, SameIsCalm, PassStep DEF IInv, TypeOK, Unprotected

LEMMA VersionReadyStep == ASSUME IInv, VersionReady PROVE IInv'
<1> USE DEF VersionReady, run, ghost
<1>1. PICK d \in Dests : \E i \in DOMAIN kms[d] : kms' = [kms EXCEPT ![d][i].ready = TRUE]
  OBVIOUS
<1>2. PICK i \in DOMAIN kms[d] : kms' = [kms EXCEPT ![d][i].ready = TRUE]
  BY <1>1
<1>3. kms \in [Dests -> Seq(Versions)] /\ kms[d] \in Seq(Versions) /\ i \in 1..Len(kms[d])
  BY <1>2, SMT DEF IInv, TypeOK
<1>4. [kms[d][i] EXCEPT !.ready = TRUE] \in Versions
  <2> DEFINE v == kms[d][i]
  <2>1. v \in Versions
    BY <1>3, SMT
  <2> HIDE DEF v
  <2>2. [v EXCEPT !.ready = TRUE] \in Versions
    BY <2>1 DEF Versions
  <2> QED
    BY <2>2 DEF v
<1>5. [kms[d] EXCEPT ![i] = [kms[d][i] EXCEPT !.ready = TRUE]] \in Seq(Versions)
  BY <1>3, <1>4, SMT
<1>6. kms' \in [Dests -> Seq(Versions)]
  BY <1>2, <1>3, <1>5
<1>7. TypeOK'
  BY <1>6 DEF IInv, TypeOK
<1>8. Quiet /\ Moves
  BY DEF Quiet, Moves
<1> QED
  BY <1>7, <1>8, SameIsCalm, PassStep DEF IInv, TypeOK, Unprotected

LEMMA ImportRunsStep == ASSUME IInv, ImportRuns PROVE IInv'
<1> USE DEF ImportRuns, run, ghost
<1>1. job \in Jobs /\ job.dest \in Dests /\ kms \in [Dests -> Seq(Versions)] /\ src \in Keys \cup {None}
  BY DEF IInv, TypeOK, Jobs
<1>2. kms[job.dest] \in Seq(Versions) /\ Len(kms[job.dest]) \in Nat
  BY <1>1, SMT
<1>3. job' \in Jobs /\ kms' \in [Dests -> Seq(Versions)]
  <2>1. CASE src = None
    BY <1>1, <2>1 DEF Jobs
  <2>2. CASE src # None /\ KindOf[job.dest] = "gcp"
    <3>1. [key |-> src, ready |-> FALSE] \in Versions
      BY <1>1, <2>2 DEF Versions
    <3>2. Append(kms[job.dest], [key |-> src, ready |-> FALSE]) \in Seq(Versions)
      BY <1>2, <3>1, SMT
    <3>3. kms' = [kms EXCEPT ![job.dest] = Append(@, [key |-> src, ready |-> FALSE])]
      BY <2>2
    <3>4. PICK ph \in {"succeeded", "failed"} :
            job' = [job EXCEPT !.ph = ph, !.n = Len(kms[job.dest]) + 1]
      BY <2>2
    <3>5. job' \in Jobs
      <4> DEFINE n == Len(kms[job.dest]) + 1
      <4>1. n \in Nat /\ job' = [job EXCEPT !.ph = ph, !.n = n]
        BY <1>2, <3>4, SMT
      <4> HIDE DEF n
      <4>2. [job EXCEPT !.ph = ph, !.n = n] \in Jobs
        BY <1>1, <4>1 DEF Jobs
      <4> QED
        BY <4>1, <4>2
    <3>6. kms' \in [Dests -> Seq(Versions)]
      BY <1>1, <3>2, <3>3
    <3> QED
      BY <3>5, <3>6
  <2>3. CASE src # None /\ KindOf[job.dest] # "gcp"
    <3>1. [key |-> src, ready |-> TRUE] \in Versions
      BY <1>1, <2>3 DEF Versions
    <3>2. <<[key |-> src, ready |-> TRUE]>> \in Seq(Versions)
      BY <3>1, SMT
    <3>3. /\ kms' = IF kms[job.dest] = <<>>
                    THEN [kms EXCEPT ![job.dest] = <<[key |-> src, ready |-> TRUE]>>] ELSE kms
          /\ job' = [job EXCEPT !.ph = IF kms'[job.dest][1].key = src THEN "succeeded" ELSE "failed"]
      BY <2>3
    <3>4. kms' \in [Dests -> Seq(Versions)]
      BY <1>1, <3>2, <3>3
    <3>5. job' \in Jobs
      BY <1>1, <3>3 DEF Jobs
    <3> QED
      BY <3>4, <3>5
  <2> QED
    BY <2>1, <2>2, <2>3
<1>4. TypeOK'
  BY <1>3 DEF IInv, TypeOK
<1>5. Quiet /\ Moves
  BY DEF Quiet, Moves
<1> QED
  BY <1>4, <1>5, SameIsCalm, PassStep DEF IInv, TypeOK, Unprotected

\* The fields of the status that imports and rollouts write.
LEMMA StatusTypes ==
    ASSUME NEW s \in Statuses
    PROVE  /\ \A d \in Dests, n \in Nat :
                 LET t == [s EXCEPT !.ver = [dest |-> d, n |-> n]]
                 IN  t \in Statuses /\ t.shape = s.shape /\ t.pub = s.pub /\ t.mig = s.mig
           /\ \A d \in Dests, m \in Keys \cup {None} :
                 LET t == [s EXCEPT !.imp = [dest |-> d, key |-> m]]
                 IN  t \in Statuses /\ t.shape = s.shape /\ t.pub = s.pub /\ t.mig = s.mig
           /\ \A d \in Dests :
                 LET t == [s EXCEPT !.sdig = d]
                 IN  t \in Statuses /\ t.shape = s.shape /\ t.pub = s.pub /\ t.mig = s.mig
BY SMT DEF Statuses

LEMMA JobDoneStep == ASSUME IInv, JobDone PROVE IInv'
<1> USE DEF JobDone, Refreshed, ghost
<1>1. /\ st \in Statuses /\ loc.spec.dest \in Dests /\ loc.ver \in Nat
      /\ loc.mat \in Keys \cup {None}
  BY PassTypes DEF IInv, TypeOK, Locs
<1>2. st' \in Statuses /\ st'.shape = st.shape /\ st'.pub = st.pub /\ st'.mig = st.mig
  <2>1. CASE KindOf[loc.spec.dest] = "gcp"
    <3>1. st' = [st EXCEPT !.ver = [dest |-> loc.spec.dest, n |-> loc.ver]]
      BY <2>1
    <3> QED
      BY <1>1, <3>1, StatusTypes, SMT
  <2>2. CASE KindOf[loc.spec.dest] # "gcp"
    <3>1. st' = [st EXCEPT !.imp = [dest |-> loc.spec.dest, key |-> loc.mat]]
      BY <2>2
    <3> QED
      BY <1>1, <3>1, StatusTypes
  <2> QED
    BY <2>1, <2>2
<1>3. pc' \in {"jobClean", "import2"} /\ loc' \in Locs /\ loc'.spec = loc.spec /\ loc'.conf = loc.conf
  BY LocTypes DEF IInv, TypeOK
<1>4. TypeOK'
  BY <1>2, <1>3 DEF IInv, TypeOK, Steps
<1>5. Quiet /\ Moves
  BY <1>2, <1>3 DEF Quiet, Moves
<1> QED
  BY <1>2, <1>4, <1>5, SameIsCalm, PassStep DEF IInv, TypeOK, Unprotected

LEMMA VerifyStep ==
    ASSUME IInv, NEW step \in {"verify", "verifyNew"}, Verify(step) PROVE IInv'
<1> USE DEF Verify, Refreshed, Return, ghost
<1>1. /\ st \in Statuses /\ loc.spec.dest \in Dests /\ loc.mat \in Keys \cup {None}
  BY PassTypes DEF IInv, TypeOK, Locs
<1>2. /\ st' \in Statuses /\ st'.shape = st.shape /\ st'.pub = st.pub /\ st'.mig = st.mig
      /\ job' \in {job, None}
  <2>1. CASE Proven
    <3>1. st' = [st EXCEPT !.imp = [dest |-> loc.spec.dest, key |-> loc.mat]] /\ job' = None
      BY <2>1
    <3> QED
      BY <1>1, <3>1, StatusTypes
  <2>2. CASE ~Proven
    BY <1>1, <2>2
  <2> QED
    BY <2>1, <2>2
<1>3. \/ pc' = "idle" /\ loc' = NoLoc
      \/ pc' = "import2" /\ loc' \in Locs /\ loc'.spec = loc.spec /\ loc'.conf = loc.conf
  BY LocTypes DEF IInv, TypeOK
<1>4. TypeOK'
  BY <1>2, <1>3, LocTypes DEF IInv, TypeOK, Steps, NoLoc
<1>5. Quiet /\ Moves
  BY <1>2, <1>3 DEF Quiet, Moves
<1> QED
  BY <1>2, <1>4, <1>5, SameIsCalm, PassStep DEF IInv, TypeOK, Unprotected

LEMMA RecordDigestStep == ASSUME IInv, RecordDigest PROVE IInv'
<1> USE DEF RecordDigest, Goto, Return, ghost
<1>1. st \in Statuses /\ loc.spec.dest \in Dests
  BY PassTypes DEF IInv, TypeOK
<1>2. st' \in Statuses /\ st'.shape = st.shape /\ st'.pub = st.pub /\ st'.mig = st.mig
  <2>1. st' = st \/ st' = [st EXCEPT !.sdig = loc.spec.dest]
    OBVIOUS
  <2> DEFINE t == [st EXCEPT !.sdig = loc.spec.dest]
  <2>2. t \in Statuses /\ t.shape = st.shape /\ t.pub = st.pub /\ t.mig = st.mig
    BY <1>1, StatusTypes
  <2> HIDE DEF RecordDigest, t
  <2> QED
    BY <1>1, <2>1, <2>2 DEF t
<1>3. (pc' = "idle" /\ loc' = NoLoc) \/ (pc' = "mark" /\ loc' = loc)
  OBVIOUS
<1>4. TypeOK'
  BY <1>2, <1>3, LocTypes DEF IInv, TypeOK, Steps, NoLoc
<1>5. Quiet /\ Moves
  BY <1>2, <1>3 DEF Quiet, Moves
<1> QED
  BY <1>2, <1>4, <1>5, SameIsCalm, PassStep DEF IInv, TypeOK, Unprotected

LEMMA ApplyConfigStep == ASSUME IInv, ApplyConfig PROVE IInv'
<1> USE DEF ApplyConfig, Goto, Return, ghost
<1>1. k \in SignerObjectsType /\ loc.conf \in Confs
  BY PassTypes DEF IInv, TypeOK
<1>2. Calm(k, k') /\ k'.sts = k.sts
  BY <1>1, SameIsCalm DEF Calm, SignerObjectsType
<1>3. (pc' = "idle" /\ loc' = NoLoc) \/ (pc' = "sts" /\ loc' = loc)
  OBVIOUS
<1>4. TypeOK'
  BY <1>2, <1>3, LocTypes DEF IInv, TypeOK, Steps, NoLoc, Calm
<1>5. Quiet /\ Moves
  BY <1>3 DEF Quiet, Moves
<1> QED
  BY <1>2, <1>4, <1>5, PassStep DEF Unprotected

LEMMA MarkStep == ASSUME IInv, Mark PROVE IInv'
<1> USE DEF Mark, Objects, Goto, Return, ghost
<1>1. k \in SignerObjectsType
  BY DEF IInv, TypeOK
<1>2. Calm(k, k') /\ (k'.sts = None <=> k.sts = None)
  BY <1>1, MarkIsCalm
<1>3. (pc' = "idle" /\ loc' = NoLoc) \/ (pc' = "record" /\ loc' = loc)
  OBVIOUS
<1>4. TypeOK'
  BY <1>2, <1>3, LocTypes DEF IInv, TypeOK, Steps, NoLoc, Calm
<1>5. Quiet /\ Moves
  BY <1>3 DEF Quiet, Moves
<1> QED
  BY <1>2, <1>4, <1>5, PassStep DEF Unprotected

LEMMA RecordStep == ASSUME IInv, Record PROVE IInv'
<1> USE DEF Record, Goto, Return, ghost
<1>1. st \in Statuses /\ loc.spec.dest \in Dests /\ loc.conf \in Confs /\ loc.conf.key \in Keys
  BY PassTypes DEF IInv, TypeOK
<1>2. /\ Applied \in Statuses /\ Applied.shape = st.shape /\ Applied.mig = None
      /\ Applied.pub = loc.conf.key
  <2> DEFINE d == IF val THEN loc.spec.dest ELSE st.sdig
  <2>1. d \in Dests \cup {None}
    BY <1>1 DEF Statuses
  <2>2. Applied = [st EXCEPT !.adig = loc.conf, !.pub = loc.conf.key, !.mig = None, !.sdig = d]
    BY DEF Applied
  <2> HIDE DEF d, Record
  <2> QED
    BY <1>1, <2>1, <2>2 DEF Statuses
<1>3. st' \in Statuses /\ st'.shape = st.shape /\ st'.mig \in {None, st.mig}
      /\ st'.pub \in {st.pub, loc.conf.key}
  BY <1>1, <1>2
<1>4. (pc' = "idle" /\ loc' = NoLoc) \/ (pc' = "claims" /\ loc' = loc)
  OBVIOUS
<1>5. TypeOK'
  BY <1>3, <1>4, LocTypes DEF IInv, TypeOK, Steps, NoLoc
<1>6. Quiet
  BY <1>3 DEF Quiet
<1>7. WorksUnderLock'
  BY <1>3, <1>4 DEF IInv, WorksUnderLock
<1>8. loc.conf # None
  BY PassTypes DEF IInv
<1>9. SameKey'
  BY <1>3, <1>4, <1>8, SMT DEF IInv, SameKey, NoLoc
<1> QED
  BY <1>5, <1>6, <1>7, <1>9, SameIsCalm, CalmStep DEF IInv, TypeOK, Unprotected

LEMMA ImportCallStep ==
    ASSUME IInv, NEW at \in {"import", "import2"}, NEW next \in {"import2", "config"},
           Import(at, next)
    PROVE  IInv'
<1> USE DEF Import, Objects, Goto, Return, ghost
<1>1. k \in SignerObjectsType /\ loc \in Locs /\ src \in Keys \cup {None}
  BY DEF IInv, TypeOK
<1>2. k' \in {k, ScaleDown(k).k} /\ job' \in {job, None}
  OBVIOUS
<1>3. Calm(k, k') /\ (k'.sts = None <=> k.sts = None)
  BY <1>1, <1>2, ScaleDownIsCalm, SameIsCalm
<1>4. \/ pc' = "idle" /\ loc' = NoLoc
      \/ pc' = next /\ loc' = loc
      \/ pc' \in {"verify", "job"} /\ loc' = [loc EXCEPT !.mat = src]
  OBVIOUS
<1>5. \/ pc' = "idle" /\ loc' = NoLoc
      \/ /\ pc' \in {next, "verify", "job"} /\ loc' \in Locs
         /\ loc'.spec = loc.spec /\ loc'.conf = loc.conf
  BY <1>1, <1>4, LocTypes, SMT DEF Locs
<1>6. TypeOK'
  <2>1. /\ pc' \in Steps /\ loc' \in Locs
        /\ pc' # "idle" => pc \notin Unplanned /\ loc'.spec = loc.spec /\ loc'.conf = loc.conf
    BY <1>5, LocTypes DEF Steps
  <2> QED
    BY <1>2, <1>3, <2>1 DEF IInv, TypeOK, Calm
<1>7. Quiet /\ Moves
  BY <1>5 DEF Quiet, Moves
<1> QED
  BY <1>3, <1>6, <1>7, PassStep DEF Unprotected

LEMMA PreflightConflictStep == ASSUME IInv, PreflightConflict PROVE IInv'
<1> USE DEF PreflightConflict, Objects, Return, ghost
<1>1. Calm(k, k') /\ (k'.sts = None <=> k.sts = None)
  BY ScaleDownIsCalm DEF IInv, TypeOK
<1>2. TypeOK'
  BY <1>1, LocTypes, SignerAssumption, SMT DEF IInv, TypeOK, Steps, NoLoc, Calm
<1>3. Quiet /\ Moves
  BY DEF Quiet, Moves
<1> QED
  BY <1>1, <1>2, <1>3, PassStep DEF Unprotected

LEMMA PreflightIsCalm ==
    ASSUME NEW a \in SignerObjectsType, NEW required
    PROVE  LET b == PreflightDeployable(a, required).k
           IN  Calm(a, b) /\ (b.sts = None <=> a.sts = None)
<1>1. PreflightDeployable(a, required).k \in {a, QuiesceUnsafeRetainedState(a)}
  BY DEF PreflightDeployable, Result
<1> QED
  BY <1>1, SameIsCalm, QuiesceIsCalm

\* Every key that can be expected is a key.
LEMMA BackendKeyType ==
    ASSUME TypeOK, NEW d \in Dests, NEW n \in Nat PROVE BackendKey(d, n) \in Keys \cup {None}
<1> DEFINE i == IF KindOf[d] = "gcp" /\ val THEN n ELSE 1
<1>1. CASE i \in DOMAIN kms[d] /\ kms[d][i].ready
  <2>1. kms[d] \in Seq(Versions) /\ i \in 1..Len(kms[d])
    BY <1>1, SMT DEF TypeOK
  <2>2. kms[d][i] \in Versions
    BY <2>1, SMT
  <2>3. kms[d][i].key \in Keys
    BY <2>2 DEF Versions
  <2> QED
    BY <1>1, <2>3 DEF BackendKey
<1>2. CASE ~(i \in DOMAIN kms[d] /\ kms[d][i].ready)
  BY <1>2 DEF BackendKey
<1> QED
  BY <1>1, <1>2

LEMMA ExpectedKeyType ==
    ASSUME TypeOK, NEW d \in Dests, NEW n \in Nat, ExpectedKey(d, n).ok
    PROVE  ExpectedKey(d, n).key \in Keys
<1>1. CosmosignerPublicKey(d, n) \in Keys \cup {None}
  BY BackendKeyType DEF CosmosignerPublicKey, TypeOK
<1> DEFINE r == RecoveredSigningPublicKey(k, d, n)
<1>2. CASE st.adig = None /\ st.sdig = None /\ (r.live \/ ~r.ok)
  <2>1. ExpectedKey(d, n) = r
    BY <1>2 DEF ExpectedKey
  <2>2. k.sts # None
    BY <1>2, <2>1 DEF RecoveredSigningPublicKey
  <2>3. r.key = k.sts.conf.key
    BY <2>2 DEF RecoveredSigningPublicKey
  <2>4. k.sts \in StatefulSets
    BY <2>2 DEF TypeOK, SignerObjectsType
  <2>5. k.sts.conf.key \in Keys
    BY <2>4 DEF StatefulSets, Confs
  <2> QED
    BY <2>1, <2>3, <2>5
<1>3. CASE ~(st.adig = None /\ st.sdig = None /\ (r.live \/ ~r.ok))
  <2>1. ExpectedKey(d, n) = [ok |-> CosmosignerPublicKey(d, n) # None, live |-> FALSE,
                             key |-> CosmosignerPublicKey(d, n)]
    BY <1>3 DEF ExpectedKey
  <2> DEFINE c == CosmosignerPublicKey(d, n)
  <2> HIDE DEF c
  <2>2. ExpectedKey(d, n).key = c
    BY <2>1, SMT DEF c
  <2>3. c # None
    <3> SUFFICES ASSUME c = None PROVE FALSE
      OBVIOUS
    <3>1. (c # None) = FALSE
      OBVIOUS
    <3>2. ExpectedKey(d, n) = [ok |-> FALSE, live |-> FALSE, key |-> c]
      BY <2>1, <3>1 DEF c
    <3> QED
      BY <3>2, SMT
  <2> QED
    BY <1>1, <2>2, <2>3 DEF c
<1> QED
  BY <1>2, <1>3

LEMMA RecoverVersionType ==
    ASSUME TypeOK, NEW d \in Dests
    PROVE  /\ RecoverVersion(d) \in Statuses
           /\ RecoverVersion(d).shape = st.shape /\ RecoverVersion(d).pub = st.pub
           /\ RecoverVersion(d).mig = st.mig
           /\ VersionOf(RecoverVersion(d), d) \in Nat
<1>1. st \in Statuses
  BY DEF TypeOK
<1>2. RecoverVersion(d) = st \/ (k.cm # None /\ RecoverVersion(d) = [st EXCEPT !.ver = [dest |-> d, n |-> k.cm.ver]])
  BY DEF RecoverVersion
<1>3. k.cm # None => k.cm.ver \in Nat
  BY DEF TypeOK, SignerObjectsType, Confs
<1>4. /\ RecoverVersion(d) \in Statuses
      /\ RecoverVersion(d).shape = st.shape /\ RecoverVersion(d).pub = st.pub
      /\ RecoverVersion(d).mig = st.mig
  <2>1. CASE RecoverVersion(d) = st
    BY <1>1, <2>1
  <2>2. CASE RecoverVersion(d) # st
    <3>1. k.cm.ver \in Nat /\ RecoverVersion(d) = [st EXCEPT !.ver = [dest |-> d, n |-> k.cm.ver]]
      BY <1>2, <1>3, <2>2
    <3> QED
      BY <1>1, <3>1, StatusTypes, SMT
  <2> QED
    BY <2>1, <2>2
<1>5. \A s \in Statuses : s.ver # None => s.ver.n \in Nat
  BY DEF Statuses
<1>6. VersionOf(RecoverVersion(d), d) \in Nat
  BY <1>4, <1>5 DEF VersionOf
<1> QED
  BY <1>4, <1>6

LEMMA PreflightObjectsStep == ASSUME IInv, PreflightObjects PROVE IInv'
<1> DEFINE d == loc.spec.dest
           s == RecoverVersion(d)
           n == VersionOf(s, d)
           can == PreflightDeployable(k, RetainedStateRequired(Established, st.mig))
           key == ExpectedKey(d, n)
           bad == ~key.ok \/ ~KeyAllowed(key.key) \/ ~Reservable(d, key.key)
           conf == LifecycleConfig(d, key.key, n)
<1> USE DEF ghost
<1>1. /\ pc = "preflight" /\ st' = s
      /\ UNCHANGED <<spec, src, kms, job, root, edits, faults, ghost>>
  BY DEF PreflightObjects
<1>2. \/ k' \in {can.k, ScaleDown(k).k, k} /\ pc' = "idle" /\ loc' = NoLoc /\ ckr' = ckr
      \/ /\ ~bad /\ k' = k
         /\ ckr' = ckr \cup {[claim |-> Claim(d), key |-> key.key]}
         /\ pc' = "locks" /\ loc' = [loc EXCEPT !.conf = conf, !.fresh = @ \/ s # st]
  BY DEF PreflightObjects, Objects, Return
<1>3. /\ TypeOK /\ d \in Dests /\ k \in SignerObjectsType /\ loc \in Locs /\ loc.spec \in Specs
      /\ loc.spec # None
  BY <1>1, PassTypes DEF IInv, TypeOK
<1>4. /\ s \in Statuses /\ s.shape = st.shape /\ s.pub = st.pub /\ s.mig = st.mig
      /\ n \in Nat
  BY <1>3, RecoverVersionType
<1>5. Calm(k, can.k) /\ (can.k.sts = None <=> k.sts = None)
  BY <1>3, PreflightIsCalm
<1>6. ~bad => key.key \in Keys /\ KeyAllowed(key.key)
  BY <1>3, <1>4, ExpectedKeyType
<1>7. ~bad => conf \in Confs /\ conf.key = key.key /\ conf.dest = d
  BY <1>3, <1>4, <1>6 DEF LifecycleConfig, Confs
<1> HIDE DEF d, s, n, can, key, bad, conf
<1>8. Calm(k, k') /\ (k'.sts = None <=> k.sts = None)
  BY <1>2, <1>3, <1>5, ScaleDownIsCalm, SameIsCalm
<1>9. \/ pc' = "idle" /\ loc' = NoLoc
      \/ /\ pc' = "locks" /\ loc' \in Locs /\ loc'.spec = loc.spec
         /\ ~bad /\ loc'.conf = conf
  <2>1. ASSUME NEW c \in Confs, NEW b \in BOOLEAN
        PROVE  LET l == [loc EXCEPT !.conf = c, !.fresh = b]
               IN  l \in Locs /\ l.spec = loc.spec /\ l.conf = c
    <3>1. [loc EXCEPT !.conf = c, !.fresh = b] = [[loc EXCEPT !.conf = c] EXCEPT !.fresh = b]
      BY <1>3, SMT DEF Locs
    <3>2. [loc EXCEPT !.conf = c] \in Locs /\ [loc EXCEPT !.conf = c].spec = loc.spec
          /\ [loc EXCEPT !.conf = c].conf = c
      BY <1>3, SMT DEF Locs
    <3> QED
      BY <3>1, <3>2, LocTypes
  <2>2. (loc.fresh \/ s # st) \in BOOLEAN
    OBVIOUS
  <2> QED
    BY <1>2, <1>7, <2>1, <2>2
<1>10. ckr' \subseteq [claim : Dests \cup {None}, key : Keys]
  BY <1>2, <1>3, <1>6, SMT DEF TypeOK, Claim
<1>11. loc' \in Locs /\ pc' \in Steps
  BY <1>9, LocTypes DEF Steps
<1>12. /\ pc' # "idle" => loc'.spec # None
       /\ pc' \notin Unplanned => loc'.conf # None /\ loc'.conf.dest = loc'.spec.dest
  BY <1>3, <1>7, <1>9, NoneIsNoObject DEF d
<1>13. TypeOK'
  BY <1>1, <1>3, <1>4, <1>8, <1>10, <1>11, <1>12 DEF TypeOK, Calm
<1>14. Quiet
  BY <1>1, <1>4, <1>9 DEF Quiet
<1>15. WorksUnderLock'
  BY <1>9 DEF WorksUnderLock
<1>16. FirstKey # None
  BY NoneIsNoObject, SignerAssumption
<1>17. SameKey'
  BY <1>1, <1>4, <1>6, <1>7, <1>9, <1>16, SMT DEF IInv, SameKey, KeyAllowed, NoLoc
<1> QED
  BY <1>8, <1>13, <1>14, <1>15, <1>17, CalmStep DEF Unprotected

LEMMA LocksStep == ASSUME IInv, Locks PROVE IInv'
<1> USE DEF Locks, Goto, Return, ghost
<1>1. /\ st \in Statuses /\ k \in SignerObjectsType /\ loc.spec \in Specs
      /\ loc.spec.shape \in Shapes
  BY PassTypes DEF IInv, TypeOK
<1>2. CASE st' = st
  <2>1. (pc' = "idle" /\ loc' = NoLoc) \/ (pc' = "migrate" /\ loc' = loc /\ LockHolds)
    BY <1>1, <1>2, NoneIsNoObject DEF Statuses
  <2>2. TypeOK'
    BY <1>2, <2>1, LocTypes DEF IInv, TypeOK, Steps, NoLoc
  <2>3. WorksUnderLock' /\ Quiet /\ SameKey'
    BY <1>2, <2>1, SMT DEF IInv, WorksUnderLock, LockHolds, Quiet, SameKey, NoLoc
  <2> QED
    BY <2>2, <2>3, SameIsCalm, CalmStep DEF IInv, TypeOK, Unprotected
<1>3. CASE st' # st
  <2> DEFINE shape == ReadSignerLock(k, loc.spec.shape)
  <2>1. /\ st.shape = None /\ shape # None /\ st' = [st EXCEPT !.shape = shape]
        /\ pc' = "idle" /\ loc' = NoLoc /\ k' = k
    BY <1>3
  <2>2. \/ k.sts # None /\ shape = k.sts.shape
        \/ k.sts = None /\ ~OrphanedClaim(k) /\ shape = loc.spec.shape
    BY <2>1 DEF ReadSignerLock
  <2>3. shape \in Shapes
    BY <1>1, <2>2 DEF SignerObjectsType, StatefulSets
  <2> HIDE DEF shape
  <2>4. st' \in Statuses /\ st'.shape = shape /\ st'.pub = st.pub /\ st'.mig = st.mig
    BY <1>1, <2>1, <2>3 DEF Statuses
  <2>5. TypeOK'
    BY <2>1, <2>4, LocTypes DEF IInv, TypeOK, Steps, NoLoc
  <2>6. OneMembership'
    BY <2>1, <2>2, <2>4, SMT DEF IInv, OneMembership, OrphanedClaim, Owned
  <2>7. WorksUnderLock' /\ SameKey' /\ StoppedForReset'
    BY <2>1, <2>4 DEF IInv, WorksUnderLock, SameKey, NoLoc, StoppedForReset, SignerPodsGone
  <2>8. NothingGivenUp'
    BY <2>1, <2>3, <2>4, NoneIsNoObject DEF IInv, NothingGivenUp
  <2>9. k' = k /\ pc' = "idle" /\ root' = root /\ wiped' = wiped /\ served' = served
    BY <2>1
  <2> HIDE DEF Locks, Goto, Return, ghost
  <2>10. Guarded' /\ Remembered'
    <3>1. Guarded'
      BY <2>9, SMT DEF IInv, Guarded, Owned, Forsaken, Unprotected, SignerPodsGone
    <3>2. HistoryOf(k)' = HistoryOf(k) /\ \A o \in Ordinals : Ready(k', o) = Ready(k, o)
      BY <2>9 DEF HistoryOf, Ready
    <3>3. \A o \in Ordinals : Ready(k', o) => k'.pods[o].conf.key \in k'.claims[o].history
      BY <2>9, <3>2 DEF IInv, Remembered
    <3> QED
      BY <2>9, <3>1, <3>2, <3>3 DEF IInv, Remembered, Owned
  <2> QED
    BY <2>5, <2>6, <2>7, <2>8, <2>10 DEF IInv
<1> QED
  BY <1>2, <1>3

LEMMA MigrateFirstStep == ASSUME IInv, MigrateFirst PROVE IInv'
<1> USE DEF MigrateFirst, Goto, Return, ghost
<1>1. /\ st \in Statuses /\ k \in SignerObjectsType /\ loc.conf \in Confs /\ loc.conf.key \in Keys
      /\ loc.conf # None
  BY PassTypes DEF IInv, TypeOK
<1>2. CASE st' = st /\ k' = k
  <2>1. (pc' = "idle" /\ loc' = NoLoc) \/ (pc' = "import" /\ loc' = loc)
    BY <1>2
  <2>2. TypeOK'
    BY <1>2, <2>1, LocTypes DEF IInv, TypeOK, Steps, NoLoc
  <2>3. Quiet /\ Moves
    BY <1>2, <2>1 DEF Quiet, Moves
  <2> QED
    BY <1>2, <2>2, <2>3, SameIsCalm, PassStep DEF IInv, TypeOK, Unprotected
<1>3. CASE ~(st' = st /\ k' = k)
  <2>1. /\ IsRolledOut(k) /\ k' = MarkEverRolledOut(k).k
        /\ st' \in {st, [st EXCEPT !.adig = k.sts.conf, !.pub = loc.conf.key]}
        /\ pc' = "idle" /\ loc' = NoLoc
    BY <1>3
  <2>2. k.sts.conf \in Confs
    BY <1>1, <2>1 DEF IsRolledOut, SignerObjectsType, StatefulSets
  <2>3. /\ st' \in Statuses /\ st'.shape = st.shape /\ st'.mig = st.mig
        /\ st'.pub \in {st.pub, loc.conf.key}
    BY <1>1, <2>1, <2>2 DEF Statuses
  <2>4. Calm(k, k') /\ (k'.sts = None <=> k.sts = None)
    BY <1>1, <2>1, MarkIsCalm
  <2>5. TypeOK'
    BY <2>1, <2>3, <2>4, LocTypes DEF IInv, TypeOK, Steps, NoLoc, Calm
  <2>6. Quiet /\ WorksUnderLock' /\ SameKey'
    BY <1>1, <2>1, <2>3 DEF IInv, Quiet, WorksUnderLock, SameKey, NoLoc
  <2> QED
    BY <2>4, <2>5, <2>6, CalmStep DEF Unprotected
<1> QED
  BY <1>2, <1>3

\* A phase of a migration is calm, or lets go of the claims of a signer that is
\* being reset.
LEMMA MigrationStepIs ==
    ASSUME NEW a \in SignerObjectsType, NEW mig \in Migrations, mig.phase # "rollingOut"
    PROVE  LET step == MigrationStep(a, mig)
           IN  /\ step.next \in Phases
               /\ \/ Calm(a, step.k)
                  \/ mig.phase = "resettingState" /\ mig.reset /\ step.k = DeletePVCs(a)
               /\ step.next \in {"resettingState", "recreating"} =>
                     \/ mig.phase \in {"resettingState", "recreating"}
                     \/ step.k.sts = None /\ SignerPodsGone(a)
<1> DEFINE step == MigrationStep(a, mig)
<1>0. mig.phase \in {"quiescing", "deleting", "resettingState", "recreating"} /\ mig.reset \in BOOLEAN
  BY DEF Migrations, Phases
<1>1. CASE mig.phase = "quiescing"
  <2> DEFINE r == RetainStatefulSetPVCs(a)
             s == ScaleDown(r.k)
  <2>1. Calm(a, r.k) /\ r.k \in SignerObjectsType
    BY RetainIsCalm DEF Calm
  <2>2. Calm(a, s.k)
    BY <2>1, ScaleDownIsCalm, CalmTwice
  <2>3. step.k \in {r.k, s.k} /\ step.next \in {"quiescing", "deleting"}
    BY <1>1 DEF MigrationStep
  <2> QED
    BY <2>1, <2>2, <2>3 DEF Phases
<1>2. CASE mig.phase \in {"deleting", "recreating"}
  <2> DEFINE e == DeleteStatefulSet(a)
  <2>1. /\ step.k = e.k
        /\ mig.phase = "deleting" => step.next = IF e.ok THEN "resettingState" ELSE "deleting"
        /\ mig.phase = "recreating" => step.next = IF e.ok THEN "rollingOut" ELSE "recreating"
    BY <1>2 DEF MigrationStep
  <2>2. Calm(a, e.k) /\ (e.ok => e.k.sts = None /\ SignerPodsGone(a))
    BY DeleteIsCalm
  <2> HIDE DEF e, step
  <2> QED
    BY <1>2, <2>1, <2>2 DEF Phases, step
<1>3. CASE mig.phase = "resettingState"
  <2>1. /\ step.k = IF mig.reset THEN DeletePVCs(a) ELSE a
        /\ step.next \in {"resettingState", "recreating"}
    BY <1>3 DEF MigrationStep
  <2> HIDE DEF step
  <2> QED
    BY <1>0, <1>3, <2>1, SameIsCalm DEF Phases, step
<1> QED
  BY <1>0, <1>1, <1>2, <1>3

\* What a call lets go of is none when it leaves the claims alone in a pass.
LEMMA OnPurposeCalm ==
    ASSUME IInv, NEW o, OnPurpose(o), o.claims = k.claims,
           \A i \in Ordinals : Owned(k.claims[i]) /\ ~k.claims[i].guard /\ k.claims[i].going =>
                                   k.claims[i].history \subseteq wiped
    PROVE  wiped' = wiped
<1>1. \A i \in Ordinals : k.claims[i] # None /\ ~k.claims[i].guard /\ k.claims[i].going =>
                              k.claims[i].history \subseteq wiped
  BY DEF IInv, Guarded
<1>2. UNION {k.claims[i].history : i \in {i \in Ordinals : /\ k.claims[i] # None /\ ~k.claims[i].guard
                                                           /\ k.claims[i].going}} \subseteq wiped
  BY <1>1
<1> QED
  BY <1>2 DEF OnPurpose

\* What a call on the claims may change: guards, and marks for deletion.
SameStates(a, b) ==
    \A o \in Ordinals : IF a[o] = None THEN b[o] = None
                        ELSE /\ b[o] # None /\ b[o].owner = a[o].owner /\ b[o].shape = a[o].shape
                             /\ b[o].history = a[o].history

\* What a call lets go of are keys.
LEMMA OnPurposeTypes ==
    ASSUME IInv, NEW o \in SignerObjectsType, OnPurpose(o)
    PROVE  wiped' \subseteq Keys /\ wiped \subseteq wiped'
<1>1. \A i \in Ordinals : o.claims[i] # None => o.claims[i].history \subseteq Keys
  BY DEF SignerObjectsType, PVCs
<1> QED
  BY <1>1 DEF IInv, TypeOK, OnPurpose

LEMMA DiscardKeepsStates ==
    ASSUME NEW a \in SignerObjectsType
    PROVE  LET b == DeletePVCs(a)
           IN  /\ b \in SignerObjectsType /\ SameStates(a.claims, b.claims)
               /\ b.sts = a.sts /\ b.pods = a.pods /\ b.cm = a.cm
               /\ \A o \in Ordinals : Owned(b.claims[o]) => ~b.claims[o].guard /\ b.claims[o].going
<1> DEFINE c == [o \in Ordinals |-> IF Owned(a.claims[o]) THEN Discard(a.claims[o]) ELSE a.claims[o]]
<1>1. \A x \in PVCs : /\ Discard(x) \in PVCs /\ Discard(x).owner = x.owner /\ Discard(x).shape = x.shape
                      /\ Discard(x).history = x.history /\ ~Discard(x).guard /\ Discard(x).going
  BY DEF Discard, PVCs
<1>2. a.claims \in [Ordinals -> PVCs \cup {None}]
  BY DEF SignerObjectsType
<1>3. /\ c \in [Ordinals -> PVCs \cup {None}] /\ SameStates(a.claims, c)
      /\ \A o \in Ordinals : Owned(c[o]) => ~c[o].guard /\ c[o].going
  BY <1>1, <1>2, NoneIsNoObject DEF Owned, SameStates
<1>4. DeletePVCs(a) = [a EXCEPT !.claims = c]
  BY DEF DeletePVCs, OnOwnedClaims
<1> HIDE DEF c
<1>5. /\ [a EXCEPT !.claims = c] \in SignerObjectsType /\ [a EXCEPT !.claims = c].claims = c
      /\ [a EXCEPT !.claims = c].sts = a.sts /\ [a EXCEPT !.claims = c].pods = a.pods
      /\ [a EXCEPT !.claims = c].cm = a.cm
  BY <1>3 DEF SignerObjectsType
<1> QED
  BY <1>3, <1>4, <1>5

LEMMA SameHistory ==
    ASSUME NEW a, NEW b, SameStates(a.claims, b.claims) PROVE HistoryOf(a) = HistoryOf(b)
BY SMT DEF SameStates, HistoryOf

\* A stopped signer lets go of its claims on purpose.
LEMMA LetGoStep ==
    ASSUME IInv, TypeOK', k'.sts = None, SignerPodsGone(k'), SameStates(k.claims, k'.claims),
           OnPurpose(k'), root' = root \/ (root' = "gone" /\ pc' = "idle"),
           \A o \in Ordinals : Owned(k'.claims[o]) /\ ~k'.claims[o].guard
                                   /\ (root' = "alive" \/ pc' # "idle") => k'.claims[o].going,
           val' = val, onChain' = onChain, served' = served, lost' = lost,
           \/ pc' = "idle"
           \/ pc' = "clear" /\ root' = "alive" /\ \A o \in Ordinals : ~Owned(k'.claims[o]),
           val /\ root' = "alive" /\ ~lost => wiped' = wiped,
           st'.shape = st.shape,
           WorksUnderLock', SameKey'
    PROVE  IInv'
<1> USE DEF IInv
<1>1. \A o \in Ordinals : k'.pods[o] = None
  BY DEF SignerPodsGone
<1>2. \A o \in Ordinals :
        /\ k.claims[o] = None <=> k'.claims[o] = None
        /\ Owned(k.claims[o]) <=> Owned(k'.claims[o])
        /\ k.claims[o] # None => /\ k'.claims[o].shape = k.claims[o].shape
                                 /\ k'.claims[o].history = k.claims[o].history
  BY DEF SameStates, Owned
<1>3. wiped \subseteq wiped'
  BY DEF OnPurpose
<1>4. \A o \in Ordinals : k'.claims[o] # None /\ ~k'.claims[o].guard /\ k'.claims[o].going =>
                              k'.claims[o].history \subseteq wiped'
  BY DEF OnPurpose
<1>5. OneMembership'
  BY <1>1, <1>2 DEF OneMembership, Owned
<1>6. Guarded'
  <2>1. \A o \in Ordinals : k'.claims[o] # None /\ ~Owned(k'.claims[o]) => k'.claims[o].history = {}
    BY <1>2 DEF Guarded
  <2>2. \A o \in Ordinals : Owned(k'.claims[o]) /\ ~k'.claims[o].guard =>
            \/ k'.claims[o].going /\ k'.claims[o].history \subseteq wiped'
            \/ ~k'.claims[o].going /\ root' # "alive" /\ pc' = "idle"
    BY <1>4 DEF Owned
  <2>3. root' = "gone" => pc' = "idle"
    BY DEF Guarded
  <2> QED
    BY <1>1, <2>1, <2>2, <2>3 DEF Guarded, Unprotected, SignerPodsGone, Forsaken
<1>7. HistoryOf(k') = HistoryOf(k)
  BY SameHistory
<1>8. Remembered'
  <2>1. root' \notin {"namespace", "gone"} => served' \ wiped' \subseteq HistoryOf(k')
    BY <1>3, <1>7 DEF Remembered
  <2>2. HistoryOf(k)' = HistoryOf(k')
    BY DEF HistoryOf
  <2> QED
    BY <1>1, <2>1, <2>2 DEF Remembered, Ready
<1>9. StoppedForReset'
  BY <1>1 DEF StoppedForReset, SignerPodsGone
<1>10. NothingGivenUp'
  <2>1. (~lost /\ st'.shape = None) \/ pc' = "clear" => \A o \in Ordinals : ~Owned(k'.claims[o])
    BY <1>2 DEF NothingGivenUp
  <2>2. val' /\ root' = "alive" /\ ~lost' => wiped' = {}
    BY DEF NothingGivenUp
  <2> QED
    BY <1>1, <2>1, <2>2 DEF NothingGivenUp
<1> QED
  BY <1>5, <1>6, <1>8, <1>9, <1>10

LEMMA MigrateStep == ASSUME IInv, Migrate PROVE IInv'
<1> USE DEF Migrate, Goto, Return
<1>1. /\ st \in Statuses /\ k \in SignerObjectsType /\ loc.conf \in Confs /\ loc.conf.key \in Keys
      /\ loc.conf # None /\ pc = "migrate"
  BY PassTypes DEF IInv, TypeOK
<1>2. CASE st' = st /\ k' = k /\ wiped' = wiped
  <2>1. (pc' = "idle" /\ loc' = NoLoc) \/ (pc' = "import" /\ loc' = loc)
    BY <1>2
  <2>2. TypeOK'
    BY <1>2, <2>1, LocTypes DEF IInv, TypeOK, Steps, NoLoc
  <2>3. Quiet /\ Moves
    BY <1>1, <1>2, <2>1 DEF Quiet, Moves
  <2> QED
    BY <1>1, <1>2, <2>2, <2>3, SameIsCalm, PassStep DEF Unprotected
<1>3. CASE st.mig # None /\ st.mig.phase # "rollingOut" /\ OnPurpose(MigrationStep(k, st.mig).k)
           /\ st' \in {st, [st EXCEPT !.mig.phase = MigrationStep(k, st.mig).next]} /\ Return
  <2> DEFINE mig == st.mig
             next == MigrationStep(k, mig).next
             o == MigrationStep(k, mig).k
             t == [mig EXCEPT !.phase = next]
  <2>1. mig \in Migrations
    BY <1>1, <1>3 DEF Statuses
  <2>2. /\ next \in Phases
        /\ Calm(k, o) \/ (mig.phase = "resettingState" /\ mig.reset /\ o = DeletePVCs(k))
        /\ next \in {"resettingState", "recreating"} =>
              \/ mig.phase \in {"resettingState", "recreating"}
              \/ o.sts = None /\ SignerPodsGone(k)
    BY <1>1, <1>3, <2>1, MigrationStepIs
  <2>3. st' \in {st, [st EXCEPT !.mig = t]} /\ OnPurpose(o) /\ pc' = "idle" /\ loc' = NoLoc
    BY <1>1, <1>3, <2>1 DEF Statuses, Migrations
  <2> HIDE DEF next, o
  <2>4. t \in Migrations /\ t.phase = next /\ t.reset = mig.reset
    BY <2>1, <2>2 DEF Migrations
  <2> HIDE DEF t
  <2>5. /\ st' \in Statuses /\ st'.shape = st.shape /\ st'.pub = st.pub
        /\ st'.mig \in {st.mig, t}
    BY <1>1, <2>3, <2>4 DEF Statuses
  <2>6. k' = o /\ wiped \subseteq wiped' /\ Unprotected = FALSE
    BY <1>1, <2>3 DEF OnPurpose, IInv, Guarded, Unprotected
  <2>7. SameKey' /\ WorksUnderLock'
    <3>1. st.mig # None
      BY <1>3
    <3>2. val' = val /\ onChain' = onChain
      OBVIOUS
    <3> HIDE DEF Migrate
    <3> QED
      BY <2>3, <2>4, <2>5, <3>1, <3>2 DEF IInv, SameKey, WorksUnderLock, NoLoc
  <2>8. o \in SignerObjectsType
    BY <1>1, <2>2, DiscardKeepsStates DEF Calm
  <2>9. wiped' \subseteq Keys
    BY <2>3, <2>8, OnPurposeTypes
  <2>11. TypeOK'
    BY <2>3, <2>5, <2>6, <2>8, <2>9, LocTypes DEF IInv, TypeOK, Steps, NoLoc
  <2>12. CASE Calm(k, o)
    <3>1. o.claims = k.claims
      BY <2>12 DEF Calm
    <3>2. \A i \in Ordinals : Owned(k.claims[i]) /\ ~k.claims[i].guard /\ k.claims[i].going =>
                                   k.claims[i].history \subseteq wiped
      BY <1>1 DEF IInv, Guarded, Forsaken
    <3>3. wiped' = wiped
      BY <2>3, <3>1, <3>2, OnPurposeCalm
    <3>4. k'.sts # None => k.sts # None
      BY <2>6, <2>12 DEF Calm
    <3>5. StoppedForReset'
      <4>1. st.mig # None
        BY <1>3
      <4>2. st'.mig.phase \in {mig.phase, next}
        BY <2>4, <2>5
      <4>3. k'.pods = k.pods /\ (k'.sts # None => k.sts # None)
        BY <2>6, <2>12 DEF Calm
      <4> HIDE DEF Migrate
      <4> QED
        BY <2>2, <2>6, <4>1, <4>2, <4>3 DEF IInv, StoppedForReset, SignerPodsGone
    <3>6. OneMembership' /\ Guarded' /\ Remembered' /\ NothingGivenUp'
      <4>1. /\ k'.pods = k.pods /\ k'.claims = k.claims
            /\ k'.sts # None => /\ k.sts # None /\ k'.sts.conf = k.sts.conf
                                /\ k'.sts.shape = k.sts.shape /\ k'.sts.guarded = k.sts.guarded
        BY <2>6, <2>12 DEF Calm
      <4> USE DEF IInv
      <4>2. OneMembership'
        BY <2>5, <4>1 DEF OneMembership, Owned
      <4>3. Guarded'
        BY <2>3, <2>6, <3>3, <4>1, SMT DEF Guarded, Owned, Forsaken, Unprotected, SignerPodsGone
      <4>4. Remembered'
        <5>1. HistoryOf(k)' = HistoryOf(k)
          BY <4>1 DEF HistoryOf
        <5> QED
          BY <3>3, <4>1, <5>1 DEF Remembered, Ready, Owned
      <4>5. NothingGivenUp'
        BY <2>5, <3>3, <4>1 DEF NothingGivenUp, Owned
      <4> QED
        BY <4>2, <4>3, <4>4, <4>5
    <3> QED
      BY <2>7, <2>11, <3>5, <3>6 DEF IInv
  <2>13. CASE mig.phase = "resettingState" /\ mig.reset /\ o = DeletePVCs(k)
    <3>1. k.sts = None /\ SignerPodsGone(k)
      BY <1>3, <2>13 DEF IInv, StoppedForReset
    <3>2. /\ SameStates(k.claims, k'.claims) /\ k'.sts = None /\ SignerPodsGone(k')
          /\ \A i \in Ordinals : Owned(k'.claims[i]) => ~k'.claims[i].guard /\ k'.claims[i].going
      BY <1>1, <2>6, <2>13, <3>1, DiscardKeepsStates DEF SignerPodsGone
    <3>3. ~val
      BY <1>3, <2>13 DEF IInv, SameKey
    <3>4. OnPurpose(k')
      BY <2>3, <2>6
    <3> QED
      BY <1>1, <2>3, <2>5, <2>7, <2>11, <3>2, <3>3, <3>4, LetGoStep
  <2> QED
    BY <2>2, <2>12, <2>13
<1>4. CASE st' = [st EXCEPT !.mig = NewMigration(loc.conf)] /\ st.pub # None
           /\ k' = k /\ wiped' = wiped /\ Return
  <2> DEFINE m == NewMigration(loc.conf)
  <2>1. m \in Migrations /\ m.phase = "quiescing" /\ m.reset = (loc.conf.key # st.pub)
    BY <1>1 DEF NewMigration, Migrations, Phases
  <2> HIDE DEF m
  <2>2. st' \in Statuses /\ st'.shape = st.shape /\ st'.pub = st.pub /\ st'.mig = m
    BY <1>1, <1>4, <2>1 DEF Statuses, m
  <2>3. TypeOK'
    BY <1>4, <2>2, LocTypes DEF IInv, TypeOK, Steps, NoLoc
  <2>4. Quiet
    BY <1>1, <1>4, <2>1, <2>2 DEF Quiet
  <2>5. val => st.pub = FirstKey /\ loc.conf.key = FirstKey
    BY <1>1, <1>4 DEF IInv, SameKey
  <2>6. SameKey' /\ WorksUnderLock'
    BY <1>4, <2>1, <2>2, <2>5 DEF IInv, SameKey, WorksUnderLock, NoLoc
  <2> QED
    BY <1>1, <1>4, <2>3, <2>4, <2>6, SameIsCalm, CalmStep DEF Unprotected
<1> QED
  BY <1>2, <1>3, <1>4

\* A StatefulSet is applied under the recorded lock, on claims of its own.
LEMMA ApplyStsStep == ASSUME IInv, ApplySts PROVE IInv'
<1> USE DEF ApplySts, Goto, Return, ghost, Objects
<1> DEFINE required == RetainedStateRequired(Established, st.mig)
           applied == ApplyStatefulSet(k, loc.conf, loc.spec.shape, required)
<1>1. /\ st \in Statuses /\ k \in SignerObjectsType /\ loc.conf \in Confs
      /\ loc.conf # None /\ pc = "sts" /\ loc.spec.shape \in Shapes
      /\ st.shape = loc.spec.shape /\ st.shape # None
  BY PassTypes, NoneIsNoObject DEF IInv, TypeOK, WorksUnderLock
<1>2. st' = st /\ ((pc' = "idle" /\ loc' = NoLoc) \/ (pc' = "digest" /\ loc' = loc))
  BY DEF ApplySts
<1>3. Moves /\ Quiet
  BY <1>1, <1>2 DEF Moves, Quiet
<1>4. ~Unprotected
  BY <1>1 DEF IInv, Guarded
<1>5. CASE Calm(k, k')
  <2>1. TypeOK'
    BY <1>2, <1>5, LocTypes DEF IInv, TypeOK, Steps, NoLoc, Calm
  <2> QED
    BY <1>2, <1>3, <1>4, <1>5, <2>1, PassStep
<1>6. CASE ~Calm(k, k')
  <2>1. ~Calm(k, k') => k' # k /\ k' # QuiesceUnsafeRetainedState(k)
    BY <1>1, SameIsCalm, QuiesceIsCalm
  <2>2. ApplyAllowed(st.mig) /\ k' = applied.k
    BY <1>6, <2>1
  <2>3. /\ StatefulSetPVCsForApply(k, required)
        /\ \/ k.sts = None /\ k' = [k EXCEPT !.sts = NewStatefulSet(loc.conf, loc.spec.shape)]
           \/ k.sts # None /\ k' = Changed(k, [k.sts EXCEPT !.conf = loc.conf, !.up = TRUE, !.keep = FALSE])
    BY <1>6, <2>1, <2>2 DEF ApplyStatefulSet, Result
  <2>4. PICK s \in StatefulSets : s.guarded /\ s.shape = st.shape /\ k' = [k EXCEPT !.sts = s]
    <3>1. CASE k.sts = None
      <4> DEFINE s == NewStatefulSet(loc.conf, loc.spec.shape)
      <4>1. s \in StatefulSets /\ s.guarded /\ s.shape = st.shape
        BY <1>1 DEF NewStatefulSet, StatefulSets
      <4> QED
        BY <2>3, <3>1, <4>1
    <3>2. CASE k.sts # None
      <4> DEFINE u == [k.sts EXCEPT !.conf = loc.conf, !.up = TRUE, !.keep = FALSE]
                 s == [u EXCEPT !.seen = FALSE]
      <4>1. k.sts \in StatefulSets /\ k.sts.guarded /\ k.sts.shape = st.shape
        BY <1>1, <1>4, <3>2 DEF SignerObjectsType, Unprotected, IInv, OneMembership
      <4>2. u \in StatefulSets /\ u.guarded /\ u.shape = st.shape
        BY <1>1, <4>1 DEF StatefulSets
      <4>3. k' = [k EXCEPT !.sts = s]
        BY <2>3, <3>2 DEF Changed
      <4> HIDE DEF u
      <4>4. s \in StatefulSets /\ s.guarded /\ s.shape = st.shape
        BY <4>2 DEF StatefulSets
      <4> QED
        BY <4>3, <4>4
    <3> QED
      BY <3>1, <3>2
  <2>5. /\ k' \in SignerObjectsType /\ k'.sts = s /\ k'.pods = k.pods /\ k'.claims = k.claims
        /\ s # None
    BY <1>1, <2>4, NoneIsNoObject DEF SignerObjectsType
  <2>6. NoForeignDataPVCs(k)
    BY <2>3 DEF StatefulSetPVCsForApply
  <2> HIDE DEF ApplySts
  <2> USE DEF IInv
  <2>7. TypeOK'
    BY <1>2, <1>3, <2>5, LocTypes DEF TypeOK, Steps, NoLoc, ApplySts
  <2>8. OneMembership'
    BY <1>1, <1>2, <2>4, <2>5, <2>6, SMT DEF OneMembership, Owned, NoForeignDataPVCs
  <2>9. Guarded'
    <3>1. wiped' = wiped
      BY DEF ApplySts
    <3>2. root # "gone"
      BY <1>1 DEF Guarded
    <3> QED
      BY <1>1, <1>3, <2>4, <2>5, <3>1, <3>2, SMT DEF Guarded, Owned, Forsaken, Unprotected, Quiet
  <2>10. Remembered'
    <3>1. wiped' = wiped
      BY DEF ApplySts
    <3> QED
      BY <1>3, <2>5, <3>1 DEF Remembered, Ready, HistoryOf, Owned, Quiet
  <2>11. StoppedForReset'
    BY <1>2, <2>2 DEF StoppedForReset, ApplyAllowed
  <2>12. WorksUnderLock' /\ SameKey'
    BY <1>2, <1>3, SMT DEF WorksUnderLock, SameKey, NoLoc, Moves, Quiet
  <2>13. NothingGivenUp'
    <3>1. wiped' = wiped
      BY DEF ApplySts
    <3> QED
      BY <1>1, <1>2, <1>3, <3>1 DEF NothingGivenUp, Quiet
  <2> QED
    BY <2>7, <2>8, <2>9, <2>10, <2>11, <2>12, <2>13
<1> QED
  BY <1>5, <1>6

----------------------------------------------------------------------------
(* Guarding, removal and finalization *)

\* Guarding changes the guards of live claims only, and misses claims that go.
LEMMA GuardKeepsStates ==
    ASSUME NEW a \in SignerObjectsType
    PROVE  LET b == OnOwnedClaims(a, Guard)
           IN  /\ b \in SignerObjectsType /\ SameStates(a.claims, b.claims)
               /\ b.sts = a.sts /\ b.pods = a.pods
               /\ \A o \in Ordinals : a.claims[o] # None =>
                      /\ b.claims[o].going = a.claims[o].going
                      /\ a.claims[o].guard => b.claims[o].guard
                      /\ Owned(a.claims[o]) /\ ~b.claims[o].guard =>
                             a.claims[o].going /\ ~a.claims[o].guard
<1> DEFINE c == [o \in Ordinals |-> IF Owned(a.claims[o]) THEN Guard(a.claims[o]) ELSE a.claims[o]]
<1>1. \A x \in PVCs : /\ Guard(x) \in PVCs /\ Guard(x).owner = x.owner /\ Guard(x).shape = x.shape
                      /\ Guard(x).history = x.history /\ Guard(x).going = x.going
                      /\ x.guard => Guard(x).guard
                      /\ ~Guard(x).guard => x.going /\ ~x.guard
  BY DEF Guard, PVCs
<1>2. a.claims \in [Ordinals -> PVCs \cup {None}]
  BY DEF SignerObjectsType
<1>3. c \in [Ordinals -> PVCs \cup {None}] /\ SameStates(a.claims, c)
  BY <1>1, <1>2, NoneIsNoObject, SMT DEF Owned, SameStates
<1>4. \A o \in Ordinals : a.claims[o] # None =>
                      /\ c[o].going = a.claims[o].going
                      /\ a.claims[o].guard => c[o].guard
                      /\ Owned(a.claims[o]) /\ ~c[o].guard => a.claims[o].going /\ ~a.claims[o].guard
  BY <1>1, <1>2, SMT
<1>5. OnOwnedClaims(a, Guard) = [a EXCEPT !.claims = c]
  BY DEF OnOwnedClaims
<1> HIDE DEF c
<1>6. /\ [a EXCEPT !.claims = c] \in SignerObjectsType /\ [a EXCEPT !.claims = c].claims = c
      /\ [a EXCEPT !.claims = c].sts = a.sts /\ [a EXCEPT !.claims = c].pods = a.pods
  BY <1>3 DEF SignerObjectsType
<1> QED
  BY <1>3, <1>4, <1>5, <1>6, SMT

\* What the guard misses while the owner lives is forsaken.
LEMMA ProtectedIs ==
    ASSUME IInv, root = "alive", ProtectRetainedStatePVCs(k).ok
    PROVE  /\ ~Unprotected /\ ProtectRetainedStatePVCs(k).k = k
           /\ \A o \in Ordinals : Owned(k.claims[o]) /\ ~k.claims[o].guard => Forsaken(k.claims[o])
<1>1. k \in SignerObjectsType
  BY DEF IInv, TypeOK
<1>2. ~Unprotected /\ OnOwnedClaims(k, Guard) = k /\ ProtectRetainedStatePVCs(k).k = k
  BY DEF ProtectRetainedStatePVCs, Result, Unprotected
<1>3. \A o \in Ordinals : Owned(k.claims[o]) /\ ~k.claims[o].guard => k.claims[o].going
  BY <1>1, <1>2, GuardKeepsStates DEF Owned
<1> QED
  BY <1>2, <1>3 DEF IInv, Guarded

LEMMA PrepareStep == ASSUME IInv, Prepare PROVE IInv'
<1> DEFINE g == OnOwnedClaims(k, Guard)
           p == ProtectRetainedStatePVCs(k)
<1>1. k \in SignerObjectsType /\ root = "alive" /\ pc = "idle" /\ spec \in Specs
  BY DEF IInv, TypeOK, Prepare
<1>2. /\ k' = p.k /\ root' = root /\ st' = st /\ val' = val /\ onChain' = onChain
      /\ served' = served /\ wiped' = wiped /\ lost' = lost
      /\ \/ pc' = pc /\ loc' = loc
         \/ p.ok /\ pc' = "preflight" /\ loc' = Read
  BY DEF Prepare, Objects, ghost, run
<1>3. /\ g \in SignerObjectsType /\ SameStates(k.claims, g.claims)
      /\ g.sts = k.sts /\ g.pods = k.pods
      /\ \A o \in Ordinals : k.claims[o] # None =>
             /\ g.claims[o].going = k.claims[o].going
             /\ k.claims[o].guard => g.claims[o].guard
             /\ Owned(k.claims[o]) /\ ~g.claims[o].guard => k.claims[o].going /\ ~k.claims[o].guard
  BY <1>1, GuardKeepsStates
<1>4. Calm(g, k')
  BY <1>2, <1>3, SameIsCalm, DeleteIsCalm DEF ProtectRetainedStatePVCs, Result
<1> HIDE DEF g
<1>5. /\ k' \in SignerObjectsType /\ k'.pods = k.pods /\ SameStates(k.claims, k'.claims)
      /\ k'.sts # None => /\ k.sts # None /\ k'.sts.conf = k.sts.conf
                          /\ k'.sts.shape = k.sts.shape /\ k'.sts.guarded = k.sts.guarded
      /\ \A o \in Ordinals : k.claims[o] # None =>
             /\ k'.claims[o].going = k.claims[o].going
             /\ k.claims[o].guard => k'.claims[o].guard
             /\ Owned(k.claims[o]) /\ ~k'.claims[o].guard => k.claims[o].going /\ ~k.claims[o].guard
  BY <1>3, <1>4 DEF Calm
<1>6. \A o \in Ordinals :
        /\ k.claims[o] = None <=> k'.claims[o] = None
        /\ Owned(k.claims[o]) <=> Owned(k'.claims[o])
        /\ k.claims[o] # None => /\ k'.claims[o].shape = k.claims[o].shape
                                 /\ k'.claims[o].history = k.claims[o].history
  BY <1>5 DEF SameStates, Owned
<1>7. pc' # "idle" => p.ok /\ ~Unprotected
  BY <1>1, <1>2, ProtectedIs
<1> HIDE DEF p
<1>8. TypeOK'
  <2>1. pc' \in Steps /\ loc' \in Locs
    BY <1>1, <1>2, LocTypes DEF IInv, TypeOK, Steps
  <2>2. pc' # "idle" => loc'.spec # None
    <3>1. pc' # "idle" => loc'.spec = spec
      BY <1>1, <1>2, LocTypes
    <3> QED
      BY <1>1, <3>1, NoneIsNoObject
  <2>3. pc' \in {"idle", "preflight"}
    BY <1>1, <1>2
  <2> QED
    BY <1>1, <1>2, <1>5, <2>1, <2>2, <2>3 DEF IInv, TypeOK, Prepare
<1> USE DEF IInv
<1>9. OneMembership'
  BY <1>2, <1>5, <1>6, SMT DEF OneMembership
<1>10. Guarded'
  <2>1. \A o \in Ordinals : Owned(k'.claims[o]) /\ ~k'.claims[o].guard =>
            k'.claims[o].going /\ k'.claims[o].history \subseteq wiped'
    BY <1>1, <1>2, <1>5, <1>6 DEF Guarded, Forsaken, Owned
  <2>2. \A o \in Ordinals : k'.claims[o] # None /\ ~Owned(k'.claims[o]) => k'.claims[o].history = {}
    BY <1>6 DEF Guarded
  <2>3. k'.sts # None /\ ~k'.sts.guarded => Unprotected
    BY <1>5 DEF Unprotected
  <2>4. k'.sts # None /\ ~k'.sts.guarded =>
         \A o \in Ordinals : /\ Owned(k'.claims[o]) /\ (k'.claims[o].guard \/ ~k'.claims[o].going)
                             /\ k'.sts.conf.key \in k'.claims[o].history
                             /\ k'.pods[o] # None => k'.pods[o].conf.key \in k'.claims[o].history
    BY <1>1, <1>5, <1>6, <2>3 DEF Guarded, Owned
  <2>5. \A o \in Ordinals : k'.pods[o] # None => k'.claims[o].guard \/ ~k'.claims[o].going
    BY <1>1, <1>5, <1>6, SMT DEF Guarded, OneMembership, Owned
  <2> QED
    BY <1>1, <1>2, <1>7, <2>1, <2>2, <2>3, <2>4, <2>5 DEF Guarded, Forsaken, Unprotected
<1>11. Remembered'
  <2>1. HistoryOf(k') = HistoryOf(k)
    BY <1>5, SameHistory
  <2>2. HistoryOf(k)' = HistoryOf(k')
    BY DEF HistoryOf
  <2>3. \A o \in Ordinals : Ready(k', o) => k'.pods[o].conf.key \in k'.claims[o].history
    BY <1>5, <1>6, SMT DEF Remembered, Ready, OneMembership, Owned
  <2> QED
    BY <1>1, <1>2, <2>1, <2>2, <2>3 DEF Remembered, Ready
<1>12. StoppedForReset'
  BY <1>2, <1>5 DEF StoppedForReset, SignerPodsGone
<1>13. WorksUnderLock' /\ SameKey'
  <2>1. loc'.conf = loc.conf \/ loc'.conf = None
    BY <1>1, <1>2, LocTypes
  <2> QED
    BY <1>1, <1>2, <2>1 DEF WorksUnderLock, SameKey
<1>14. NothingGivenUp'
  BY <1>2, <1>5, <1>6, SMT DEF NothingGivenUp
<1> QED
  BY <1>8, <1>9, <1>10, <1>11, <1>12, <1>13, <1>14

\* Undeploying changes nothing but the StatefulSet until it and its pods are gone.
LEMMA UndeployIs ==
    ASSUME NEW a \in SignerObjectsType
    PROVE  LET b == Undeploy(a)
           IN  \/ Calm(a, b)
               \/ /\ b \in SignerObjectsType /\ SameStates(a.claims, b.claims)
                  /\ b.sts = None /\ SignerPodsGone(b)
                  /\ \A o \in Ordinals : Owned(b.claims[o]) => ~b.claims[o].guard /\ b.claims[o].going
<1> DEFINE d == IF a.sts = None THEN Result(a, SignerPodsGone(a)) ELSE DeleteStatefulSet(a)
           e == [d.k EXCEPT !.cm = None]
<1>1. Calm(a, d.k) /\ (d.ok => d.k.sts = None /\ SignerPodsGone(a))
  <2>1. CASE a.sts = None
    <3>1. d = Result(a, SignerPodsGone(a))
      BY <2>1
    <3>2. d.k = a /\ d.ok = SignerPodsGone(a)
      BY <3>1, SMT DEF Result
    <3> QED
      BY <2>1, <3>2, SameIsCalm
  <2>2. CASE a.sts # None
    BY <2>2, DeleteIsCalm
  <2> QED
    BY <2>1, <2>2
<1>2. Undeploy(a) = IF d.ok THEN DeletePVCs(e) ELSE d.k
  BY DEF Undeploy
<1> HIDE DEF d
<1>3. CASE ~d.ok
  BY <1>1, <1>2, <1>3
<1>4. CASE d.ok
  <2>1. /\ e \in SignerObjectsType /\ e.claims = a.claims /\ e.pods = a.pods /\ e.sts = None
    BY <1>1, <1>4 DEF Calm, SignerObjectsType
  <2> HIDE DEF e
  <2>2. SignerPodsGone(e)
    BY <1>1, <1>4, <2>1 DEF SignerPodsGone
  <2> QED
    BY <1>2, <1>4, <2>1, <2>2, DiscardKeepsStates, SMT DEF SignerPodsGone
<1> QED
  BY <1>3, <1>4

LEMMA RemoveStep == ASSUME IInv, Remove PROVE IInv'
<1> DEFINE o == Undeploy(k)
<1>1. /\ k \in SignerObjectsType /\ root = "alive" /\ pc = "idle" /\ spec \in Specs
      /\ job \in Jobs \cup {None} /\ ckr \subseteq [claim : Dests \cup {None}, key : Keys]
  BY DEF IInv, TypeOK, Remove
<1>2. /\ k' = o /\ OnPurpose(o) /\ root' = root /\ val' = val /\ onChain' = onChain
      /\ served' = served /\ lost' = lost /\ st' = st
      /\ \/ pc' = pc /\ loc' = loc
         \/ pc' = "clear" /\ loc' = Read /\ IsTornDown(o)
  BY DEF Remove, OnPurpose, run
<1>3. job' \in Jobs \cup {None}
  BY <1>1 DEF Remove
<1>4. /\ ckr' = ckr /\ spec' = spec /\ src' = src /\ kms' = kms /\ edits' = edits /\ faults' = faults
  BY DEF Remove
<1>5. ~Unprotected /\ \A i \in Ordinals : Owned(k.claims[i]) /\ ~k.claims[i].guard => Forsaken(k.claims[i])
  BY <1>1, ProtectedIs DEF Remove
<1>6. FallbackAllowed
  BY DEF Remove
<1>7. \/ Calm(k, o)
      \/ /\ o \in SignerObjectsType /\ SameStates(k.claims, o.claims)
         /\ o.sts = None /\ SignerPodsGone(o)
         /\ \A i \in Ordinals : Owned(o.claims[i]) => ~o.claims[i].guard /\ o.claims[i].going
  BY <1>1, UndeployIs
<1> HIDE DEF o
<1>8. /\ pc' \in {"idle", "clear"} /\ loc' \in Locs /\ loc'.conf \in {None, loc.conf}
      /\ pc' # "idle" => loc'.spec # None
  BY <1>1, <1>2, LocTypes, NoneIsNoObject DEF IInv, TypeOK
<1>9. k' \in SignerObjectsType
  BY <1>1, <1>2, <1>7 DEF Calm
<1>10. wiped' \subseteq Keys /\ wiped \subseteq wiped'
  BY <1>2, <1>9, OnPurposeTypes
<1>11. TypeOK'
  BY <1>1, <1>2, <1>3, <1>4, <1>8, <1>9, <1>10 DEF IInv, TypeOK, Steps
<1>12. WorksUnderLock' /\ SameKey'
  BY <1>1, <1>2, <1>8 DEF IInv, WorksUnderLock, SameKey
<1>13. Calm(k, o) => wiped' = wiped
  <2>1. Calm(k, o) => o.claims = k.claims
    BY DEF Calm
  <2> QED
    BY <1>2, <1>5, <2>1, OnPurposeCalm DEF Forsaken
<1>14. CASE Calm(k, o) /\ pc' = pc
  <2>1. Quiet
    BY <1>1, <1>2, <1>13, <1>14 DEF Quiet
  <2> QED
    BY <1>2, <1>5, <1>11, <1>12, <1>14, <2>1, CalmStep
<1>15. CASE ~(Calm(k, o) /\ pc' = pc)
  <2>1. k'.sts = None /\ SignerPodsGone(k') /\ SameStates(k.claims, k'.claims)
    BY <1>2, <1>7, <1>15 DEF IsTornDown, Calm, SameStates
  <2>2. OnPurpose(k')
    BY <1>2
  <2>3. \A i \in Ordinals : Owned(k'.claims[i]) /\ ~k'.claims[i].guard => k'.claims[i].going
    BY <1>2, <1>5, <1>7 DEF Calm, Forsaken
  <2>4. pc' = "clear" => \A i \in Ordinals : ~Owned(k'.claims[i])
    BY <1>1, <1>2 DEF IsTornDown, OrphanedClaim
  <2>5. val /\ ~lost => wiped' = wiped
    <3>1. CASE ~(val /\ ~lost)
      BY <3>1
    <3>2. CASE val /\ ~lost
      <4>1. \A i \in Ordinals : ~Owned(k.claims[i])
        BY <1>6, <3>2 DEF FallbackAllowed, IInv, NothingGivenUp
      <4>2. \A i \in Ordinals : k'.claims[i] # None => k'.claims[i].history = {}
        BY <2>1, <4>1 DEF SameStates, IInv, Guarded
      <4> QED
        BY <2>2, <4>2 DEF OnPurpose
    <3> QED
      BY <3>1, <3>2
  <2> QED
    BY <1>1, <1>2, <1>11, <1>12, <2>1, <2>2, <2>3, <2>4, <2>5, LetGoStep
<1> QED
  BY <1>14, <1>15

LEMMA ClearStatusStep == ASSUME IInv, ClearStatus PROVE IInv'
<1> USE DEF ClearStatus, Goto, ghost
<1>1. NoStatus \in Statuses /\ NoStatus.shape = None /\ NoStatus.pub = None /\ NoStatus.mig = None
  BY DEF NoStatus, Statuses
<1>2. /\ pc = "clear" /\ pc' = "release" /\ loc' = loc /\ k' = k /\ root' = root
      /\ val' = val /\ onChain' = onChain /\ served' = served /\ wiped' = wiped /\ lost' = lost
      /\ st' = st \/ st' = NoStatus
  OBVIOUS
<1>3. TypeOK'
  BY <1>1 DEF IInv, TypeOK, Steps
<1> HIDE DEF ClearStatus
<1> USE DEF IInv
<1>4. k.sts = None /\ \A o \in Ordinals : k.pods[o] = None /\ ~Owned(k.claims[o])
  BY <1>2 DEF NothingGivenUp
<1>5. OneMembership'
  BY <1>2, <1>4 DEF OneMembership, Owned
<1>6. Guarded'
  BY <1>2 DEF Guarded, Owned, Forsaken, Unprotected, SignerPodsGone
<1>7. Remembered'
  BY <1>2 DEF Remembered, Ready, HistoryOf, Owned
<1>8. WorksUnderLock' /\ StoppedForReset' /\ SameKey' /\ NothingGivenUp'
  BY <1>1, <1>2, <1>4 DEF WorksUnderLock, StoppedForReset, SameKey, NothingGivenUp, SignerPodsGone, Owned
<1> QED
  BY <1>3, <1>5, <1>6, <1>7, <1>8

\* Releasing or discarding claims keeps what they hold.
LEMMA ReleaseKeepsStates ==
    ASSUME NEW a \in SignerObjectsType
    PROVE  \A b \in {OnOwnedClaims(a, Release), OnOwnedClaims(a, ReleaseThenDiscard)} :
               /\ b \in SignerObjectsType /\ SameStates(a.claims, b.claims)
               /\ b.sts = a.sts /\ b.pods = a.pods
<1> DEFINE c == [o \in Ordinals |-> IF Owned(a.claims[o]) THEN Release(a.claims[o]) ELSE a.claims[o]]
           e == [o \in Ordinals |-> IF Owned(a.claims[o]) THEN ReleaseThenDiscard(a.claims[o])
                                    ELSE a.claims[o]]
<1>1. \A x \in PVCs : \A y \in {Release(x), ReleaseThenDiscard(x)} :
          y \in PVCs /\ y.owner = x.owner /\ y.shape = x.shape /\ y.history = x.history
  BY DEF Release, ReleaseThenDiscard, Discard, PVCs
<1>2. a.claims \in [Ordinals -> PVCs \cup {None}]
  BY DEF SignerObjectsType
<1>3. c \in [Ordinals -> PVCs \cup {None}] /\ SameStates(a.claims, c)
  BY <1>1, <1>2, NoneIsNoObject DEF Owned, SameStates
<1>4. e \in [Ordinals -> PVCs \cup {None}] /\ SameStates(a.claims, e)
  BY <1>1, <1>2, NoneIsNoObject DEF Owned, SameStates
<1>5. /\ OnOwnedClaims(a, Release) = [a EXCEPT !.claims = c]
      /\ OnOwnedClaims(a, ReleaseThenDiscard) = [a EXCEPT !.claims = e]
  BY DEF OnOwnedClaims
<1> HIDE DEF c, e
<1>6. \A f \in {c, e} :
        /\ [a EXCEPT !.claims = f] \in SignerObjectsType /\ [a EXCEPT !.claims = f].claims = f
        /\ [a EXCEPT !.claims = f].sts = a.sts /\ [a EXCEPT !.claims = f].pods = a.pods
  BY <1>3, <1>4 DEF SignerObjectsType
<1> QED
  BY <1>3, <1>4, <1>5, <1>6

\* The finalizer stops the signer before it touches a claim.
LEMMA FinalizeOwnerIs ==
    ASSUME NEW a \in SignerObjectsType, NEW policy
    PROVE  LET f == FinalizeOwner(a, policy)
           IN  \/ Calm(a, f.k) /\ ~f.ok
               \/ /\ f.k \in SignerObjectsType /\ SameStates(a.claims, f.k.claims)
                  /\ f.k.sts = None /\ SignerPodsGone(f.k)
<1> DEFINE q == QuiesceOwner(a)
           f == FinalizeOwner(a, policy)
<1>1. Calm(a, q.k) /\ (q.ok => q.k.sts = None)
  <2>1. CASE a.sts = None
    <3>1. q.k = a
      BY <2>1 DEF QuiesceOwner, Result
    <3> QED
      BY <2>1, <3>1, SameIsCalm
  <2>2. CASE a.sts # None
    <3>1. q = DeleteStatefulSet(a)
      BY <2>2 DEF QuiesceOwner
    <3> QED
      BY <3>1, DeleteIsCalm, SMT
  <2> QED
    BY <2>1, <2>2
<1>2. f = IF q.ok THEN FinalizeState(q.k, policy) ELSE q
  BY DEF FinalizeOwner
<1> HIDE DEF q, f
<1>3. CASE ~q.ok
  BY <1>1, <1>2, <1>3 DEF f
<1>4. CASE q.ok /\ ~SignerPodsGone(q.k)
  <2>1. f = Result(q.k, FALSE)
    BY <1>2, <1>4 DEF FinalizeState
  <2>2. f.k = q.k /\ ~f.ok
    BY <2>1 DEF Result
  <2> QED
    BY <1>1, <2>2 DEF f
<1>5. CASE q.ok /\ SignerPodsGone(q.k)
  <2>1. f.k \in {OnOwnedClaims(q.k, Release), OnOwnedClaims(q.k, ReleaseThenDiscard)}
    BY <1>2, <1>5 DEF FinalizeState, Result
  <2>2. q.k \in SignerObjectsType /\ q.k.claims = a.claims /\ q.k.sts = None
    BY <1>1, <1>5 DEF Calm
  <2>3. /\ f.k \in SignerObjectsType /\ SameStates(q.k.claims, f.k.claims)
        /\ f.k.sts = q.k.sts /\ f.k.pods = q.k.pods
    BY <2>1, <2>2, ReleaseKeepsStates
  <2> QED
    BY <1>5, <2>2, <2>3 DEF SignerPodsGone, f
<1> QED
  BY <1>3, <1>4, <1>5

LEMMA FinalizeNamespaceIs ==
    ASSUME IInv
    PROVE  LET f == FinalizeTerminatingNamespace
           IN  \/ /\ ~f.ok /\ ~SignerPodsGone(k) /\ f.k \in SignerObjectsType
                  /\ f.k.sts = k.sts /\ f.k.claims = k.claims
                  /\ \A o \in Ordinals :
                        IF k.pods[o] = None THEN f.k.pods[o] = None
                        ELSE /\ f.k.pods[o] # None /\ f.k.pods[o].conf = k.pods[o].conf
                             /\ f.k.pods[o].st = "going"
               \/ /\ f.k \in SignerObjectsType /\ SameStates(k.claims, f.k.claims)
                  /\ f.k.sts = None /\ SignerPodsGone(f.k)
<1> DEFINE f == FinalizeTerminatingNamespace
           q == QuiesceOwnerForNamespaceTermination(k)
<1>0. k \in SignerObjectsType /\ k.pods \in [Ordinals -> Pods \cup {None}]
  BY DEF IInv, TypeOK, SignerObjectsType
<1>1. f = IF q.ok THEN Result(ReleaseOwnerStateFinalizers(q.k), TRUE) ELSE q
  BY DEF FinalizeTerminatingNamespace
<1>2. CASE ~SignerPodsGone(k)
  <2> DEFINE p == [o \in Ordinals |-> IF k.pods[o] = None THEN None ELSE [k.pods[o] EXCEPT !.st = "going"]]
  <2>1. q = Result([k EXCEPT !.pods = p], FALSE)
    BY <1>2 DEF QuiesceOwnerForNamespaceTermination
  <2>2. f.k = [k EXCEPT !.pods = p] /\ ~f.ok
    BY <1>1, <2>1, SMT DEF Result
  <2>3. \A x \in Pods : LET y == [x EXCEPT !.st = "going"]
                        IN  y \in Pods /\ y.conf = x.conf /\ y.st = "going"
    BY DEF Pods
  <2>4. /\ p \in [Ordinals -> Pods \cup {None}]
        /\ \A o \in Ordinals : IF k.pods[o] = None THEN p[o] = None
                               ELSE p[o] # None /\ p[o].conf = k.pods[o].conf /\ p[o].st = "going"
    <3>1. \A o \in Ordinals : k.pods[o] # None => k.pods[o] \in Pods /\ p[o] = [k.pods[o] EXCEPT !.st = "going"]
      BY <1>0, SMT DEF SignerObjectsType
    <3>2. p = [o \in Ordinals |-> p[o]] /\ \A o \in Ordinals : k.pods[o] = None => p[o] = None
      OBVIOUS
    <3> HIDE DEF p
    <3>3. \A o \in Ordinals : k.pods[o] # None =>
              p[o] \in Pods /\ p[o].conf = k.pods[o].conf /\ p[o].st = "going"
      <4> TAKE o \in Ordinals
      <4> HAVE k.pods[o] # None
      <4> DEFINE x == k.pods[o]
      <4>1. x \in Pods /\ p[o] = [x EXCEPT !.st = "going"]
        BY <3>1
      <4> HIDE DEF x
      <4>2. p[o] \in Pods /\ p[o].conf = x.conf /\ p[o].st = "going"
        BY <2>3, <4>1
      <4> QED
        BY <4>2 DEF x
    <3> QED
      BY <3>2, <3>3, NoneIsNoObject
  <2> HIDE DEF p, f
  <2>5. /\ [k EXCEPT !.pods = p] \in SignerObjectsType /\ [k EXCEPT !.pods = p].pods = p
        /\ [k EXCEPT !.pods = p].sts = k.sts /\ [k EXCEPT !.pods = p].claims = k.claims
    BY <1>0, <2>4 DEF SignerObjectsType
  <2> QED
    BY <1>2, <2>2, <2>4, <2>5, SMT DEF f
<1>3. CASE SignerPodsGone(k)
  <2> DEFINE z == [k EXCEPT !.sts = None]
  <2>1. q = Result(z, TRUE)
    BY <1>3 DEF QuiesceOwnerForNamespaceTermination
  <2>2. f.k = OnOwnedClaims(z, Release)
    BY <1>1, <2>1, SMT DEF Result, ReleaseOwnerStateFinalizers
  <2>3. z \in SignerObjectsType /\ z.sts = None /\ z.claims = k.claims /\ z.pods = k.pods
    BY <1>0 DEF SignerObjectsType
  <2> HIDE DEF z, f
  <2>4. /\ f.k \in SignerObjectsType /\ SameStates(z.claims, f.k.claims)
        /\ f.k.sts = z.sts /\ f.k.pods = z.pods
    BY <2>2, <2>3, ReleaseKeepsStates
  <2> QED
    BY <1>3, <2>3, <2>4 DEF SignerPodsGone, f
<1> QED
  BY <1>2, <1>3

LEMMA FinalizeStep == ASSUME IInv, Finalize PROVE IInv'
<1> DEFINE f == IF root = "namespace" THEN FinalizeTerminatingNamespace ELSE FinalizeOwner(k, root)
<1>1. /\ k \in SignerObjectsType /\ root \in {"Retain", "Delete", "namespace"} /\ pc = "idle"
      /\ ckr \subseteq [claim : Dests \cup {None}, key : Keys]
  BY DEF IInv, TypeOK, Finalize
<1>2. /\ k' = f.k /\ OnPurpose(f.k) /\ root' = (IF f.ok THEN "gone" ELSE root)
      /\ val' = val /\ onChain' = onChain
      /\ served' = served /\ lost' = lost /\ pc' = pc /\ loc' = loc /\ st' = st
  BY DEF Finalize, OnPurpose, run
<1>3. /\ job' = None /\ ckr' \subseteq [claim : Dests \cup {None}, key : Keys]
      /\ spec' = spec /\ src' = src /\ kms' = kms /\ edits' = edits /\ faults' = faults
  BY <1>1 DEF Finalize
<1>4. \/ root # "namespace" /\ Calm(k, f.k) /\ ~f.ok
      \/ /\ root = "namespace" /\ ~f.ok /\ ~SignerPodsGone(k) /\ f.k \in SignerObjectsType
         /\ f.k.sts = k.sts /\ f.k.claims = k.claims
         /\ \A o \in Ordinals : IF k.pods[o] = None THEN f.k.pods[o] = None
                                ELSE /\ f.k.pods[o] # None /\ f.k.pods[o].conf = k.pods[o].conf
                                     /\ f.k.pods[o].st = "going"
      \/ /\ f.k \in SignerObjectsType /\ SameStates(k.claims, f.k.claims)
         /\ f.k.sts = None /\ SignerPodsGone(f.k)
  <2>1. CASE root = "namespace"
    BY <2>1, FinalizeNamespaceIs
  <2>2. CASE root # "namespace"
    BY <1>1, <2>2, FinalizeOwnerIs
  <2> QED
    BY <2>1, <2>2
<1> HIDE DEF f
<1>5. k' \in SignerObjectsType
  BY <1>2, <1>4 DEF Calm
<1>6. wiped' \subseteq Keys /\ wiped \subseteq wiped'
  BY <1>2, <1>5, OnPurposeTypes
<1>7. TypeOK'
  BY <1>1, <1>2, <1>3, <1>5, <1>6 DEF IInv, TypeOK
<1>8. WorksUnderLock' /\ SameKey' /\ root' # "alive"
  BY <1>1, <1>2 DEF IInv, WorksUnderLock, SameKey
<1>9. CASE root # "namespace" /\ Calm(k, f.k) /\ ~f.ok
  <2>1. f.k.claims = k.claims
    BY <1>9 DEF Calm
  <2>2. \A i \in Ordinals : Owned(k.claims[i]) /\ ~k.claims[i].guard /\ k.claims[i].going =>
                                k.claims[i].history \subseteq wiped
    BY <1>9 DEF IInv, Guarded, Forsaken
  <2>3. wiped' = wiped
    BY <1>2, <2>1, <2>2, OnPurposeCalm
  <2>4. Quiet
    BY <1>2, <1>9, <2>3 DEF Quiet
  <2> QED
    BY <1>1, <1>2, <1>7, <1>8, <1>9, <2>4, CalmStep
<1>10. CASE f.k.sts = None /\ SignerPodsGone(f.k) /\ SameStates(k.claims, f.k.claims)
  <2>1. OnPurpose(k') /\ (root' = root \/ (root' = "gone" /\ pc' = "idle"))
    BY <1>1, <1>2
  <2> QED
    BY <1>1, <1>2, <1>7, <1>8, <1>10, <2>1, LetGoStep
<1>11. CASE /\ root = "namespace" /\ ~f.ok /\ ~SignerPodsGone(k) /\ f.k.sts = k.sts /\ f.k.claims = k.claims
            /\ \A o \in Ordinals : IF k.pods[o] = None THEN f.k.pods[o] = None
                                ELSE /\ f.k.pods[o] # None /\ f.k.pods[o].conf = k.pods[o].conf
                                     /\ f.k.pods[o].st = "going"
  <2> USE DEF IInv
  <2>1. /\ k'.sts = k.sts /\ k'.claims = k.claims /\ root' = "namespace"
        /\ \A o \in Ordinals : /\ k'.pods[o] = None <=> k.pods[o] = None
                               /\ k.pods[o] # None => k'.pods[o].conf = k.pods[o].conf
                               /\ k.pods[o] # None => k'.pods[o].st = "going"
    BY <1>2, <1>11
  <2>2. OneMembership'
    BY <1>2, <2>1, SMT DEF OneMembership, Owned
  <2>3. Guarded'
    BY <1>1, <1>2, <1>6, <2>1 DEF Guarded, Owned
  <2>4. Remembered'
    <3>1. HistoryOf(k)' = HistoryOf(k)
      BY <2>1, SMT DEF HistoryOf
    <3>2. \A o \in Ordinals : ~Ready(k, o)'
      BY <2>1 DEF Ready
    <3> QED
      BY <1>2, <1>6, <1>11, <2>1, <3>1, <3>2 DEF Remembered, Owned
  <2>5. StoppedForReset'
    BY <1>2, <1>11 DEF StoppedForReset
  <2>6. NothingGivenUp'
    BY <1>2, <2>1 DEF NothingGivenUp
  <2> QED
    BY <1>7, <1>8, <2>2, <2>3, <2>4, <2>5, <2>6
<1> QED
  BY <1>4, <1>9, <1>10, <1>11

=============================================================================
