---------------------------- MODULE SignerCluster ---------------------------
(***************************************************************************)
(* That the invariant of Signer is kept by the steps of its surroundings:  *)
(* those of Kubernetes, of users and of faults.                            *)
(***************************************************************************)
EXTENDS Signer, TLAPS

\* A leaf is for Zenon unless it says otherwise.
USE Zenon DEF Unplanned

(* Lost writes *)

LEMMA StatusLostStep == ASSUME IInv, StatusLost PROVE IInv'
<1> USE DEF StatusLost, run, Fault
<1>1. NoStatus \in Statuses /\ NoStatus.shape = None /\ NoStatus.pub = None /\ NoStatus.mig = None
  BY DEF NoStatus, Statuses
<1>2. /\ k' = k /\ st' = NoStatus /\ lost' = TRUE /\ pc = "idle" /\ pc' = pc /\ loc' = loc
      /\ val' = val /\ onChain' = onChain /\ root' = root /\ served' = served /\ wiped' = wiped
  OBVIOUS
<1>3. faults' \in 0..MaxFaults
  BY SignerAssumption, SMT DEF IInv, TypeOK
<1>4. TypeOK'
  BY <1>1, <1>3 DEF IInv, TypeOK
<1> HIDE DEF StatusLost
<1> USE DEF IInv
<1>5. /\ OneMembership' /\ WorksUnderLock' /\ StoppedForReset' /\ SameKey' /\ NothingGivenUp'
  <2>1. st'.shape = None /\ st'.pub = None /\ st'.mig = None
    BY <1>1, <1>2
  <2>2. OneMembership'
    BY <1>2, <2>1 DEF OneMembership, Owned
  <2> QED
    BY <1>2, <2>1, <2>2 DEF WorksUnderLock, StoppedForReset, SameKey, NothingGivenUp
<1>6. Guarded'
  BY <1>2 DEF Guarded, Owned, Forsaken, Unprotected, SignerPodsGone
<1>7. Remembered'
  BY <1>2 DEF Remembered, Ready, HistoryOf, Owned
<1> QED
  BY <1>4, <1>5, <1>6, <1>7

LEMMA JobLostStep == ASSUME IInv, JobLost PROVE IInv'
<1> USE DEF JobLost, run, Fault
<1>1. job' \in Jobs
  BY DEF IInv, TypeOK, Jobs
<1>2. /\ k' = k /\ st' = st /\ lost' = TRUE /\ pc' = pc /\ loc' = loc
      /\ val' = val /\ onChain' = onChain /\ root' = root /\ served' = served /\ wiped' = wiped
  OBVIOUS
<1>3. faults' \in 0..MaxFaults
  BY SignerAssumption, SMT DEF IInv, TypeOK
<1>4. TypeOK'
  BY <1>1, <1>3 DEF IInv, TypeOK
<1> HIDE DEF JobLost
<1> USE DEF IInv
<1>5. OneMembership' /\ WorksUnderLock' /\ StoppedForReset' /\ SameKey' /\ NothingGivenUp'
  BY <1>2 DEF OneMembership, WorksUnderLock, StoppedForReset, SameKey, NothingGivenUp, Owned, SignerPodsGone
<1>6. Guarded'
  BY <1>2 DEF Guarded, Owned, Forsaken, Unprotected, SignerPodsGone
<1>7. Remembered'
  BY <1>2 DEF Remembered, Ready, HistoryOf, Owned
<1> QED
  BY <1>4, <1>5, <1>6, <1>7

----------------------------------------------------------------------------
(* Users, faults and what Kubernetes leaves alone *)

\* Claims with the same histories hold the same keys.
SameHistories(a, b) ==
    \A o \in Ordinals : /\ a[o] = None <=> b[o] = None
                        /\ a[o] # None => b[o].history = a[o].history

LEMMA HistoriesAgree ==
    ASSUME NEW a, NEW b, SameHistories(a.claims, b.claims) PROVE HistoryOf(a) = HistoryOf(b)
BY DEF SameHistories, HistoryOf

\* What these steps leave alone.
Around ==
    /\ spec' = spec /\ src' = src /\ kms' = kms /\ st' = st /\ job' = job /\ ckr' = ckr
    /\ pc' = pc /\ (loc' = loc \/ Outdated) /\ edits' = edits /\ faults' \in 0..MaxFaults
    /\ val' = val /\ onChain' = onChain /\ wiped' = wiped /\ lost' = lost

LEMMA AroundStep ==
    ASSUME IInv, Around, k' \in SignerObjectsType, served' \subseteq Keys,
           root' \in {"alive", "Retain", "Delete", "namespace", "gone"}
    PROVE  TypeOK' /\ WorksUnderLock' /\ SameKey'
<1>0. loc' \in Locs /\ loc'.spec = loc.spec /\ loc'.conf = loc.conf
  <2>1. loc \in Locs /\ (loc' = loc \/ loc' = [loc EXCEPT !.fresh = FALSE])
    BY DEF IInv, TypeOK, Around, Outdated
  <2> QED
    BY <2>1 DEF Locs
<1>1. TypeOK'
  BY <1>0 DEF IInv, TypeOK, Around
<1>2. WorksUnderLock' /\ SameKey'
  BY <1>0 DEF IInv, Around, WorksUnderLock, SameKey
<1> QED
  BY <1>1, <1>2

LEMMA FaultTypes == ASSUME IInv, Fault PROVE faults' \in 0..MaxFaults
BY SignerAssumption, SMT DEF IInv, TypeOK, Fault

\* One pod and one claim changed.
At(a, o, p, c) == [a EXCEPT !.pods[o] = p, !.claims[o] = c]

LEMMA AtOrdinal ==
    ASSUME NEW a \in SignerObjectsType, NEW o \in Ordinals,
           NEW p \in Pods \cup {None}, NEW c \in PVCs \cup {None}
    PROVE  LET b == At(a, o, p, c)
           IN  /\ b \in SignerObjectsType /\ b.sts = a.sts
               /\ \A i \in Ordinals : /\ b.pods[i] = IF i = o THEN p ELSE a.pods[i]
                                      /\ b.claims[i] = IF i = o THEN c ELSE a.claims[i]
<1> DEFINE ps == [a.pods EXCEPT ![o] = p]
           cs == [a.claims EXCEPT ![o] = c]
           b == [a EXCEPT !.pods = ps, !.claims = cs]
<1>1. /\ ps \in [Ordinals -> Pods \cup {None}] /\ cs \in [Ordinals -> PVCs \cup {None}]
      /\ \A i \in Ordinals : /\ ps[i] = IF i = o THEN p ELSE a.pods[i]
                             /\ cs[i] = IF i = o THEN c ELSE a.claims[i]
  BY DEF SignerObjectsType
<1>2. At(a, o, p, c) = b
  BY DEF SignerObjectsType, At
<1> HIDE DEF ps, cs
<1>3. b \in SignerObjectsType /\ b.sts = a.sts /\ b.pods = ps /\ b.claims = cs
  BY <1>1 DEF SignerObjectsType
<1> QED
  BY <1>1, <1>2, <1>3

LEMMA AtPod ==
    ASSUME NEW a \in SignerObjectsType, NEW o \in Ordinals, NEW p \in Pods \cup {None}
    PROVE  LET b == [a EXCEPT !.pods[o] = p]
           IN  /\ b \in SignerObjectsType /\ b.sts = a.sts /\ b.claims = a.claims
               /\ \A i \in Ordinals : b.pods[i] = IF i = o THEN p ELSE a.pods[i]
<1> DEFINE ps == [a.pods EXCEPT ![o] = p]
           b == [a EXCEPT !.pods = ps]
<1>1. /\ ps \in [Ordinals -> Pods \cup {None}]
      /\ \A i \in Ordinals : ps[i] = IF i = o THEN p ELSE a.pods[i]
  BY DEF SignerObjectsType
<1>2. [a EXCEPT !.pods[o] = p] = b
  BY DEF SignerObjectsType
<1> HIDE DEF ps
<1>3. b \in SignerObjectsType /\ b.sts = a.sts /\ b.pods = ps /\ b.claims = a.claims
  BY <1>1 DEF SignerObjectsType
<1> QED
  BY <1>1, <1>2, <1>3

LEMMA AtClaim ==
    ASSUME NEW a \in SignerObjectsType, NEW o \in Ordinals, NEW c \in PVCs \cup {None}
    PROVE  LET b == [a EXCEPT !.claims[o] = c]
           IN  /\ b \in SignerObjectsType /\ b.sts = a.sts /\ b.pods = a.pods
               /\ \A i \in Ordinals : b.claims[i] = IF i = o THEN c ELSE a.claims[i]
<1> DEFINE cs == [a.claims EXCEPT ![o] = c]
           b == [a EXCEPT !.claims = cs]
<1>1. /\ cs \in [Ordinals -> PVCs \cup {None}]
      /\ \A i \in Ordinals : cs[i] = IF i = o THEN c ELSE a.claims[i]
  BY DEF SignerObjectsType
<1>2. [a EXCEPT !.claims[o] = c] = b
  BY DEF SignerObjectsType
<1> HIDE DEF cs
<1>3. b \in SignerObjectsType /\ b.sts = a.sts /\ b.claims = cs /\ b.pods = a.pods
  BY <1>1 DEF SignerObjectsType
<1> QED
  BY <1>1, <1>2, <1>3

\* Keys that ready pods serve are in the histories, so serving them adds nothing
\* that is not remembered.
LEMMA ServedIsRemembered ==
    ASSUME \A i \in Ordinals : Ready(k', i) => /\ k'.claims[i] # None
                                               /\ k'.pods[i].conf.key \in k'.claims[i].history,
           served' \subseteq served \cup {k'.pods[i].conf.key : i \in {i \in Ordinals : Ready(k', i)}},
           root' = root, wiped' = wiped,
           root \notin {"namespace", "gone"} => served \ wiped \subseteq HistoryOf(k'),
           root = "namespace" =>
             /\ \A o \in Ordinals : k'.pods[o] # None /\ k'.pods[o].conf.key \in served \ wiped =>
                    k'.pods[o].conf.key \in HistoryOf(k')
             /\ (\E o \in Ordinals : /\ Owned(k'.claims[o]) /\ ~k'.claims[o].guard
                                     /\ ~(k'.claims[o].history \subseteq wiped)) =>
                    \A o \in Ordinals : k'.pods[o] # None => k'.pods[o].conf.key \in k'.claims[o].history
             /\ \A o \in Ordinals : k'.pods[o] # None /\ ~k'.claims[o].guard =>
                    k'.pods[o].conf.key \in k'.claims[o].history
    PROVE  Remembered'
<1>1. HistoryOf(k)' = HistoryOf(k')
  BY DEF HistoryOf
<1>2. {k'.pods[i].conf.key : i \in {i \in Ordinals : Ready(k', i)}} \subseteq HistoryOf(k')
  BY SMT DEF HistoryOf
<1>3. \A o \in Ordinals : Ready(k, o)' = Ready(k', o)
  BY DEF Ready
<1>4. root' \notin {"namespace", "gone"} => served' \ wiped' \subseteq HistoryOf(k')
  BY <1>2
<1>5. root' = "namespace" =>
        \A o \in Ordinals : k'.pods[o] # None /\ k'.pods[o].conf.key \in served' \ wiped' =>
                    k'.pods[o].conf.key \in HistoryOf(k')
  BY <1>2
<1> HIDE DEF HistoryOf
<1> QED
  BY <1>1, <1>3, <1>4, <1>5 DEF Remembered, Owned

\* Pods that only stop or go keep the invariant.
LEMMA PodsStopStep ==
    ASSUME IInv, Around, root' = root, k' \in SignerObjectsType, k'.sts = k.sts, k'.claims = k.claims,
           served' \subseteq served \cup {k'.pods[i].conf.key : i \in {i \in Ordinals : Ready(k', i)}},
           \A i \in Ordinals :
              \/ k'.pods[i] = k.pods[i]
              \/ k'.pods[i] = None
              \/ k.pods[i] # None /\ k'.pods[i].conf = k.pods[i].conf /\ k'.pods[i].st # "ready"
    PROVE  IInv'
<1> USE DEF IInv
<1>1. \A i \in Ordinals :
        /\ k'.pods[i] # None => k.pods[i] # None /\ k'.pods[i].conf = k.pods[i].conf
        /\ Ready(k', i) => Ready(k, i) /\ k'.pods[i] = k.pods[i]
  BY DEF Ready
<1>2. HistoryOf(k') = HistoryOf(k)
  BY SMT DEF HistoryOf
<1>3. served' \subseteq Keys
  <2>1. \A i \in Ordinals : k'.pods[i] # None => k'.pods[i].conf.key \in Keys
    BY DEF SignerObjectsType, Pods, Confs
  <2> QED
    BY <2>1, SMT DEF TypeOK, Ready
<1>4. TypeOK' /\ WorksUnderLock' /\ SameKey'
  BY <1>3, AroundStep DEF TypeOK
<1>5. OneMembership'
  BY <1>1 DEF Around, OneMembership, Owned
<1>6. Guarded'
  BY <1>1, SMT DEF Around, Guarded, Owned, Forsaken, Unprotected, SignerPodsGone
<1>7. Remembered'
  <2>1. \A i \in Ordinals : Ready(k', i) => k'.claims[i] # None /\ k'.pods[i].conf.key \in k'.claims[i].history
    BY <1>1 DEF Remembered, OneMembership, Owned, Ready
  <2>2. root \notin {"namespace", "gone"} => served \ wiped \subseteq HistoryOf(k')
    BY <1>2 DEF Remembered
  <2>3. root = "namespace" =>
             /\ \A o \in Ordinals : k'.pods[o] # None /\ k'.pods[o].conf.key \in served \ wiped =>
                    k'.pods[o].conf.key \in HistoryOf(k')
             /\ (\E o \in Ordinals : /\ Owned(k'.claims[o]) /\ ~k'.claims[o].guard
                                     /\ ~(k'.claims[o].history \subseteq wiped)) =>
                    \A o \in Ordinals : k'.pods[o] # None => k'.pods[o].conf.key \in k'.claims[o].history
             /\ \A o \in Ordinals : k'.pods[o] # None /\ ~k'.claims[o].guard =>
                    k'.pods[o].conf.key \in k'.claims[o].history
    BY <1>1, <1>2 DEF Remembered
  <2> QED
    BY <2>1, <2>2, <2>3, ServedIsRemembered DEF Around
<1>8. StoppedForReset'
  BY <1>1 DEF Around, StoppedForReset, SignerPodsGone
<1>9. NothingGivenUp'
  BY <1>1 DEF Around, NothingGivenUp, Owned
<1> QED
  BY <1>4, <1>5, <1>6, <1>7, <1>8, <1>9

LEMMA EvictStep == ASSUME IInv, Evict PROVE IInv'
<1>1. PICK o \in Ordinals : Ready(k, o) /\ k' = [k EXCEPT !.pods[o].st = "going"]
  BY DEF Evict
<1> DEFINE p == [k.pods[o] EXCEPT !.st = "going"]
<1>2. k \in SignerObjectsType /\ k.pods[o] \in Pods
  BY <1>1 DEF IInv, TypeOK, SignerObjectsType, Ready
<1>3. p \in Pods /\ p.conf = k.pods[o].conf /\ p.st = "going"
  BY <1>2 DEF Pods
<1>4. k' = [k EXCEPT !.pods[o] = p]
  BY <1>1
<1> HIDE DEF p
<1>5. Around /\ root' = root /\ served' = served
  BY FaultTypes DEF Evict, Around, run, ghost
<1>6. /\ k' \in SignerObjectsType /\ k'.sts = k.sts /\ k'.claims = k.claims
      /\ \A i \in Ordinals : k'.pods[i] = IF i = o THEN p ELSE k.pods[i]
  BY <1>2, <1>3, <1>4, AtPod, SMT
<1>7. k.pods[o] # None
  BY <1>1 DEF Ready
<1> QED
  BY <1>3, <1>5, <1>6, <1>7, PodsStopStep

LEMMA DeleteClaimStep == ASSUME IInv, DeleteClaim PROVE IInv'
<1>1. PICK o \in Ordinals : /\ k.claims[o] # None /\ k.claims[o].guard /\ ~k.claims[o].going
                            /\ k' = [k EXCEPT !.claims[o].going = TRUE]
  BY DEF DeleteClaim
<1> DEFINE c == [k.claims[o] EXCEPT !.going = TRUE]
<1>2. k \in SignerObjectsType /\ k.claims[o] \in PVCs
  BY <1>1 DEF IInv, TypeOK, SignerObjectsType
<1>3. /\ c \in PVCs /\ c.guard = k.claims[o].guard /\ c.owner = k.claims[o].owner /\ c.shape = k.claims[o].shape
      /\ c.history = k.claims[o].history
  BY <1>1, <1>2 DEF PVCs
<1>4. k' = [k EXCEPT !.claims[o] = c] /\ c # None
  BY <1>1, <1>3, NoneIsNoObject
<1> HIDE DEF c
<1>5. Around /\ root' = root /\ served' = served
  BY FaultTypes DEF DeleteClaim, Around, run, ghost
<1>6. /\ k' \in SignerObjectsType /\ k'.sts = k.sts /\ k'.pods = k.pods
      /\ \A i \in Ordinals : k'.claims[i] = IF i = o THEN c ELSE k.claims[i]
  BY <1>2, <1>3, <1>4, AtClaim, SMT
<1>7. \A i \in Ordinals :
        /\ k'.claims[i] = None <=> k.claims[i] = None
        /\ Owned(k'.claims[i]) <=> Owned(k.claims[i])
        /\ k.claims[i] # None => /\ k'.claims[i].shape = k.claims[i].shape
                                 /\ k'.claims[i].history = k.claims[i].history
                                 /\ k'.claims[i].guard = k.claims[i].guard
                                 /\ ~k.claims[i].guard => k'.claims[i].going = k.claims[i].going
  BY <1>1, <1>3, <1>4, <1>6 DEF Owned
<1> USE DEF IInv
<1>8. TypeOK' /\ WorksUnderLock' /\ SameKey'
  BY <1>5, <1>6, AroundStep DEF TypeOK
<1>9. OneMembership'
  BY <1>5, <1>6, <1>7, SMT DEF Around, OneMembership
<1>10. Guarded'
  <2>1. \A i \in Ordinals : Owned(k'.claims[i]) => k.claims[i] # None /\ k'.claims[i] # None
    BY <1>7 DEF Owned
  <2>2. \A i \in Ordinals : k'.pods[i] # None => Owned(k.claims[i])
    BY <1>6 DEF OneMembership
  <2>3. \A i \in Ordinals : k.claims[i] # None /\ ~k'.claims[i].guard =>
                                ~k.claims[i].guard /\ k'.claims[i].going = k.claims[i].going
    BY <1>7
  <2> HIDE DEF IInv
  <2> QED
    BY <1>5, <1>6, <1>7, <2>1, <2>2, <2>3, SMT DEF IInv, Around, Guarded, Forsaken, Unprotected, SignerPodsGone
<1>11. Remembered'
  <2>1. SameHistories(k.claims, k'.claims)
    BY <1>7 DEF SameHistories
  <2>2. HistoryOf(k') = HistoryOf(k)
    BY <2>1, HistoriesAgree
  <2>3. HistoryOf(k)' = HistoryOf(k')
    BY DEF HistoryOf
  <2>4. \A i \in Ordinals : k'.pods[i] # None => k.claims[i] # None
    BY <1>6 DEF OneMembership, Owned
  <2>5. \A i \in Ordinals : Owned(k'.claims[i]) => k.claims[i] # None
    BY <1>7 DEF Owned
  <2> QED
    BY <1>5, <1>6, <1>7, <2>2, <2>3, <2>4, <2>5, SMT DEF Around, Remembered, Ready
<1>12. StoppedForReset'
  BY <1>5, <1>6 DEF Around, StoppedForReset, SignerPodsGone
<1>13. NothingGivenUp'
  BY <1>5, <1>6, <1>7 DEF Around, NothingGivenUp
<1> QED
  BY <1>8, <1>9, <1>10, <1>11, <1>12, <1>13

\* With the guard on its claims, a StatefulSet that goes takes nothing with it.
LEMMA DeleteStsStep == ASSUME IInv, DeleteSts PROVE IInv'
<1> DEFINE c == [o \in Ordinals |-> IF k.claims[o] = None \/ k.sts.keep THEN k.claims[o]
                                    ELSE [k.claims[o] EXCEPT !.going = TRUE]]
<1>1. k \in SignerObjectsType /\ k.sts # None /\ k.sts.guarded /\ k' = WithoutSts(k)
  BY DEF IInv, TypeOK, DeleteSts
<1>2. k' = [k EXCEPT !.sts = None, !.claims = c]
  BY <1>1 DEF WithoutSts
<1>3. \A x \in PVCs : LET y == [x EXCEPT !.going = TRUE]
                      IN  /\ y \in PVCs /\ y.guard = x.guard /\ y.going /\ y.owner = x.owner
                          /\ y.shape = x.shape /\ y.history = x.history
  BY DEF PVCs
<1>4. k.claims \in [Ordinals -> PVCs \cup {None}]
  BY <1>1 DEF SignerObjectsType
<1>5. /\ c \in [Ordinals -> PVCs \cup {None}]
      /\ \A i \in Ordinals :
           IF k.claims[i] = None THEN c[i] = None
           ELSE /\ c[i] # None /\ c[i].owner = k.claims[i].owner /\ c[i].shape = k.claims[i].shape
                /\ c[i].history = k.claims[i].history /\ c[i].guard = k.claims[i].guard
                /\ k.claims[i].going => c[i].going
  BY <1>3, <1>4, NoneIsNoObject, SMT
<1> HIDE DEF c
<1>6. k' \in SignerObjectsType /\ k'.sts = None /\ k'.pods = k.pods /\ k'.claims = c
  BY <1>1, <1>2, <1>5 DEF SignerObjectsType
<1>7. Around /\ root' = root /\ served' = served
  BY FaultTypes DEF DeleteSts, Around, run, ghost
<1>8. \A i \in Ordinals :
        /\ k'.claims[i] = None <=> k.claims[i] = None
        /\ Owned(k'.claims[i]) <=> Owned(k.claims[i])
        /\ k.claims[i] # None => /\ k'.claims[i].shape = k.claims[i].shape
                                 /\ k'.claims[i].history = k.claims[i].history
                                 /\ k'.claims[i].guard = k.claims[i].guard
                                 /\ k.claims[i].going => k'.claims[i].going
  BY <1>5, <1>6 DEF Owned
<1> USE DEF IInv
<1>9. TypeOK' /\ WorksUnderLock' /\ SameKey'
  BY <1>6, <1>7, AroundStep DEF TypeOK
<1>10. OneMembership'
  BY <1>6, <1>7, <1>8, SMT DEF Around, OneMembership
<1>11. Guarded'
  <2>1. \A i \in Ordinals : Owned(k'.claims[i]) => k.claims[i] # None
    BY <1>8 DEF Owned
  <2>2. \A i \in Ordinals : k'.pods[i] # None => Owned(k.claims[i]) /\ k.claims[i] # None
    BY <1>6 DEF OneMembership, Owned
  <2>3. root # "namespace" => \A i \in Ordinals : Owned(k.claims[i]) /\ ~k.claims[i].guard =>
                                  k.claims[i].going /\ k.claims[i].history \subseteq wiped
    BY <1>1 DEF Guarded, Forsaken
  <2>4. root # "namespace" => \A i \in Ordinals : Owned(k'.claims[i]) /\ ~k'.claims[i].guard =>
                                  k'.claims[i].going /\ k'.claims[i].history \subseteq wiped
    BY <1>8, <2>1, <2>3
  <2>5. root # "namespace" => \A i \in Ordinals : k'.pods[i] # None => k'.claims[i].guard
    BY <1>6, <1>8, <2>2, <2>3 DEF Guarded
  <2>6. pc # "idle" => \A i \in Ordinals : Owned(k'.claims[i]) /\ ~k'.claims[i].guard =>
                                  k'.claims[i].going /\ k'.claims[i].history \subseteq wiped
    BY <1>8, <2>1 DEF Guarded, Forsaken
  <2>7. root # "gone"
    BY <1>1 DEF Guarded
  <2>8. \A i \in Ordinals : k'.claims[i] # None /\ ~Owned(k'.claims[i]) => k'.claims[i].history = {}
    BY <1>8 DEF Guarded
  <2> QED
    BY <1>6, <1>7, <2>4, <2>5, <2>6, <2>7, <2>8 DEF Around, Guarded, Forsaken, Unprotected
<1>12. Remembered'
  <2>1. SameHistories(k.claims, k'.claims)
    BY <1>8 DEF SameHistories
  <2>2. HistoryOf(k') = HistoryOf(k)
    BY <2>1, HistoriesAgree
  <2>3. HistoryOf(k)' = HistoryOf(k')
    BY DEF HistoryOf
  <2>4. \A i \in Ordinals : k'.pods[i] # None => k.claims[i] # None
    BY <1>6 DEF OneMembership, Owned
  <2>5. \A i \in Ordinals : Owned(k'.claims[i]) => k.claims[i] # None
    BY <1>8 DEF Owned
  <2> QED
    BY <1>6, <1>7, <1>8, <2>2, <2>3, <2>4, <2>5, SMT DEF Around, Remembered, Ready
<1>13. StoppedForReset'
  BY <1>6, <1>7 DEF Around, StoppedForReset, SignerPodsGone
<1>14. NothingGivenUp'
  BY <1>6, <1>7, <1>8, SMT DEF Around, NothingGivenUp
<1> QED
  BY <1>9, <1>10, <1>11, <1>12, <1>13, <1>14

LEMMA FreeNameStep == ASSUME IInv, FreeName PROVE IInv'
<1> DEFINE c == [o \in Ordinals |-> IF Owned(k.claims[o]) THEN k.claims[o] ELSE None]
<1>1. k \in SignerObjectsType /\ k' = [k EXCEPT !.taken = FALSE, !.claims = c]
  BY DEF IInv, TypeOK, FreeName
<1>2. c \in [Ordinals -> PVCs \cup {None}]
  BY <1>1 DEF SignerObjectsType
<1>3. \A i \in Ordinals : /\ Owned(k.claims[i]) => c[i] = k.claims[i]
                          /\ ~Owned(k.claims[i]) => c[i] = None
  OBVIOUS
<1> HIDE DEF c
<1>4. k' \in SignerObjectsType /\ k'.sts = k.sts /\ k'.pods = k.pods /\ k'.claims = c
  BY <1>1, <1>2 DEF SignerObjectsType
<1>5. Around /\ root' = root /\ served' = served
  BY DEF FreeName, Around, run, ghost, IInv, TypeOK
<1>6. \A i \in Ordinals : /\ Owned(k.claims[i]) => k'.claims[i] = k.claims[i]
                          /\ ~Owned(k.claims[i]) => k'.claims[i] = None
                          /\ Owned(k'.claims[i]) <=> Owned(k.claims[i])
  BY <1>3, <1>4 DEF Owned
<1> USE DEF IInv
<1>7. TypeOK' /\ WorksUnderLock' /\ SameKey'
  BY <1>4, <1>5, AroundStep DEF TypeOK
<1>8. OneMembership'
  BY <1>4, <1>5, <1>6 DEF Around, OneMembership
<1>9. Guarded'
  BY <1>4, <1>5, <1>6, SMTT(30) DEF Around, Guarded, Forsaken, Unprotected, SignerPodsGone, OneMembership
<1>10. Remembered'
  <2>1. \A i \in Ordinals : k.claims[i] # None /\ ~Owned(k.claims[i]) => k.claims[i].history = {}
    BY DEF Guarded
  <2>2. HistoryOf(k) \subseteq HistoryOf(k')
    BY <1>6, <2>1 DEF HistoryOf, Owned
  <2>3. HistoryOf(k)' = HistoryOf(k')
    BY DEF HistoryOf
  <2>4. \A i \in Ordinals : k'.pods[i] # None => k'.claims[i] = k.claims[i]
    BY <1>4, <1>6 DEF OneMembership
  <2> QED
    BY <1>4, <1>5, <1>6, <2>2, <2>3, <2>4 DEF Around, Remembered, Ready
<1>11. StoppedForReset'
  BY <1>4, <1>5 DEF Around, StoppedForReset, SignerPodsGone
<1>12. NothingGivenUp'
  BY <1>4, <1>5, <1>6 DEF Around, NothingGivenUp
<1> QED
  BY <1>7, <1>8, <1>9, <1>10, <1>11, <1>12

LEMMA DeleteRootStep == ASSUME IInv, DeleteRoot PROVE IInv'
<1>1. /\ k \in SignerObjectsType /\ root = "alive" /\ root' \in {"Retain", "Delete", "namespace"}
      /\ Around /\ served' = served
  BY FaultTypes, SignerAssumption DEF IInv, TypeOK, DeleteRoot, Outdated, Around, ghost
<1> DEFINE c == [o \in Ordinals |->
                     IF k.claims[o] = None THEN None ELSE [k.claims[o] EXCEPT !.going = TRUE]]
<1>2. \/ root' # "namespace" /\ k' = k
      \/ root' = "namespace" /\ k' = [k EXCEPT !.claims = c]
  BY DEF DeleteRoot
<1>3. \A x \in PVCs : LET y == [x EXCEPT !.going = TRUE]
                      IN  /\ y \in PVCs /\ y.guard = x.guard /\ y.going /\ y.owner = x.owner
                          /\ y.shape = x.shape /\ y.history = x.history
  BY DEF PVCs
<1>4. k.claims \in [Ordinals -> PVCs \cup {None}]
  BY <1>1 DEF SignerObjectsType
<1>5. /\ c \in [Ordinals -> PVCs \cup {None}]
      /\ \A i \in Ordinals :
           IF k.claims[i] = None THEN c[i] = None
           ELSE /\ c[i] # None /\ c[i].owner = k.claims[i].owner /\ c[i].shape = k.claims[i].shape
                /\ c[i].history = k.claims[i].history /\ c[i].guard = k.claims[i].guard
                /\ c[i].going
  <2>1. \A i \in Ordinals : /\ k.claims[i] = None => c[i] = None
                            /\ k.claims[i] # None => /\ k.claims[i] \in PVCs
                                                     /\ c[i] = [k.claims[i] EXCEPT !.going = TRUE]
    BY <1>4
  <2>2. c = [i \in Ordinals |-> c[i]]
    OBVIOUS
  <2> HIDE DEF c
  <2>3. ASSUME NEW i \in Ordinals, k.claims[i] # None
        PROVE  /\ c[i] \in PVCs /\ c[i].owner = k.claims[i].owner /\ c[i].shape = k.claims[i].shape
               /\ c[i].history = k.claims[i].history /\ c[i].guard = k.claims[i].guard
               /\ c[i].going
    <3>1. k.claims[i] \in PVCs /\ c[i] = [k.claims[i] EXCEPT !.going = TRUE]
      BY <2>1, <2>3
    <3> QED
      BY <1>3, <3>1
  <2> QED
    BY <2>1, <2>2, <2>3, NoneIsNoObject
<1> HIDE DEF c
<1> USE DEF IInv
<1>6. CASE root' # "namespace" /\ k' = k
  <2>1. TypeOK' /\ WorksUnderLock' /\ SameKey'
    BY <1>1, <1>6, AroundStep DEF TypeOK
  <2>2. OneMembership' /\ StoppedForReset' /\ NothingGivenUp'
    BY <1>1, <1>6 DEF Around, OneMembership, StoppedForReset, NothingGivenUp, SignerPodsGone, Owned
  <2>3. Guarded'
    BY <1>1, <1>6 DEF Around, Guarded, Owned, Forsaken, Unprotected
  <2>4. Remembered'
    BY <1>1, <1>6 DEF Around, Remembered, Ready, HistoryOf
  <2> QED
    BY <2>1, <2>2, <2>3, <2>4
<1>7. CASE root' = "namespace" /\ k' = [k EXCEPT !.claims = c]
  <2>1. k' \in SignerObjectsType /\ k'.sts = k.sts /\ k'.pods = k.pods /\ k'.claims = c
    BY <1>1, <1>5, <1>7 DEF SignerObjectsType
  <2>2. \A i \in Ordinals :
        /\ k'.claims[i] = None <=> k.claims[i] = None
        /\ Owned(k'.claims[i]) <=> Owned(k.claims[i])
        /\ k.claims[i] # None => /\ k'.claims[i].shape = k.claims[i].shape
                                 /\ k'.claims[i].history = k.claims[i].history
                                 /\ k'.claims[i].guard = k.claims[i].guard
                                 /\ k'.claims[i].going
    BY <1>5, <2>1 DEF Owned
  <2>3. TypeOK' /\ WorksUnderLock' /\ SameKey'
    BY <1>1, <1>7, <2>1, AroundStep DEF TypeOK
  <2>4. OneMembership' /\ StoppedForReset' /\ NothingGivenUp'
    BY <1>1, <1>7, <2>1, <2>2, SMT DEF Around, OneMembership, StoppedForReset, NothingGivenUp, SignerPodsGone
  <2>5. \A i \in Ordinals : Owned(k.claims[i]) => k.claims[i] # None
    BY DEF Owned
  <2>6. Guarded'
    BY <1>1, <1>7, <2>1, <2>2, <2>5 DEF Around, Guarded, Forsaken, Unprotected
  <2>7. Remembered'
    <3>1. SameHistories(k.claims, k'.claims)
      BY <2>2 DEF SameHistories
    <3>2. HistoryOf(k') = HistoryOf(k)
      BY <3>1, HistoriesAgree
    <3>3. HistoryOf(k)' = HistoryOf(k')
      BY DEF HistoryOf
    <3>4. \A i \in Ordinals : k.pods[i] # None => Owned(k.claims[i]) /\ k.claims[i] # None
      BY DEF OneMembership, Owned
    <3>5. \A i \in Ordinals : Owned(k.claims[i]) /\ ~k.claims[i].guard
                              /\ ~(k.claims[i].going /\ k.claims[i].history \subseteq wiped) => Unprotected
      BY <1>1 DEF Guarded, Forsaken, Unprotected
    <3>6. \A i \in Ordinals : k.pods[i] # None /\ ~k.claims[i].guard => Unprotected
      BY <1>1, <3>4, <3>5 DEF Guarded
    <3>7. Unprotected => \A i \in Ordinals : k.pods[i] # None => k.pods[i].conf.key \in k.claims[i].history
      BY <1>1 DEF Guarded
    <3>8. \A i \in Ordinals : Ready(k', i) => k'.pods[i].conf.key \in k'.claims[i].history
      BY <2>1, <2>2, <3>4 DEF Remembered, Ready
    <3>9. \A o \in Ordinals : k'.pods[o] # None /\ k'.pods[o].conf.key \in served \ wiped =>
                                  k'.pods[o].conf.key \in HistoryOf(k')
      BY <1>1, <2>1, <3>2, <3>4 DEF Remembered, SignerObjectsType
    <3>10. (\E o \in Ordinals : /\ Owned(k'.claims[o]) /\ ~k'.claims[o].guard
                                /\ ~(k'.claims[o].history \subseteq wiped)) =>
                \A o \in Ordinals : k'.pods[o] # None => k'.pods[o].conf.key \in k'.claims[o].history
      BY <2>1, <2>2, <2>5, <3>4, <3>5, <3>7
    <3>11. \A o \in Ordinals : k'.pods[o] # None /\ ~k'.claims[o].guard =>
                k'.pods[o].conf.key \in k'.claims[o].history
      BY <2>1, <2>2, <3>4, <3>6, <3>7
    <3> QED
      BY <1>1, <1>7, <3>3, <3>8, <3>9, <3>10, <3>11 DEF Around, Remembered, Ready, Owned
  <2> QED
    BY <2>3, <2>4, <2>6, <2>7
<1> QED
  BY <1>2, <1>6, <1>7

----------------------------------------------------------------------------
(* The steps of Kubernetes *)

\* What every step of Kubernetes does: it adds the keys of ready pods to those served.
Serving ==
    /\ Around /\ root' = root
    /\ served' = served \cup {k'.pods[i].conf.key : i \in {i \in Ordinals : Ready(k', i)}}

LEMMA ServedTypes ==
    ASSUME IInv, Serving, k' \in SignerObjectsType PROVE served' \subseteq Keys
<1>1. \A i \in Ordinals : k'.pods[i] # None => k'.pods[i].conf.key \in Keys
  BY DEF SignerObjectsType, Pods, Confs
<1> QED
  BY <1>1 DEF IInv, TypeOK, Ready, Serving

LEMMA ObserveStep == ASSUME IInv, Serving, k' \in ObserveSts(k) PROVE IInv'
<1> DEFINE s == [k.sts EXCEPT !.seen = TRUE]
<1>1. k \in SignerObjectsType /\ k.sts # None /\ k.sts \in StatefulSets /\ k' = [k EXCEPT !.sts = s]
  BY DEF IInv, TypeOK, SignerObjectsType, ObserveSts
<1>2. s \in StatefulSets /\ s.conf = k.sts.conf /\ s.shape = k.sts.shape /\ s.guarded = k.sts.guarded
  BY <1>1 DEF StatefulSets
<1> HIDE DEF s
<1>3. /\ k' \in SignerObjectsType /\ k'.sts = s /\ k'.pods = k.pods /\ k'.claims = k.claims
      /\ s # None
  BY <1>1, <1>2, NoneIsNoObject DEF SignerObjectsType
<1> USE DEF IInv, Serving
<1>4. TypeOK' /\ WorksUnderLock' /\ SameKey'
  BY <1>3, AroundStep, ServedTypes DEF TypeOK
<1>5. OneMembership' /\ StoppedForReset' /\ NothingGivenUp'
  BY <1>1, <1>2, <1>3 DEF Around, OneMembership, StoppedForReset, NothingGivenUp, Owned
<1>6. Guarded'
  BY <1>1, <1>2, <1>3, SMT DEF Around, Guarded, Owned, Forsaken, Unprotected
<1>7. Remembered'
  <2>1. HistoryOf(k') = HistoryOf(k)
    BY <1>3 DEF HistoryOf
  <2>2. \A i \in Ordinals : Ready(k', i) => k'.claims[i] # None /\ k'.pods[i].conf.key \in k'.claims[i].history
    BY <1>3 DEF Remembered, OneMembership, Owned, Ready
  <2>3. root \notin {"namespace", "gone"} => served \ wiped \subseteq HistoryOf(k')
    BY <2>1 DEF Remembered
  <2>4. root = "namespace" =>
             /\ \A o \in Ordinals : k'.pods[o] # None /\ k'.pods[o].conf.key \in served \ wiped =>
                    k'.pods[o].conf.key \in HistoryOf(k')
             /\ (\E o \in Ordinals : /\ Owned(k'.claims[o]) /\ ~k'.claims[o].guard
                                     /\ ~(k'.claims[o].history \subseteq wiped)) =>
                    \A o \in Ordinals : k'.pods[o] # None => k'.pods[o].conf.key \in k'.claims[o].history
             /\ \A o \in Ordinals : k'.pods[o] # None /\ ~k'.claims[o].guard =>
                    k'.pods[o].conf.key \in k'.claims[o].history
    BY <1>3, <2>1 DEF Remembered
  <2> QED
    BY <2>2, <2>3, <2>4, ServedIsRemembered DEF Around
<1> QED
  BY <1>4, <1>5, <1>6, <1>7

\* A pod starts on a claim of its StatefulSet's shape; a new claim has its guard.
LEMMA StartStep ==
    ASSUME IInv, Serving, k' \in StartPods(k), root # "namespace" PROVE IInv'
<1>0. k \in SignerObjectsType
  BY DEF IInv, TypeOK
<1>1. PICK o \in Ordinals :
        /\ k.sts # None /\ k.sts.up /\ k.sts.seen /\ k.pods[o] = None
        /\ k.claims[o] # None => ~k.claims[o].going
        /\ k' = [k EXCEPT !.pods[o] = [conf |-> k.sts.conf, st |-> "starting"],
                          !.claims[o] = IF k.claims[o] = None
                             THEN [owner |-> "mine", guard |-> k.sts.guarded, going |-> FALSE,
                                   history |-> {}, shape |-> k.sts.shape]
                             ELSE k.claims[o]]
  BY DEF StartPods
<1> DEFINE p == [conf |-> k.sts.conf, st |-> "starting"]
           n == [owner |-> "mine", guard |-> k.sts.guarded, going |-> FALSE,
                 history |-> {}, shape |-> k.sts.shape]
           c == IF k.claims[o] = None THEN n ELSE k.claims[o]
<1>2. k.sts \in StatefulSets /\ k.sts.conf \in Confs
  BY <1>0, <1>1 DEF SignerObjectsType, StatefulSets
<1>3. p \in Pods /\ p.conf = k.sts.conf /\ p.st = "starting" /\ p # None
  BY <1>2, NoneIsNoObject, SMT DEF Pods
<1>4. /\ n \in PVCs /\ n # None /\ n.owner = "mine" /\ n.guard = k.sts.guarded /\ ~n.going /\ n.history = {}
      /\ n.shape = k.sts.shape
  <2>1. k.sts.guarded \in BOOLEAN /\ k.sts.shape \in Shapes
    BY <1>2 DEF StatefulSets
  <2>2. n \in PVCs
    BY <2>1 DEF PVCs
  <2>3. n.owner = "mine" /\ n.guard = k.sts.guarded /\ ~n.going /\ n.history = {} /\ n.shape = k.sts.shape
    OBVIOUS
  <2> HIDE DEF n
  <2> QED
    BY <2>2, <2>3, NoneIsNoObject
<1> HIDE DEF n, p
<1>5. /\ c \in PVCs /\ c # None
      /\ c = k.claims[o] \/ (k.claims[o] = None /\ c = n)
  BY <1>0, <1>4 DEF SignerObjectsType
<1>6. k' = [k EXCEPT !.pods[o] = p, !.claims[o] = c]
  BY <1>1 DEF p, n
<1> HIDE DEF c
<1>7. /\ k' \in SignerObjectsType /\ k'.sts = k.sts
      /\ \A i \in Ordinals : /\ k'.pods[i] = IF i = o THEN p ELSE k.pods[i]
                             /\ k'.claims[i] = IF i = o THEN c ELSE k.claims[i]
  <2>1. p \in Pods \cup {None} /\ c \in PVCs \cup {None}
    BY <1>3, <1>5
  <2>2. k' = At(k, o, p, c)
    BY <1>6 DEF At
  <2> QED
    BY <1>0, <2>1, <2>2, AtOrdinal, SMT
<1> USE DEF IInv, Serving
<1>8. TypeOK' /\ WorksUnderLock' /\ SameKey'
  BY <1>7, AroundStep, ServedTypes DEF TypeOK
<1>9. Owned(c) /\ c.shape = k.sts.shape /\ ~c.going
  BY <1>1, <1>4, <1>5, SMT DEF OneMembership, Owned
<1>10. OneMembership'
  <2>1. \A i \in Ordinals : k'.claims[i] # None => Owned(k'.claims[i]) /\ k'.claims[i].shape = k'.sts.shape
    <3>1. k.sts # None
      BY <1>1
    <3> QED
      BY <1>7, <1>9, <3>1 DEF OneMembership
  <2>2. \A i \in Ordinals : k'.pods[i] # None => Owned(k'.claims[i])
    BY <1>7, <1>9 DEF OneMembership
  <2>3. k.sts # None /\ \A i \in Ordinals : Owned(k'.claims[i]) => k'.claims[i] # None
    BY <1>1 DEF Owned
  <2> QED
    BY <1>7, <2>1, <2>2, <2>3 DEF Around, OneMembership
<1>11. StoppedForReset' /\ NothingGivenUp'
  BY <1>1, <1>7 DEF Around, StoppedForReset, NothingGivenUp
<1>12. Guarded'
  <2>1. \A i \in Ordinals : k'.claims[i] # None /\ ~Owned(k'.claims[i]) => k'.claims[i].history = {}
    BY <1>7, <1>9 DEF Guarded
  <2>2. ~c.guard => ~k.sts.guarded
    BY <1>1, <1>4, <1>5, <1>9, SMT DEF Guarded, Forsaken
  <2>3. \A i \in Ordinals : Owned(k'.claims[i]) /\ ~k'.claims[i].guard =>
             \/ k'.claims[i].going /\ k'.claims[i].history \subseteq wiped
             \/ ~k'.claims[i].going /\ ~k'.sts.guarded
    BY <1>1, <1>7, <1>9, <2>2, SMTT(30) DEF Guarded, Forsaken
  <2>4. pc # "idle" => k.sts.guarded
    BY <1>1 DEF Guarded, Unprotected
  <2>5. root = "alive" /\ ~k'.sts.guarded =>
         \A i \in Ordinals : /\ Owned(k'.claims[i]) /\ (k'.claims[i].guard \/ ~k'.claims[i].going)
                             /\ k'.sts.conf.key \in k'.claims[i].history
                             /\ k'.pods[i] # None => k'.pods[i].conf.key \in k'.claims[i].history
    <3>1. root = "alive" /\ ~k'.sts.guarded => c = k.claims[o]
      BY <1>1, <1>5, <1>7 DEF Guarded, Unprotected, Owned
    <3>2. \A i \in Ordinals : i # o => k'.pods[i] = k.pods[i] /\ k'.claims[i] = k.claims[i]
      BY <1>7
    <3>3. k'.sts = k.sts /\ k.sts # None /\ k'.pods[o].conf = k.sts.conf /\ k'.claims[o] = c
      BY <1>1, <1>3, <1>7
    <3> QED
      BY <3>1, <3>2, <3>3 DEF Guarded, Unprotected
  <2>6. \A i \in Ordinals : k'.pods[i] # None => k'.claims[i].guard \/ ~k'.claims[i].going
    BY <1>7, <1>9, SMT DEF Guarded
  <2>7. root # "gone"
    BY <1>1 DEF Guarded
  <2> QED
    BY <1>1, <1>7, <2>1, <2>3, <2>4, <2>5, <2>6, <2>7 DEF Around, Guarded, Forsaken, Unprotected
<1>13. Remembered'
  <2>1. HistoryOf(k) \subseteq HistoryOf(k')
    BY <1>5, <1>7, SMT DEF HistoryOf
  <2>2. \A i \in Ordinals : Ready(k', i) => k'.claims[i] # None /\ k'.pods[i].conf.key \in k'.claims[i].history
    BY <1>3, <1>7 DEF Remembered, OneMembership, Owned, Ready
  <2>3. root \notin {"namespace", "gone"} => served \ wiped \subseteq HistoryOf(k')
    BY <2>1 DEF Remembered
  <2> QED
    BY <2>2, <2>3, ServedIsRemembered DEF Around
<1> QED
  BY <1>8, <1>10, <1>11, <1>12, <1>13

\* A pod that serves adds its key to the history of its claim.
LEMMA ServeStep == ASSUME IInv, Serving, k' \in ServePods(k, Serves) PROVE IInv'
<1>0. k \in SignerObjectsType
  BY DEF IInv, TypeOK
<1>1. PICK o \in Ordinals :
        /\ k.pods[o] # None /\ k.pods[o].st = "starting"
        /\ k' = [k EXCEPT !.pods[o].st = "ready",
                          !.claims[o].history = @ \cup {k.pods[o].conf.key}]
  BY DEF ServePods
<1> DEFINE p == [k.pods[o] EXCEPT !.st = "ready"]
           c == [k.claims[o] EXCEPT !.history = @ \cup {k.pods[o].conf.key}]
           key == k.pods[o].conf.key
<1>2. /\ k.pods[o] \in Pods /\ k.pods[o].conf \in Confs /\ key \in Keys
      /\ Owned(k.claims[o]) /\ k.claims[o] \in PVCs /\ k.claims[o] # None
  BY <1>0, <1>1 DEF IInv, OneMembership, Owned, SignerObjectsType, Pods, Confs
<1>3. p \in Pods /\ p.conf = k.pods[o].conf /\ p # None
  BY <1>2, NoneIsNoObject DEF Pods
<1>4. /\ c \in PVCs /\ c # None /\ c.owner = k.claims[o].owner /\ c.guard = k.claims[o].guard
      /\ c.going = k.claims[o].going /\ c.shape = k.claims[o].shape
      /\ c.history = k.claims[o].history \cup {key}
  BY <1>2, NoneIsNoObject, SMT DEF PVCs
<1>5. k' = [k EXCEPT !.pods[o] = p, !.claims[o] = c]
  BY <1>1
<1> HIDE DEF p, c
<1>6. /\ k' \in SignerObjectsType /\ k'.sts = k.sts
      /\ \A i \in Ordinals : /\ k'.pods[i] = IF i = o THEN p ELSE k.pods[i]
                             /\ k'.claims[i] = IF i = o THEN c ELSE k.claims[i]
  <2>1. p \in Pods \cup {None} /\ c \in PVCs \cup {None}
    BY <1>3, <1>4
  <2>2. k' = At(k, o, p, c)
    BY <1>5, SMT DEF At
  <2> QED
    BY <1>0, <2>1, <2>2, AtOrdinal, SMT
<1>7. \A i \in Ordinals :
        /\ k'.claims[i] = None <=> k.claims[i] = None
        /\ Owned(k'.claims[i]) <=> Owned(k.claims[i])
        /\ k'.pods[i] = None <=> k.pods[i] = None
        /\ k.pods[i] # None => k'.pods[i].conf = k.pods[i].conf
        /\ k.claims[i] # None => /\ k'.claims[i].shape = k.claims[i].shape
                                 /\ k.claims[i].history \subseteq k'.claims[i].history
                                 /\ k'.claims[i].guard = k.claims[i].guard
                                 /\ k'.claims[i].going = k.claims[i].going
        /\ i # o => k'.claims[i] = k.claims[i]
  <2>1. k'.pods[o] = p /\ k'.claims[o] = c /\ k.pods[o] # None
    BY <1>1, <1>6
  <2>2. \A i \in Ordinals : i # o => k'.pods[i] = k.pods[i] /\ k'.claims[i] = k.claims[i]
    BY <1>6
  <2>3. k.claims[o].history \subseteq c.history /\ Owned(c)
    BY <1>2, <1>4 DEF Owned
  <2> QED
    BY <1>2, <1>3, <1>4, <2>1, <2>2, <2>3
<1> USE DEF IInv, Serving
<1>8. TypeOK' /\ WorksUnderLock' /\ SameKey'
  BY <1>6, AroundStep, ServedTypes DEF TypeOK
<1>9. OneMembership'
  BY <1>6, <1>7, SMTT(30) DEF Around, OneMembership, Owned
<1>10. StoppedForReset' /\ NothingGivenUp'
  BY <1>1, <1>6, <1>7 DEF Around, StoppedForReset, NothingGivenUp, SignerPodsGone
<1>11. \A i \in Ordinals : k.pods[i] # None => k.claims[i] # None
  BY DEF OneMembership, Owned
<1>12. root = "namespace" /\ ~k.claims[o].guard => key \in k.claims[o].history
  BY <1>1 DEF Remembered
<1>13. root # "namespace" => k.claims[o].guard \/ ~k.claims[o].going
  BY <1>1 DEF Guarded
<1>14. \A i \in Ordinals : Owned(k.claims[i]) => k.claims[i] # None
  BY DEF Owned
<1>15. Guarded'
  <2>1. \A i \in Ordinals : k'.claims[i] # None /\ ~Owned(k'.claims[i]) => k'.claims[i].history = {}
    BY <1>2, <1>7 DEF Guarded
  <2>2. \A i \in Ordinals : Owned(k'.claims[i]) /\ ~k'.claims[i].guard
                               /\ k.claims[i].going /\ k.claims[i].history \subseteq wiped =>
             k'.claims[i].going /\ k'.claims[i].history \subseteq wiped
    <3>1. ~k.claims[o].guard /\ k.claims[o].going => c.history = k.claims[o].history
      BY <1>4, <1>12, <1>13
    <3>2. k'.claims[o] = c
      BY <1>6
    <3> QED
      BY <1>7, <1>14, <3>1, <3>2
  <2>3. root # "namespace" =>
         \A i \in Ordinals : Owned(k'.claims[i]) /\ ~k'.claims[i].guard =>
             \/ k'.claims[i].going /\ k'.claims[i].history \subseteq wiped
             \/ /\ ~k'.claims[i].going /\ (k'.sts # None => ~k'.sts.guarded)
                /\ root = "alive" => k'.sts # None
    <3>1. root # "namespace" =>
           \A i \in Ordinals : Owned(k.claims[i]) /\ ~k.claims[i].guard =>
               \/ k.claims[i].going /\ k.claims[i].history \subseteq wiped
               \/ /\ ~k.claims[i].going /\ (k.sts # None => ~k.sts.guarded)
                  /\ root = "alive" => k.sts # None
      BY DEF Guarded, Forsaken
    <3>2. k'.sts = k.sts
      BY <1>6
    <3> QED
      BY <1>7, <1>14, <2>2, <3>1, <3>2
  <2>4. pc # "idle" => /\ ~(k'.sts # None /\ ~k'.sts.guarded)
                       /\ \A i \in Ordinals : Owned(k'.claims[i]) /\ ~k'.claims[i].guard =>
                             k'.claims[i].going /\ k'.claims[i].history \subseteq wiped
    BY <1>6, <1>7, <1>14, <2>2 DEF Guarded, Forsaken, Unprotected
  <2>5. root = "alive" /\ k'.sts # None /\ ~k'.sts.guarded =>
         \A i \in Ordinals : /\ Owned(k'.claims[i]) /\ (k'.claims[i].guard \/ ~k'.claims[i].going)
                             /\ k'.sts.conf.key \in k'.claims[i].history
                             /\ k'.pods[i] # None => k'.pods[i].conf.key \in k'.claims[i].history
    BY <1>6, <1>7, <1>14 DEF Guarded, Unprotected
  <2>6. root # "namespace" =>
         \A i \in Ordinals : k'.pods[i] # None => k'.claims[i].guard \/ ~k'.claims[i].going
    BY <1>7, <1>11 DEF Guarded
  <2>7. root # "gone"
    BY <1>1 DEF Guarded, SignerPodsGone
  <2> QED
    BY <2>1, <2>3, <2>4, <2>5, <2>6, <2>7 DEF Around, Guarded, Forsaken, Unprotected
<1>16. Remembered'
  <2>1. HistoryOf(k) \subseteq HistoryOf(k')
    BY <1>7, SMT DEF HistoryOf
  <2>2. \A i \in Ordinals : Ready(k', i) => k'.claims[i] # None /\ k'.pods[i].conf.key \in k'.claims[i].history
    <3>1. k'.claims[o] # None /\ k'.pods[o].conf.key \in k'.claims[o].history
      BY <1>3, <1>4, <1>6
    <3>2. \A i \in Ordinals : i # o => k'.pods[i] = k.pods[i] /\ k'.claims[i] = k.claims[i]
      BY <1>6
    <3> QED
      BY <1>11, <3>1, <3>2 DEF Remembered, Ready
  <2>3. root \notin {"namespace", "gone"} => served \ wiped \subseteq HistoryOf(k')
    BY <2>1 DEF Remembered
  <2>4. ASSUME root = "namespace"
        PROVE
             /\ \A i \in Ordinals : k'.pods[i] # None /\ k'.pods[i].conf.key \in served \ wiped =>
                    k'.pods[i].conf.key \in HistoryOf(k')
             /\ (\E i \in Ordinals : /\ Owned(k'.claims[i]) /\ ~k'.claims[i].guard
                                     /\ ~(k'.claims[i].history \subseteq wiped)) =>
                    \A i \in Ordinals : k'.pods[i] # None => k'.pods[i].conf.key \in k'.claims[i].history
             /\ \A i \in Ordinals : k'.pods[i] # None /\ ~k'.claims[i].guard =>
                    k'.pods[i].conf.key \in k'.claims[i].history
    <3>1. \A i \in Ordinals : Owned(k'.claims[i]) /\ ~k'.claims[i].guard =>
                                  Owned(k.claims[i]) /\ ~k.claims[i].guard /\ k'.claims[i].history = k.claims[i].history
      <4>1. ~k.claims[o].guard => k'.claims[o].history = k.claims[o].history
        BY <1>4, <1>6, <1>12, <2>4
      <4> QED
        BY <1>7, <1>14, <4>1
    <3> QED
      BY <1>7, <1>11, <2>1, <2>4, <3>1, SMTT(30) DEF Remembered
  <2> QED
    BY <2>2, <2>3, <2>4, ServedIsRemembered DEF Around
<1> QED
  BY <1>8, <1>9, <1>10, <1>15, <1>16

LEMMA StopStep == ASSUME IInv, Serving, k' \in StopPods(k) PROVE IInv'
<1>1. PICK o \in Ordinals : k.pods[o] # None /\ k' = [k EXCEPT !.pods[o].st = "going"]
  BY DEF StopPods
<1> DEFINE p == [k.pods[o] EXCEPT !.st = "going"]
<1>2. k \in SignerObjectsType /\ k.pods[o] \in Pods
  BY <1>1 DEF IInv, TypeOK, SignerObjectsType
<1>3. p \in Pods /\ p.conf = k.pods[o].conf /\ p.st = "going"
  BY <1>2 DEF Pods
<1>4. k' = [k EXCEPT !.pods[o] = p]
  BY <1>1
<1> HIDE DEF p
<1>5. /\ k' \in SignerObjectsType /\ k'.sts = k.sts /\ k'.claims = k.claims
      /\ \A i \in Ordinals : k'.pods[i] = IF i = o THEN p ELSE k.pods[i]
  BY <1>2, <1>3, <1>4, AtPod, SMT
<1>6. k.pods[o] # None
  BY <1>1
<1> QED
  BY <1>3, <1>5, <1>6, PodsStopStep DEF Serving

LEMMA RemovePodStep == ASSUME IInv, Serving, k' \in RemovePods(k) PROVE IInv'
<1>1. PICK o \in Ordinals : k' = [k EXCEPT !.pods[o] = None]
  BY DEF RemovePods
<1>2. k \in SignerObjectsType
  BY DEF IInv, TypeOK
<1>3. /\ k' \in SignerObjectsType /\ k'.sts = k.sts /\ k'.claims = k.claims
      /\ \A i \in Ordinals : k'.pods[i] = IF i = o THEN None ELSE k.pods[i]
  BY <1>1, <1>2, AtPod, SMT
<1> QED
  BY <1>3, PodsStopStep DEF Serving

\* A claim that goes without a guard takes no history that is still relied on.
LEMMA RemoveClaimStep == ASSUME IInv, Serving, k' \in RemoveClaims(k) PROVE IInv'
<1>1. PICK o \in Ordinals : /\ k.claims[o] # None /\ k.claims[o].going /\ ~k.claims[o].guard
                            /\ k.pods[o] = None /\ k' = [k EXCEPT !.claims[o] = None]
  BY DEF RemoveClaims
<1>2. k \in SignerObjectsType
  BY DEF IInv, TypeOK
<1>3. /\ k' \in SignerObjectsType /\ k'.sts = k.sts /\ k'.pods = k.pods
      /\ \A i \in Ordinals : k'.claims[i] = IF i = o THEN None ELSE k.claims[i]
  BY <1>1, <1>2, AtClaim, SMT
<1>4. /\ k.claims[o] # None /\ k.claims[o].going /\ ~k.claims[o].guard /\ k.pods[o] = None
  BY <1>1
<1> USE DEF IInv, Serving
<1>5. TypeOK' /\ WorksUnderLock' /\ SameKey'
  BY <1>3, AroundStep, ServedTypes DEF TypeOK
<1>6. OneMembership'
  <2>1. \A i \in Ordinals : k'.claims[i] # None => i # o /\ k'.claims[i] = k.claims[i]
    BY <1>3
  <2>2. \A i \in Ordinals : k'.pods[i] # None => k'.claims[i] = k.claims[i]
    BY <1>3, <1>4
  <2>3. \A i \in Ordinals : Owned(k'.claims[i]) => k'.claims[i] # None
    BY DEF Owned
  <2> QED
    BY <1>3, <2>1, <2>2, <2>3 DEF Around, OneMembership
<1>7. StoppedForReset' /\ NothingGivenUp'
  BY <1>3 DEF Around, StoppedForReset, NothingGivenUp, SignerPodsGone, Owned
<1>8. ~Owned(k.claims[o]) => k.claims[o].history = {}
  BY <1>4 DEF Guarded
<1>9. root = "alive" => ~Unprotected
  BY <1>4 DEF Guarded
<1>10. Guarded'
  <2>1. \A i \in Ordinals : k'.claims[i] # None => k'.claims[i] = k.claims[i]
    BY <1>3
  <2>2. \A i \in Ordinals : Owned(k'.claims[i]) => k'.claims[i] # None
    BY DEF Owned
  <2>3. \A i \in Ordinals : k'.pods[i] # None => k'.claims[i] = k.claims[i]
    BY <1>3, <1>4
  <2>4. root = "gone" => pc = "idle" /\ k.sts = None /\ SignerPodsGone(k)
    BY DEF Guarded
  <2>5. root # "namespace" =>
         \A i \in Ordinals : Owned(k'.claims[i]) /\ ~k'.claims[i].guard =>
             \/ Forsaken(k.claims[i])
             \/ /\ ~k.claims[i].going /\ (k.sts # None => ~k.sts.guarded)
                /\ root = "alive" => k.sts # None
    BY <2>1, <2>2 DEF Guarded
  <2>6. pc # "idle" => /\ ~Unprotected
                       /\ \A i \in Ordinals : Owned(k'.claims[i]) /\ ~k'.claims[i].guard =>
                             Forsaken(k.claims[i])
    BY <2>1, <2>2 DEF Guarded
  <2>7. /\ \A i \in Ordinals : k'.claims[i] # None /\ ~Owned(k'.claims[i]) => k'.claims[i].history = {}
        /\ root # "namespace" =>
             \A i \in Ordinals : k'.pods[i] # None => k'.claims[i].guard \/ ~k'.claims[i].going
    BY <1>3, <2>1, <2>3 DEF Guarded
  <2> QED
    BY <1>3, <1>9, <2>1, <2>2, <2>4, <2>5, <2>6, <2>7 DEF Around, Guarded, Forsaken, Unprotected, SignerPodsGone
<1>11. Remembered'
  <2>1. \A i \in Ordinals : Ready(k', i) => k'.claims[i] # None /\ k'.pods[i].conf.key \in k'.claims[i].history
    BY <1>3, <1>4 DEF Remembered, OneMembership, Owned, Ready
  <2>2. \A x \in HistoryOf(k) : x \in HistoryOf(k') \/ x \in k.claims[o].history
    BY <1>3 DEF HistoryOf
  <2>3. root # "namespace" => k.claims[o].history \subseteq wiped
    BY <1>4, <1>8 DEF Guarded, Forsaken
  <2>4. root \notin {"namespace", "gone"} => served \ wiped \subseteq HistoryOf(k')
    BY <2>2, <2>3 DEF Remembered
  <2>5. ASSUME root = "namespace"
        PROVE
             /\ \A i \in Ordinals : k'.pods[i] # None /\ k'.pods[i].conf.key \in served \ wiped =>
                    k'.pods[i].conf.key \in HistoryOf(k')
             /\ (\E i \in Ordinals : /\ Owned(k'.claims[i]) /\ ~k'.claims[i].guard
                                     /\ ~(k'.claims[i].history \subseteq wiped)) =>
                    \A i \in Ordinals : k'.pods[i] # None => k'.pods[i].conf.key \in k'.claims[i].history
             /\ \A i \in Ordinals : k'.pods[i] # None /\ ~k'.claims[i].guard =>
                    k'.pods[i].conf.key \in k'.claims[i].history
    <3>1. \A i \in Ordinals : k'.pods[i] # None => /\ i # o /\ k'.claims[i] = k.claims[i]
                                                   /\ k'.pods[i] = k.pods[i] /\ k'.claims[i] # None
      BY <1>3, <1>4 DEF OneMembership, Owned
    <3>2. \A i \in Ordinals : Owned(k'.claims[i]) => k'.claims[i] = k.claims[i]
      BY <1>3 DEF Owned
    <3>3. ~(k.claims[o].history \subseteq wiped) =>
              \A i \in Ordinals : k.pods[i] # None => k.pods[i].conf.key \in k.claims[i].history
      BY <1>4, <1>8, <2>5 DEF Remembered
    <3>4. \A i \in Ordinals : k'.claims[i] # None => k'.claims[i].history \subseteq HistoryOf(k')
      BY DEF HistoryOf
    <3>5. \A i \in Ordinals : k'.pods[i] # None /\ k'.pods[i].conf.key \in served \ wiped =>
                    k'.pods[i].conf.key \in HistoryOf(k')
      <4> SUFFICES ASSUME NEW i \in Ordinals, k'.pods[i] # None, k'.pods[i].conf.key \in served \ wiped
                   PROVE  k'.pods[i].conf.key \in HistoryOf(k')
        OBVIOUS
      <4>1. k.pods[i].conf.key \in HistoryOf(k)
        BY <2>5, <3>1 DEF Remembered
      <4>2. CASE k.pods[i].conf.key \in k.claims[o].history
        <5>1. k.pods[i].conf.key \in k.claims[i].history
          BY <3>1, <3>3, <4>2
        <5> QED
          BY <3>1, <3>4, <5>1
      <4> QED
        BY <2>2, <3>1, <4>1, <4>2
    <3>6. (\E i \in Ordinals : /\ Owned(k'.claims[i]) /\ ~k'.claims[i].guard
                               /\ ~(k'.claims[i].history \subseteq wiped)) =>
                    \A i \in Ordinals : k'.pods[i] # None => k'.pods[i].conf.key \in k'.claims[i].history
      BY <2>5, <3>1, <3>2 DEF Remembered
    <3>7. \A i \in Ordinals : k'.pods[i] # None /\ ~k'.claims[i].guard =>
                    k'.pods[i].conf.key \in k'.claims[i].history
      BY <2>5, <3>1 DEF Remembered
    <3> QED
      BY <3>5, <3>6, <3>7
  <2> QED
    BY <2>1, <2>4, <2>5, ServedIsRemembered DEF Around
<1> QED
  BY <1>5, <1>6, <1>7, <1>10, <1>11

LEMMA KubeStep == ASSUME IInv, Kube PROVE IInv'
<1>1. Serving
  BY DEF Kube, Serving, Around, run, IInv, TypeOK
<1>2. /\ k' \in ObserveSts(k) \cup StartPods(k) \cup ServePods(k, Serves) \cup StopPods(k)
                \cup RemovePods(k) \cup RemoveClaims(k)
      /\ root = "namespace" => k' \notin StartPods(k)
  BY DEF Kube, KubeSteps
<1> QED
  BY <1>1, <1>2, ObserveStep, StartStep, ServeStep, StopStep, RemovePodStep, RemoveClaimStep

=============================================================================
