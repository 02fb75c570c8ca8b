-------------------------- MODULE SnapshotsProofs --------------------------
(***************************************************************************)
(* Proofs about Snapshots, for every set of configurations, any frequency  *)
(* and any number of instants, edits, faults, stale lists and corrupted    *)
(* snapshots.                                                              *)
(***************************************************************************)
EXTENDS Snapshots, FiniteSetTheorems, WellFoundedInduction, TLAPS

\* A set of natural numbers that has an element has a minimum.
LEMMA MinIsLeast ==
    ASSUME NEW S \in SUBSET Nat, S # {}
    PROVE  Min(S) \in S /\ \A x \in S : Min(S) <= x
<1> DEFINE R == OpToRel(<, Nat)
<1>1. IsWellFoundedOn(R, Nat)
  BY NatLessThanWellFounded
<1>2. \E m \in S : \A x \in S : ~(<<x, m>> \in R)
  <2> HIDE DEF R
  <2> QED BY <1>1, WFMin
<1>3. PICK m \in S : \A x \in S : ~(x < m)
  BY <1>2 DEF OpToRel
<1>4. \A x \in S : m <= x
  BY <1>3
<1> QED BY <1>4 DEF Min

\* A set of natural numbers that has an element and a bound has a maximum.
LEMMA MaxIsGreatest ==
    ASSUME NEW S \in SUBSET Nat, S # {}, NEW b \in Nat, \A x \in S : x <= b
    PROVE  Max(S) \in S /\ \A x \in S : x <= Max(S)
<1> DEFINE T == {b - x : x \in S}
<1>1. T \in SUBSET Nat /\ T # {}
  <2>1. PICK e \in S : TRUE
    OBVIOUS
  <2>2. b - e \in T
    BY <2>1
  <2>3. \A x \in S : x \in Nat /\ b - x \in Nat
    OBVIOUS
  <2> QED BY <2>2, <2>3
<1>2. PICK t \in T : \A u \in T : t <= u
  <2> HIDE DEF T
  <2> QED BY <1>1, MinIsLeast
<1>3. PICK m \in S : t = b - m
  BY <1>2
<1>4. \A x \in S : x <= m
  BY <1>2, <1>3
<1> QED BY <1>4 DEF Max

\* A pass works on one of the snapshots it has left.
LEMMA FirstIsTodo ==
    ASSUME TypeOK, todo # {}
    PROVE  t0 \in todo
BY MinIsLeast, SnapshotsAssumption DEF t0, TypeOK, Times

\* The latest of a list of snapshots of the past is not of the future.
LEMMA LatestReadyIsPast ==
    ASSUME NEW l, NEW n \in Nat, \A t \in Times : l[t] # None => t <= n
    PROVE  LatestReady(l) \in 0..n
<1> DEFINE S == {0} \cup {t \in Existing(l) : l[t].status = "ready"}
<1>1. S \in SUBSET Nat /\ S # {} /\ \A t \in S : t <= n
  BY DEF Existing, Times
<1>2. Max(S) \in S
  <2> HIDE DEF S
  <2> QED BY <1>1, MaxIsGreatest
<1> QED BY <1>1, <1>2 DEF LatestReady

\* Sets of instants have sizes, and smaller sets smaller ones.
LEMMA Sizes ==
    ASSUME NEW S \in SUBSET Times, NEW T \in SUBSET S
    PROVE  /\ IsFiniteSet(S) /\ Cardinality(S) \in Nat
           /\ Cardinality(T) \in Nat
           /\ Cardinality(T) <= Cardinality(S)
<1>1. IsFiniteSet(Times)
  BY FS_Interval, SnapshotsAssumption DEF Times
<1>2. IsFiniteSet(S)
  BY <1>1, FS_Subset
<1>3. IsFiniteSet(T) /\ Cardinality(T) <= Cardinality(S)
  BY <1>2, FS_Subset
<1> QED BY <1>2, <1>3, FS_CardinalityType

\* One more instant makes a set at most one larger.
LEMMA OneMore ==
    ASSUME NEW S \in SUBSET Times, NEW t \in Times, NEW T \in SUBSET (S \cup {t})
    PROVE  /\ Cardinality(S) \in Nat /\ Cardinality(T) \in Nat
           /\ Cardinality(T) <= Cardinality(S) + 1
<1>1. IsFiniteSet(S) /\ Cardinality(S) \in Nat
  BY Sizes
<1>2. Cardinality(S \cup {t}) <= Cardinality(S) + 1
  BY <1>1, FS_AddElement
<1>3. Cardinality(T) \in Nat /\ Cardinality(S \cup {t}) \in Nat /\ Cardinality(T) <= Cardinality(S \cup {t})
  BY Sizes
<1> QED BY <1>1, <1>2, <1>3

LEMMA Sets ==
    /\ \A l : Active(l) \in SUBSET Times
    /\ Failed \in SUBSET Times
BY DEF Active, Existing, Failed

LEMMA Numbers ==
    ASSUME TypeOK
    PROVE  /\ Cardinality(Active(snaps)) \in Nat
           /\ Cardinality(Failed) \in Nat
           /\ stale \in Nat /\ broken \in Nat
BY Sets, Sizes, SnapshotsAssumption DEF TypeOK

\* A step that adds no snapshot in progress and no failed check keeps within
\* the budget, as long as the pass does not begin to decide or take out of turn.
LEMMA WithinBudget ==
    ASSUME TypeOK, TypeOK', Budget,
           Active(snaps)' \subseteq Active(snaps), Failed' \subseteq Failed,
           stale' = stale, broken' = broken,
           pc' \in Taking => pc \in Taking \/ (pc \in Deciding /\ ~node.inProgress),
           pc' \in Deciding /\ ~node'.inProgress => pc \in Deciding /\ ~node.inProgress
    PROVE  Budget'
<1>1. Owed' <= Owed /\ Owed \in Nat /\ Owed' \in Nat /\ Cardinality(Failed)' <= Cardinality(Failed)
  <2>1. /\ Cardinality(Active(snaps)') <= Cardinality(Active(snaps))
        /\ Cardinality(Active(snaps)') \in Nat
    BY Sets, Sizes
  <2>2. /\ Cardinality(Failed') <= Cardinality(Failed)
        /\ Cardinality(Failed') \in Nat
    BY Sets, Sizes
  <2> QED BY <2>1, <2>2, Numbers DEF Owed
<1>2. Cardinality(Failed)' \in Nat
  BY Sets, Sizes
<1> QED BY <1>1, <1>2, Numbers DEF Budget

-----------------------------------------------------------------------------
(* What the operators the actions share do *)

\* A pass that ends has nothing left to do and no list.
LEMMA Ending ==
    ASSUME End
    PROVE  /\ pc' = "idle" /\ todo' = {} /\ ready' = FALSE
           /\ list' \in [Times -> Snapshot \cup {None}]
           /\ \A t \in Times : list'[t] = None
           /\ WorksFromList'
BY DEF End, NoSnapshots, WorksFromList, Existing

\* Deleting a snapshot keeps it there, but not in progress.
LEMMA Deleting ==
    ASSUME TypeOK, NEW t \in Times, DeleteSnapshot(t)
    PROVE  /\ snaps' \in [Times -> Snapshot \cup {None}]
           /\ \A u \in Times : snaps'[u] # None <=> snaps[u] # None
           /\ Active(snaps)' \subseteq Active(snaps)
<1>1. CASE snaps[t] = None
  BY <1>1 DEF TypeOK, DeleteSnapshot, Active, Existing
<1>2. CASE snaps[t] # None
  <2>1. snaps' = [snaps EXCEPT ![t].deleting = TRUE]
    BY <1>2 DEF DeleteSnapshot
  <2>2. snaps[t] \in Snapshot
    BY <1>2 DEF TypeOK
  <2>3. /\ [snaps[t] EXCEPT !.deleting = TRUE] \in Snapshot
        /\ [snaps[t] EXCEPT !.deleting = TRUE] # None
        /\ [snaps[t] EXCEPT !.deleting = TRUE].deleting
    BY <2>2 DEF Snapshot, None
  <2>4. snaps' \in [Times -> Snapshot \cup {None}]
    BY <2>1, <2>3 DEF TypeOK
  <2>5. /\ \A u \in Times \ {t} : snaps'[u] = snaps[u]
        /\ snaps'[t] # None /\ snaps'[t].deleting
    BY <2>1, <2>3 DEF TypeOK
  <2> QED BY <1>2, <2>4, <2>5 DEF Active, Existing
<1> QED BY <1>1, <1>2

\* One more event stays within the bound on events.
LEMMA Events ==
    ASSUME TypeOK, MoreEvents
    PROVE  /\ edits + 1 \in 0..MaxEvents /\ faults + 1 \in 0..MaxEvents
           /\ stale + 1 \in 0..MaxEvents /\ broken + 1 \in 0..MaxEvents
BY SnapshotsAssumption DEF TypeOK, MoreEvents

-----------------------------------------------------------------------------
(* Every step preserves the invariant *)

LEMMA BeginStep ==
    ASSUME IInv, Begin
    PROVE  IInv'
<1> USE DEF IInv
<1>1. CASE config.enabled
  <2>1. /\ pc' = "repair" /\ list' = cache /\ todo' = Existing(cache) /\ node' = Repaired(cache)
        /\ UNCHANGED <<config, pod, snaps, cache, jobs, now, edits, faults, broken>>
        /\ ready' = (pod = "ready")
        /\ stale' = (IF cache = snaps THEN stale ELSE stale + 1)
    BY <1>1 DEF Begin
  <2>2. stale' \in 0..MaxEvents
    BY <1>1, Events DEF Begin, TypeOK
  <2>3. node' \in [inProgress : BOOLEAN, last : 0..now,
                   phase : {"Running", "Syncing", "Snapshotting", "Restarting"}]
    <3>1. LatestReady(cache) \in 0..now /\ node.last \in 0..now /\ now \in Nat
      <4>1. now \in Nat /\ node.last \in 0..now
        BY DEF TypeOK, Times
      <4>2. \A t \in Times : cache[t] # None => t <= now
        BY DEF OfThePast
      <4> QED BY <4>1, <4>2, LatestReadyIsPast
    <3>2. Max({node.last, LatestReady(cache)}) \in 0..now
      <4>1. Max({node.last, LatestReady(cache)}) \in {node.last, LatestReady(cache)}
        BY <3>1, MaxIsGreatest
      <4> QED BY <3>1, <4>1
    <3> QED BY <2>1, <3>2 DEF Repaired, TypeOK
  <2>4. TypeOK'
    BY <2>1, <2>2, <2>3 DEF TypeOK, Steps, Existing
  <2>5. OfThePast'
    BY <2>1 DEF OfThePast
  <2>6. WorksFromList' /\ (node'.inProgress <=> Active(cache) # {})
    <3>1. node'.inProgress = (Active(cache) # {})
      BY <2>1 DEF Repaired, TypeOK
    <3> QED BY <2>1, <3>1 DEF WorksFromList
  <2>7. Budget'
    <3>1. /\ Owed' = Owed /\ Failed' = Failed /\ pc' \notin Taking /\ pc' \in Deciding
          /\ Cardinality(Failed) \in Nat /\ Cardinality(Active(snaps)) \in Nat
          /\ stale \in Nat /\ broken \in Nat
      BY <2>1, Numbers DEF Owed, Failed, Taking, Deciding
    <3>2. CASE cache = snaps
      <4>1. stale' = stale /\ broken' = broken
        BY <2>1, <3>2
      <4>2. ~node'.inProgress => Owed <= stale + broken
        <5>1. SUFFICES ASSUME ~node'.inProgress PROVE Owed <= stale + broken
          OBVIOUS
        <5>2. Active(snaps) = {}
          BY <5>1, <2>6, <3>2
        <5>3. Cardinality(Active(snaps)) = 0
          BY <5>2, FS_EmptySet
        <5> QED BY <5>3, <3>1 DEF Owed, Budget
      <4> QED BY <3>1, <4>1, <4>2 DEF Budget
    <3>3. CASE cache # snaps
      <4>1. stale' = stale + 1 /\ broken' = broken
        BY <2>1, <3>3
      <4> QED BY <3>1, <4>1 DEF Budget, Owed
    <3> QED BY <3>2, <3>3
  <2> QED BY <2>4, <2>5, <2>6, <2>7
<1>2. CASE ~config.enabled
  <2>1. /\ pc' = "pod" /\ node' = [node EXCEPT !.inProgress = FALSE] /\ ready' = (pod = "ready")
        /\ UNCHANGED <<config, pod, snaps, cache, jobs, now, list, todo, bounds>>
    BY <1>2 DEF Begin, bounds
  <2>2. TypeOK'
    BY <2>1 DEF TypeOK, Steps, bounds
  <2>3. OfThePast' /\ WorksFromList'
    BY <2>1 DEF OfThePast, WorksFromList
  <2>4. Budget'
    BY <2>1, <2>2, WithinBudget DEF Failed, Taking, Deciding, bounds
  <2> QED BY <2>2, <2>3, <2>4
<1> QED BY <1>1, <1>2

LEMMA RepairPhaseStep ==
    ASSUME IInv, RepairPhase
    PROVE  IInv'
<1> USE DEF IInv
<1>1. /\ pc = "repair" /\ pc' = "scan"
      /\ node' = node \/ node' = [node EXCEPT !.phase = "Snapshotting"]
      /\ UNCHANGED <<config, pod, snaps, cache, jobs, now, list, todo, ready,
                     edits, faults, stale, broken>>
  BY DEF RepairPhase, Goto, bounds
<1>2. /\ node' \in [inProgress : BOOLEAN, last : 0..now,
                    phase : {"Running", "Syncing", "Snapshotting", "Restarting"}]
      /\ node'.inProgress = node.inProgress
  BY <1>1 DEF TypeOK
<1>3. TypeOK'
  BY <1>1, <1>2 DEF TypeOK, Steps
<1>4. OfThePast' /\ WorksFromList'
  BY <1>1, <1>2 DEF OfThePast, WorksFromList
<1>5. Budget'
  BY <1>1, <1>2, <1>3, WithinBudget DEF Failed, Taking, Deciding
<1> QED BY <1>3, <1>4, <1>5

LEMMA MarkReadyStep ==
    ASSUME IInv, MarkReady
    PROVE  IInv'
<1> USE DEF IInv
<1>1. /\ t0 \in todo /\ t0 \in Times /\ pc = "scan" /\ todo # {}
      /\ UNCHANGED <<config, node, pod, cache, jobs, now, edits, faults, stale, broken>>
  BY FirstIsTodo DEF MarkReady, TypeOK, bounds
<1>2. CASE Fresh(t0)
  <2>1. snaps' = [snaps EXCEPT ![t0].marked = TRUE]
        /\ pc' = "record" /\ UNCHANGED <<list, todo, ready>>
    BY <1>2 DEF MarkReady, Goto
  <2>2. snaps[t0] # None /\ snaps[t0] \in Snapshot
    BY <1>1, <1>2 DEF Fresh, WorksFromList, Existing, TypeOK
  <2> DEFINE s == [snaps[t0] EXCEPT !.marked = TRUE]
  <2>3. s \in Snapshot /\ s # None /\ s.status = snaps[t0].status /\ s.deleting = snaps[t0].deleting
    BY <2>2 DEF Snapshot, None
  <2>4. /\ snaps' \in [Times -> Snapshot \cup {None}]
        /\ snaps'[t0] = s /\ \A u \in Times \ {t0} : snaps'[u] = snaps[u]
    BY <1>1, <2>1, <2>3 DEF TypeOK
  <2> HIDE DEF s
  <2>5. /\ \A u \in Times : snaps'[u] # None <=> snaps[u] # None
        /\ Active(snaps)' \subseteq Active(snaps)
    BY <2>2, <2>3, <2>4 DEF Active, Existing
  <2>6. TypeOK'
    BY <1>1, <2>1, <2>4, <2>5 DEF TypeOK, Steps
  <2>7. OfThePast' /\ WorksFromList'
    BY <1>1, <2>1, <2>5 DEF OfThePast, WorksFromList
  <2>8. Budget'
    BY <1>1, <2>1, <2>5, <2>6, WithinBudget DEF Failed, Taking, Deciding
  <2> QED BY <2>6, <2>7, <2>8
<1>3. CASE ~Fresh(t0)
  <2>1. UNCHANGED snaps /\ End
    BY <1>3 DEF MarkReady
  <2>2. TypeOK' /\ OfThePast' /\ WorksFromList'
    BY <1>1, <2>1, Ending DEF TypeOK, Steps, OfThePast
  <2>3. Budget'
    BY <1>1, <2>1, <2>2, Ending, WithinBudget DEF Failed, Taking, Deciding
  <2> QED BY <2>2, <2>3
<1> QED BY <1>2, <1>3

LEMMA RecordStep ==
    ASSUME IInv, Record
    PROVE  IInv'
<1> USE DEF IInv
<1>1. /\ pc = "record" /\ node.inProgress = (Active(list) # {})
      /\ node' = [node EXCEPT !.inProgress = Active(list) # {}, !.last = LatestReady(list)]
      /\ UNCHANGED <<config, pod, snaps, cache, jobs, now, edits, faults, stale, broken, list, ready>>
      /\ pc' \in {"check", "scan"}
      /\ todo' \subseteq todo /\ (pc' = "check" => todo' = todo)
  BY DEF Record, bounds, Goto, Done, WorksFromList
<1>2. LatestReady(list) \in 0..now
  <2>1. now \in Nat
    BY DEF TypeOK, Times
  <2>2. \A t \in Times : list[t] # None => t <= now
    BY DEF OfThePast
  <2> QED BY <2>1, <2>2, LatestReadyIsPast
<1>3. /\ node' \in [inProgress : BOOLEAN, last : 0..now,
                    phase : {"Running", "Syncing", "Snapshotting", "Restarting"}]
      /\ node'.inProgress = (Active(list) # {})
  BY <1>1, <1>2 DEF TypeOK
<1>4. TypeOK'
  BY <1>1, <1>3 DEF TypeOK, Steps
<1>5. OfThePast' /\ WorksFromList'
  BY <1>1, <1>3 DEF OfThePast, WorksFromList
<1>6. Budget'
  BY <1>1, <1>3, <1>4, WithinBudget DEF Failed, Taking, Deciding
<1> QED BY <1>4, <1>5, <1>6

LEMMA StartCheckStep ==
    ASSUME IInv, StartCheck
    PROVE  IInv'
<1> USE DEF IInv
<1>1. /\ t0 \in todo /\ t0 \in Times /\ pc \in {"scan", "check"}
      /\ UNCHANGED <<config, node, pod, snaps, cache, now, edits, stale, broken>>
  BY FirstIsTodo DEF StartCheck, TypeOK, WorksFromList
<1>2. \/ UNCHANGED jobs
      \/ /\ snaps[t0] # None
         /\ jobs' = [jobs EXCEPT ![t0] = "running"] \/ jobs' = [jobs EXCEPT ![t0] = "unbound"]
  BY DEF StartCheck
<1>3. /\ jobs' \in [Times -> JobStates] /\ Failed' \subseteq Failed
      /\ \A t \in Times : jobs'[t] # "none" => snaps[t] # None
  BY <1>1, <1>2 DEF TypeOK, JobStates, Failed
<1>4. faults' \in 0..MaxEvents
  BY Events DEF StartCheck, TypeOK
<1>5. End \/ Done(t0)
  BY DEF StartCheck
<1>6. /\ list' \in [Times -> Snapshot \cup {None}] /\ todo' \subseteq Times /\ ready' \in BOOLEAN
      /\ pc' \in {"idle", "scan"} /\ WorksFromList'
      /\ \A t \in Times : list'[t] # None => list[t] # None
  <2>1. CASE End
    BY <2>1, Ending
  <2>2. CASE Done(t0)
    BY <1>1, <2>2 DEF Done, TypeOK, WorksFromList
  <2> QED BY <1>5, <2>1, <2>2
<1>7. TypeOK'
  BY <1>1, <1>3, <1>4, <1>6 DEF TypeOK, Steps
<1>8. OfThePast'
  BY <1>1, <1>6 DEF OfThePast
<1>9. Budget'
  BY <1>1, <1>3, <1>6, <1>7, WithinBudget DEF Taking, Deciding
<1> QED BY <1>6, <1>7, <1>8, <1>9

\* A failed check is turned into the decision to take another snapshot.
LEMMA VerifyStep ==
    ASSUME IInv, Verify
    PROVE  IInv'
<1> USE DEF IInv
<1>1. /\ t0 \in todo /\ t0 \in Times /\ pc = "scan" /\ todo # {} /\ jobs[t0] \in JobStates \ {"none"}
      /\ UNCHANGED <<config, node, pod, cache, now, edits, faults, stale, broken>>
  BY FirstIsTodo DEF Verify, TypeOK, bounds
<1>2. CASE jobs[t0] \in {"unbound", "running"}
  <2>1. Done(t0) /\ UNCHANGED <<snaps, jobs>>
    BY <1>2 DEF Verify
  <2>2. TypeOK' /\ OfThePast' /\ WorksFromList'
    BY <1>1, <2>1 DEF Done, TypeOK, Steps, OfThePast, WorksFromList
  <2>3. Budget'
    BY <1>1, <2>1, <2>2, WithinBudget DEF Done, Failed, Taking, Deciding
  <2> QED BY <2>2, <2>3
<1>3. CASE jobs[t0] \in {"ok", "failed"} /\ Fresh(t0)
  <2> DEFINE result == IF jobs[t0] = "ok" THEN "ok" ELSE "corrupted"
             s == [snaps[t0] EXCEPT !.check = result]
  <2>1. /\ snaps' = [snaps EXCEPT ![t0].check = result]
        /\ jobs' = [jobs EXCEPT ![t0] = "none"]
        /\ IF jobs[t0] = "ok" THEN Done(t0) ELSE Goto("replace")
    BY <1>3 DEF Verify
  <2>2. snaps[t0] # None /\ snaps[t0] \in Snapshot
    BY <1>1, <1>3 DEF Fresh, WorksFromList, Existing, TypeOK
  <2>3. s \in Snapshot /\ s # None /\ s.status = snaps[t0].status /\ s.deleting = snaps[t0].deleting
    BY <2>2 DEF Snapshot, None
  <2>4. /\ snaps' \in [Times -> Snapshot \cup {None}]
        /\ snaps'[t0] = s /\ \A u \in Times \ {t0} : snaps'[u] = snaps[u]
    BY <1>1, <2>1, <2>3 DEF TypeOK
  <2>5. /\ jobs' \in [Times -> JobStates] /\ jobs'[t0] = "none"
        /\ \A u \in Times \ {t0} : jobs'[u] = jobs[u]
        /\ Failed' = Failed \ {t0}
    BY <1>1, <2>1 DEF TypeOK, JobStates, Failed
  <2> HIDE DEF s
  <2>6. /\ \A u \in Times : snaps'[u] # None <=> snaps[u] # None
        /\ Active(snaps)' \subseteq Active(snaps)
    BY <2>2, <2>3, <2>4 DEF Active, Existing
  <2>7. /\ UNCHANGED <<list, ready>> /\ todo' \subseteq todo
        /\ pc' = IF jobs[t0] = "ok" THEN "scan" ELSE "replace"
        /\ pc' = "replace" => todo' = todo
    BY <2>1 DEF Done, Goto
  <2>8. TypeOK'
    BY <1>1, <2>4, <2>5, <2>6, <2>7 DEF TypeOK, Steps
  <2>9. OfThePast' /\ WorksFromList'
    BY <1>1, <2>6, <2>7 DEF OfThePast, WorksFromList
  <2>10. Budget'
    <3>1. CASE jobs[t0] = "ok"
      BY <1>1, <2>5, <2>6, <2>7, <2>8, <3>1, WithinBudget DEF Taking, Deciding
    <3>2. CASE jobs[t0] # "ok"
      <4>1. t0 \in Failed
        BY <1>1, <1>3, <3>2 DEF Failed
      <4>2. /\ Cardinality(Failed') = Cardinality(Failed) - 1
            /\ Cardinality(Failed) \in Nat /\ Cardinality(Failed') \in Nat
        <5>1. IsFiniteSet(Failed)
          BY Sets, Sizes
        <5> QED BY <4>1, <2>5, <5>1, FS_RemoveElement, FS_CardinalityType, Sets, Sizes
      <4>3. /\ Cardinality(Active(snaps)') <= Cardinality(Active(snaps))
            /\ Cardinality(Active(snaps)') \in Nat
        BY <2>6, Sets, Sizes
      <4>4. pc' = "replace"
        BY <2>7, <3>2
      <4> QED BY <1>1, <4>2, <4>3, <4>4, Numbers DEF Budget, Owed, Deciding, Taking
    <3> QED BY <3>1, <3>2
  <2> QED BY <2>8, <2>9, <2>10
<1>4. CASE jobs[t0] \in {"ok", "failed"} /\ ~Fresh(t0)
  <2>1. End /\ UNCHANGED <<snaps, jobs>>
    BY <1>4 DEF Verify
  <2>2. TypeOK' /\ OfThePast' /\ WorksFromList'
    BY <1>1, <2>1, Ending DEF TypeOK, Steps, OfThePast
  <2>3. Budget'
    BY <1>1, <2>1, <2>2, Ending, WithinBudget DEF Failed, Taking, Deciding
  <2> QED BY <2>2, <2>3
<1> QED BY <1>1, <1>2, <1>3, <1>4 DEF JobStates

\* The steps of a pass that delete snapshots.
LEMMA DeletionStep ==
    ASSUME IInv, ReplaceCorrupted \/ Expire \/ Trim
    PROVE  IInv'
<1> USE DEF IInv
<1>1. /\ UNCHANGED <<config, node, pod, cache, jobs, now, edits, faults, stale, broken>>
      /\ pc \in {"replace", "scan", "trim"} /\ todo' \subseteq todo
      /\ UNCHANGED snaps \/ (todo # {} /\ DeleteSnapshot(t0))
  BY DEF ReplaceCorrupted, Expire, Trim, bounds, End, Goto, Done, WorksFromList
<1>2. /\ snaps' \in [Times -> Snapshot \cup {None}]
      /\ \A u \in Times : snaps'[u] # None <=> snaps[u] # None
      /\ Active(snaps)' \subseteq Active(snaps)
  <2>1. CASE UNCHANGED snaps
    BY <2>1 DEF TypeOK
  <2>2. CASE todo # {} /\ DeleteSnapshot(t0)
    <3>1. t0 \in Times
      BY <2>2, FirstIsTodo DEF TypeOK
    <3> QED BY <2>2, <3>1, Deleting
  <2> QED BY <1>1, <2>1, <2>2
<1>3. /\ list' \in [Times -> Snapshot \cup {None}] /\ todo' \subseteq Times /\ ready' \in BOOLEAN
      /\ WorksFromList' /\ pc' \in Steps
      /\ \A t \in Times : list'[t] # None => list[t] # None
      /\ pc' \in {"idle", "start", "scan", "trim", "due"}
      /\ pc' = "start" => pc = "replace"
      /\ pc' \in {"scan", "trim", "due"} => pc \in {"scan", "trim"}
  <2>1. CASE End
    BY <2>1, Ending DEF Steps
  <2>2. CASE ReplaceCorrupted /\ ~End
    BY <2>2 DEF ReplaceCorrupted, Goto, TypeOK, WorksFromList, Steps
  <2>3. CASE Expire /\ ~End
    <3>1. pc = "scan" /\ Done(t0)
      BY <2>3 DEF Expire
    <3> QED BY <3>1, <1>1 DEF Done, TypeOK, WorksFromList, Steps
  <2>4. CASE Trim /\ ~End
    <3>1. /\ pc = "trim" /\ UNCHANGED <<list, ready>>
          /\ \/ todo = {} /\ todo' = {} /\ pc' = "due"
             \/ todo' = todo \ {t0} /\ pc' = "trim"
      BY <2>4 DEF Trim, Goto
    <3> QED BY <3>1 DEF TypeOK, WorksFromList, Steps
  <2> QED BY <2>1, <2>2, <2>3, <2>4
<1>4. TypeOK'
  BY <1>1, <1>2, <1>3 DEF TypeOK
<1>5. OfThePast'
  BY <1>1, <1>2, <1>3 DEF OfThePast
<1>6. Budget'
  BY <1>1, <1>2, <1>3, <1>4, WithinBudget DEF Failed, Taking, Deciding
<1> QED BY <1>3, <1>4, <1>5, <1>6

\* The steps of a pass that neither touch snapshots nor checks.
LEMMA QuietStep ==
    ASSUME IInv, Retain \/ Due \/ StopNode \/ Annotate \/ EnsurePod \/ SetNodePhase
    PROVE  IInv'
<1> USE DEF IInv
<1>1. UNCHANGED <<config, snaps, cache, jobs, now, edits, faults, stale, broken>>
  BY DEF Retain, Due, StopNode, Annotate, EnsurePod, SetNodePhase, bounds
<1>2. /\ pod' \in {"none", "starting", "ready"}
      /\ node' \in [inProgress : BOOLEAN, last : 0..now,
                    phase : {"Running", "Syncing", "Snapshotting", "Restarting"}]
  <2>1. CASE Retain \/ Due \/ StopNode
    BY <2>1 DEF Retain, Due, StopNode, TypeOK
  <2>2. CASE Annotate \/ EnsurePod
    <3>1. CASE Annotate
      BY <3>1 DEF Annotate, TypeOK
    <3>2. CASE EnsurePod
      <4>1. /\ pod' \in {pod, "starting"}
            /\ node' = node \/ node' = [node EXCEPT !.phase = "Restarting"]
        BY <3>2 DEF EnsurePod
      <4> QED BY <4>1 DEF TypeOK
    <3> QED BY <2>2, <3>1, <3>2
  <2>3. CASE SetNodePhase
    BY <2>3 DEF SetNodePhase, TypeOK
  <2> QED BY <2>1, <2>2, <2>3
<1>3. /\ list' \in [Times -> Snapshot \cup {None}] /\ todo' \subseteq Times /\ ready' \in BOOLEAN
      /\ WorksFromList' /\ pc' \in Steps
      /\ \A t \in Times : list'[t] # None => list[t] # None \/ cache[t] # None
  <2>1. CASE End
    BY <2>1, Ending DEF Steps
  <2>2. CASE Retain
    <3>1. CASE config.retain = 0
      BY <2>2, <3>1 DEF Retain, Goto, TypeOK, WorksFromList, Steps
    <3>2. CASE config.retain # 0
      <4>1. /\ list' = cache /\ todo' \subseteq Existing(cache) /\ pc' = "trim" /\ ready' = ready
        BY <2>2, <3>2 DEF Retain
      <4> QED BY <4>1 DEF TypeOK, WorksFromList, Steps, Existing
    <3> QED BY <3>1, <3>2
  <2>3. CASE Due
    <3>1. /\ todo = {} /\ todo' = {} /\ list' = NoSnapshots /\ ready' = ready
          /\ pc' \in {"start", "pod"}
      BY <2>3 DEF Due, WorksFromList
    <3> QED BY <3>1 DEF NoSnapshots, TypeOK, WorksFromList, Steps
  <2>4. CASE StopNode \/ Annotate \/ (EnsurePod /\ ~End)
    BY <2>4 DEF StopNode, Annotate, EnsurePod, Goto, TypeOK, WorksFromList, Steps
  <2>5. CASE SetNodePhase
    BY <2>1, <2>5 DEF SetNodePhase
  <2> QED BY <2>1, <2>2, <2>3, <2>4, <2>5
<1>4. TypeOK'
  BY <1>1, <1>2, <1>3 DEF TypeOK
<1>5. OfThePast'
  BY <1>1, <1>3 DEF OfThePast
<1>6. /\ pc' \in Taking => pc \in Taking \/ (pc \in Deciding /\ ~node.inProgress)
      /\ pc' \in Deciding /\ ~node'.inProgress => pc \in Deciding /\ ~node.inProgress
  BY DEF Retain, Due, StopNode, Annotate, EnsurePod, SetNodePhase, Goto, End, Taking, Deciding
<1>7. Budget'
  BY <1>1, <1>4, <1>6, WithinBudget DEF Failed
<1> QED BY <1>3, <1>4, <1>5, <1>7

\* A snapshot is only created where the budget has room for it.
LEMMA CreateSnapshotStep ==
    ASSUME IInv, CreateSnapshot
    PROVE  IInv'
<1> USE DEF IInv
<1>1. /\ pc = "height" /\ now \in Times
      /\ UNCHANGED <<config, node, pod, cache, jobs, now, edits, faults, stale, broken>>
  BY DEF CreateSnapshot, TypeOK, bounds
<1>2. CASE UNCHANGED snaps /\ (Goto("pod") \/ End)
  <2>1. /\ list' \in [Times -> Snapshot \cup {None}] /\ todo' \subseteq Times /\ ready' \in BOOLEAN
        /\ pc' \in {"idle", "pod"} /\ WorksFromList'
        /\ \A t \in Times : list'[t] # None => list[t] # None
    <3>1. CASE End
      BY <3>1, Ending
    <3>2. CASE Goto("pod")
      BY <1>1, <3>2 DEF Goto, TypeOK, WorksFromList
    <3> QED BY <1>2, <3>1, <3>2
  <2>2. TypeOK' /\ OfThePast'
    BY <1>1, <1>2, <2>1 DEF TypeOK, Steps, OfThePast
  <2>3. Budget'
    BY <1>1, <1>2, <2>1, <2>2, WithinBudget DEF Failed, Taking, Deciding
  <2> QED BY <2>1, <2>2, <2>3
<1>3. CASE /\ snaps' = [snaps EXCEPT ![now] =
                          [status |-> "new", marked |-> FALSE, check |-> "pending",
                           deleting |-> FALSE, ttl |-> config.retention]]
           /\ Goto("annotate")
  <2> DEFINE s == [status |-> "new", marked |-> FALSE, check |-> "pending",
                   deleting |-> FALSE, ttl |-> config.retention]
  <2>1. config.retention \in Nat
    BY SnapshotsAssumption DEF TypeOK, Config
  <2>2. s \in Snapshot /\ s # None
    BY <2>1 DEF Snapshot, None
  <2>3. /\ snaps' \in [Times -> Snapshot \cup {None}]
        /\ snaps'[now] = s /\ \A u \in Times \ {now} : snaps'[u] = snaps[u]
    BY <1>1, <1>3, <2>2 DEF TypeOK
  <2> HIDE DEF s
  <2>4. pc' = "annotate" /\ UNCHANGED <<list, todo, ready>>
    BY <1>3 DEF Goto
  <2>5. TypeOK'
    BY <1>1, <2>2, <2>3, <2>4 DEF TypeOK, Steps
  <2>6. OfThePast' /\ WorksFromList'
    BY <1>1, <2>3, <2>4 DEF OfThePast, WorksFromList, TypeOK, Times
  <2>7. Budget'
    <3>1. Active(snaps)' \subseteq Active(snaps) \cup {now}
      BY <2>3 DEF Active, Existing
    <3>2. /\ Cardinality(Active(snaps)') <= Cardinality(Active(snaps)) + 1
          /\ Cardinality(Active(snaps)') \in Nat
      BY <1>1, <3>1, Sets, OneMore
    <3>3. Failed' = Failed
      BY <1>1 DEF Failed
    <3> QED BY <1>1, <2>4, <3>2, <3>3, Numbers DEF Budget, Owed, Taking, Deciding
  <2> QED BY <2>5, <2>6, <2>7
<1> QED BY <1>2, <1>3 DEF CreateSnapshot

\* Failed calls, the watch, time, pods and edits.
LEMMA SurroundingsStep ==
    ASSUME IInv, Abort \/ Sync \/ Tick \/ PodReady \/ Edit
    PROVE  IInv'
<1> USE DEF IInv
<1>1. CASE Abort
  <2>1. /\ End /\ UNCHANGED <<config, node, pod, snaps, cache, jobs, now, edits, stale, broken>>
        /\ faults' \in 0..MaxEvents
    BY <1>1, Events DEF Abort
  <2>2. TypeOK' /\ OfThePast' /\ WorksFromList'
    BY <2>1, Ending DEF TypeOK, Steps, OfThePast
  <2>3. Budget'
    BY <2>1, <2>2, Ending, WithinBudget DEF Failed, Taking, Deciding
  <2> QED BY <2>2, <2>3
<1>2. CASE Sync \/ Tick \/ PodReady \/ Edit
  <2>1. UNCHANGED <<node, snaps, jobs, pc, list, todo, ready, faults, stale, broken>>
    BY <1>2 DEF Sync, Tick, PodReady, Edit, pass, bounds
  <2>2. /\ config' \in Configs /\ pod' \in {"none", "starting", "ready"}
        /\ cache' \in [Times -> Snapshot \cup {None}]
        /\ \A t \in Times : cache'[t] # None => cache[t] # None \/ snaps[t] # None
        /\ edits' \in 0..MaxEvents
    <3>1. CASE Sync
      BY <3>1 DEF Sync, bounds, TypeOK
    <3>2. CASE Tick
      BY <3>2 DEF Tick, bounds, TypeOK
    <3>3. CASE PodReady
      BY <3>3 DEF PodReady, bounds, TypeOK
    <3>4. CASE Edit
      BY <3>4, Events DEF Edit, bounds, TypeOK
    <3> QED BY <1>2, <3>1, <3>2, <3>3, <3>4
  <2>3. now' \in Times /\ now <= now' /\ now \in Times
    BY <1>2, SnapshotsAssumption DEF Sync, Tick, PodReady, Edit, TypeOK, Times
  <2>4. node.last \in 0..now'
    BY <2>3 DEF TypeOK, Times
  <2>5. node' \in [inProgress : BOOLEAN, last : 0..now',
                   phase : {"Running", "Syncing", "Snapshotting", "Restarting"}]
    BY <2>1, <2>4 DEF TypeOK
  <2>6. TypeOK'
    BY <2>1, <2>2, <2>3, <2>5 DEF TypeOK
  <2>7. OfThePast' /\ WorksFromList'
    <3>1. \A t \in Times : snaps'[t] # None \/ cache'[t] # None \/ list'[t] # None
                           => snaps[t] # None \/ cache[t] # None \/ list[t] # None
      BY <2>1, <2>2
    <3>2. OfThePast'
      BY <2>3, <3>1 DEF OfThePast, Times
    <3>3. WorksFromList'
      BY <2>1 DEF WorksFromList, Existing
    <3> QED BY <3>2, <3>3
  <2>8. Budget'
    BY <2>1, <2>6, WithinBudget DEF Failed
  <2> QED BY <2>6, <2>7, <2>8
<1> QED BY <1>1, <1>2

\* Snapshots become ready or go away.
LEMMA StorageStep ==
    ASSUME IInv, NEW t \in Times, Progress(t) \/ Gone(t)
    PROVE  IInv'
<1> USE DEF IInv
<1>1. UNCHANGED <<config, node, pod, cache, now, pc, list, todo, ready, edits, faults, stale, broken>>
  BY DEF Progress, Gone, pass, bounds
<1>2. /\ snaps' \in [Times -> Snapshot \cup {None}]
      /\ jobs' \in [Times -> JobStates]
      /\ \A u \in Times : snaps'[u] # None => snaps[u] # None
      /\ \A u \in Times : jobs'[u] # "none" => snaps'[u] # None
      /\ Active(snaps)' \subseteq Active(snaps)
      /\ Failed' \subseteq Failed
  <2>1. CASE Progress(t)
    <3>1. PICK v \in {"sized", "ready"} :
             /\ snaps' = [snaps EXCEPT ![t].status = v] /\ UNCHANGED jobs
             /\ snaps[t] # None /\ ~snaps[t].deleting /\ snaps[t].status # "ready"
      BY <2>1 DEF Progress
    <3> DEFINE s == [snaps[t] EXCEPT !.status = v]
    <3>2. snaps[t] \in Snapshot
      BY <3>1 DEF TypeOK
    <3>3. s \in Snapshot /\ s # None
      BY <3>2 DEF Snapshot, None
    <3>4. /\ snaps' \in [Times -> Snapshot \cup {None}]
          /\ snaps'[t] = s /\ \A u \in Times \ {t} : snaps'[u] = snaps[u]
      BY <3>1, <3>3 DEF TypeOK
    <3> HIDE DEF s
    <3> QED BY <3>1, <3>3, <3>4 DEF TypeOK, Active, Existing, Failed
  <2>2. CASE Gone(t)
    <3>1. /\ snaps' = [snaps EXCEPT ![t] = None] /\ jobs' = [jobs EXCEPT ![t] = "none"]
      BY <2>2 DEF Gone
    <3>2. /\ snaps'[t] = None /\ \A u \in Times \ {t} : snaps'[u] = snaps[u]
          /\ jobs'[t] = "none" /\ \A u \in Times \ {t} : jobs'[u] = jobs[u]
          /\ snaps' \in [Times -> Snapshot \cup {None}]
          /\ jobs' \in [Times -> JobStates]
      BY <3>1 DEF TypeOK, JobStates
    <3> QED BY <3>2 DEF TypeOK, Active, Existing, Failed
  <2> QED BY <2>1, <2>2
<1>3. TypeOK'
  BY <1>1, <1>2 DEF TypeOK
<1>4. OfThePast' /\ WorksFromList'
  BY <1>1, <1>2 DEF OfThePast, WorksFromList
<1>5. Budget'
  BY <1>1, <1>2, <1>3, WithinBudget
<1> QED BY <1>3, <1>4, <1>5

\* A check that fails is counted in the budget.
LEMMA JobStep ==
    ASSUME IInv, NEW t \in Times, JobFinishes(t) \/ JobExpires(t)
    PROVE  IInv'
<1> USE DEF IInv
<1>1. /\ UNCHANGED <<config, node, pod, snaps, cache, now, pc, list, todo, ready, edits, faults, stale>>
      /\ jobs[t] # "none"
  BY DEF JobFinishes, JobExpires, pass, bounds
<1>2. PICK v \in {"ok", "failed", "none"} :
         /\ jobs' = [jobs EXCEPT ![t] = v]
         /\ broken' = IF v = "failed" THEN broken + 1 ELSE broken
         /\ v = "failed" => MoreEvents
  BY DEF JobFinishes, JobExpires, bounds
<1>3. /\ jobs' \in [Times -> JobStates] /\ jobs'[t] = v
      /\ \A u \in Times \ {t} : jobs'[u] = jobs[u]
  BY <1>2 DEF TypeOK, JobStates
<1>4. broken' \in 0..MaxEvents
  BY <1>2, Events DEF TypeOK
<1>5. TypeOK'
  BY <1>1, <1>3, <1>4 DEF TypeOK
<1>6. OfThePast' /\ WorksFromList'
  BY <1>1 DEF OfThePast, WorksFromList
<1>7. Budget'
  <2>1. CASE v = "failed"
    <3>1. Failed' \subseteq Failed \cup {t}
      BY <1>3 DEF Failed
    <3>2. Cardinality(Failed') <= Cardinality(Failed) + 1 /\ Cardinality(Failed') \in Nat
      BY <3>1, Sets, OneMore
    <3>3. broken' = broken + 1 /\ stale' = stale /\ Active(snaps)' = Active(snaps)
      BY <1>1, <1>2, <2>1
    <3> QED BY <1>1, <3>2, <3>3, Numbers DEF Budget, Owed
  <2>2. CASE v # "failed"
    <3>1. Failed' \subseteq Failed
      BY <1>3, <2>2 DEF Failed
    <3> QED BY <1>1, <1>2, <1>5, <2>2, <3>1, WithinBudget
  <2> QED BY <2>1, <2>2
<1> QED BY <1>5, <1>6, <1>7

LEMMA IInvStep ==
    ASSUME IInv, [Next]_vars
    PROVE  IInv'
<1>1. CASE Reconcile
  BY <1>1, BeginStep, RepairPhaseStep, MarkReadyStep, RecordStep, StartCheckStep,
     VerifyStep, DeletionStep, QuietStep, CreateSnapshotStep DEF Reconcile
<1>2. CASE Abort \/ Sync \/ Tick \/ PodReady \/ Edit
  BY <1>2, SurroundingsStep
<1>3. CASE \E t \in Times : Storage(t) \/ JobExpires(t)
  BY <1>3, StorageStep, JobStep DEF Storage
<1>4. CASE UNCHANGED vars
  <2>1. UNCHANGED <<config, node, pod, snaps, cache, jobs, now, pc, list, todo, ready,
                    edits, faults, stale, broken>>
    BY <1>4 DEF vars, pass, bounds
  <2>2. TypeOK' /\ OfThePast' /\ WorksFromList'
    BY <2>1 DEF IInv, TypeOK, OfThePast, WorksFromList
  <2>3. Budget'
    BY <2>1, <2>2, WithinBudget DEF IInv, Failed
  <2> QED BY <2>2, <2>3 DEF IInv
<1> QED BY <1>1, <1>2, <1>3, <1>4 DEF Next

-----------------------------------------------------------------------------
(* The theorems *)

\* IInv is an inductive invariant of Snapshots.
THEOREM Invariance == Spec => []IInv
<1>1. Init => IInv
  <2> SUFFICES ASSUME Init PROVE IInv
    OBVIOUS
  <2>1. 0 \in 0..MaxEvents /\ 1 \in Times /\ 0 \in 0..now
    BY SnapshotsAssumption DEF Init, Times
  <2>2. /\ snaps \in [Times -> Snapshot \cup {None}] /\ cache = snaps /\ list = snaps
        /\ \A t \in Times : snaps[t] = None
    BY DEF Init, NoSnapshots
  <2>3. /\ jobs \in [Times -> JobStates] /\ \A t \in Times : jobs[t] = "none"
    BY DEF Init, JobStates
  <2>4. node \in [inProgress : BOOLEAN, last : 0..now,
                  phase : {"Running", "Syncing", "Snapshotting", "Restarting"}]
    BY <2>1 DEF Init
  <2>5. TypeOK
    BY <2>1, <2>2, <2>3, <2>4 DEF TypeOK, Init, Steps
  <2>6. OfThePast /\ WorksFromList
    BY <2>2 DEF OfThePast, WorksFromList, Init
  <2>7. Active(snaps) = {} /\ Failed = {}
    BY <2>2, <2>3 DEF Active, Existing, Failed
  <2>8. Budget
    BY <2>7, FS_EmptySet DEF Budget, Owed, Init, Taking, Deciding
  <2> QED BY <2>5, <2>6, <2>8 DEF IInv
<1>2. IInv /\ [Next]_vars => IInv'
  BY IInvStep
<1> QED BY <1>1, <1>2, PTL DEF Spec

\* Every variable keeps its type: ensureVolumeSnapshots never records a snapshot
\* of the future and verifies only snapshots that exist.
THEOREM TypeCorrect == Spec => []TypeOK
<1>1. IInv => TypeOK
  BY DEF IInv
<1> QED BY <1>1, Invariance, PTL

\* startNewSnapshot never has more snapshots in progress than one, plus one for
\* every stale list a pass worked from and every corrupted snapshot it replaced,
\* whatever calls fail between creating a snapshot and recording it.
THEOREM NoSnapshotUnaccountedFor == Spec => []OneAtATime
<1>1. IInv => OneAtATime
  <2> SUFFICES ASSUME IInv PROVE OneAtATime
    OBVIOUS
  <2>1. InFlight = Active(snaps)
    BY DEF InFlight, Active, Existing
  <2> QED BY <2>1, Numbers DEF IInv, Budget, Owed, OneAtATime
<1> QED BY <1>1, Invariance, PTL

=============================================================================
