-------------------------- MODULE NodeGroupsProofs --------------------------
(***************************************************************************)
(* That a pass over a ChainNodeSet deletes only children its spec does not *)
(* ask for, but for those a conversion races with: for any number and size *)
(* of groups, any edits, any lag of the cache and any faults.              *)
(*                                                                         *)
(* What a deletion rests on was worked out several calls earlier.  The     *)
(* invariant says that every call still to be made is justified by the     *)
(* spec and the list of the pass, neither of which changes before the call *)
(* is made.                                                                *)
(***************************************************************************)
EXTENDS NodeGroups, FiniteSetTheorems, SequenceTheorems, TLAPS

(* The calls a pass works out *)

LEMMA FunctionIsSeq ==
    ASSUME NEW S, NEW n \in Nat, NEW f \in [1..n -> S]
    PROVE  f \in Seq(S) /\ Len(f) = n
  OBVIOUS

LEMMA GroupSeqType ==
    /\ Len(GroupSeq) \in Nat
    /\ \A j \in 1..Len(GroupSeq) : GroupSeq[j] \in Groups
  BY NodeGroupsAssumption DEF Groups

\* A group has at most as many children as there are names for them.
LEMMA MembersBound ==
    ASSUME NEW l, NEW g
    PROVE  Cardinality(Members(l, g)) \in 0..MaxSize
<1> DEFINE f == [c \in Members(l, g) |-> c[2]]
           I == 0..(MaxSize - 1)
<1>1. f \in Injection(Members(l, g), I)
  BY DEF Injection, IsInjective, Members, Names
<1>2. IsFiniteSet(I) /\ Cardinality(I) = MaxSize
  BY FS_Interval, NodeGroupsAssumption
<1> HIDE DEF f, I
<1>3. IsFiniteSet(Members(l, g)) /\ Cardinality(Members(l, g)) <= MaxSize
  BY <1>1, <1>2, FS_Injection
<1>4. Cardinality(Members(l, g)) \in Nat
  BY <1>3, FS_CardinalityType
<1> QED
  BY <1>3, <1>4, NodeGroupsAssumption

\* The calls that do not take the list again.
Lasting == {call \in Justified : call.op # "nodes"}

LEMMA EnsureIsLasting ==
    ASSUME NEW c \in Names, NEW kind \in {"regular", "validator"}
    PROVE  Ensure(c, kind) \in Lasting
  BY DEF Ensure, Lasting, Justified, Call

LEMMA DeleteIsLasting ==
    ASSUME NEW C \in SUBSET Names, \A c \in C : Unwanted(c)
    PROVE  Delete(C) \in Lasting
  BY DEF Delete, Lasting, Justified, Call

LEMMA EnsureAllIsLasting ==
    ASSUME TypeOK, NEW g \in Groups, seen[g].kind \in {"regular", "validator"}
    PROVE  EnsureAll(seen, g) \in Seq(Lasting)
<1>1. seen[g].size \in 0..MaxSize
  BY DEF TypeOK, Group
<1>2. ASSUME NEW i \in 1..seen[g].size
      PROVE  Ensure(<<g, i - 1>>, seen[g].kind) \in Lasting
  <2>1. <<g, i - 1>> \in Names
    BY <1>1, <1>2, NodeGroupsAssumption DEF Names
  <2> QED
    BY <2>1, EnsureIsLasting
<1>3. EnsureAll(seen, g) \in [1..seen[g].size -> Lasting]
  BY <1>2 DEF EnsureAll
<1> QED
  BY <1>1, <1>3, FunctionIsSeq

LEMMA ValidatorGroupIsLasting ==
    ASSUME TypeOK, NEW g \in Groups
    PROVE  EnsureValidatorGroup(g) \in Seq(Lasting)
<1>1. CASE seen[g].kind = "validator"
  BY <1>1, EnsureAllIsLasting DEF EnsureValidatorGroup
<1>2. CASE seen[g].kind # "validator"
  BY <1>2 DEF EnsureValidatorGroup
<1> QED
  BY <1>1, <1>2

\* Instances are removed down to the size the spec asks for, so that none below it is.
LEMMA NodeGroupIsLasting ==
    ASSUME TypeOK, NEW g \in Groups
    PROVE  EnsureNodeGroup(g) \in Seq(Lasting)
<1> DEFINE current == Cardinality(Members(cache, g))
           desired == seen[g].size
           n == IF current > desired THEN current - desired ELSE 0
           removals == [j \in 1..n |-> Delete({<<g, current - j>>})]
<1>1. CASE seen[g].kind # "regular"
  BY <1>1 DEF EnsureNodeGroup
<1>2. CASE seen[g].kind = "regular"
  <2>1. current \in 0..MaxSize /\ desired \in 0..MaxSize /\ MaxSize \in Nat
    BY MembersBound, NodeGroupsAssumption DEF TypeOK, Group
  <2>2. EnsureNodeGroup(g) = removals \o EnsureAll(seen, g)
    BY <1>2 DEF EnsureNodeGroup
  <2> HIDE DEF current
  <2>3. n \in Nat
    BY <2>1
  <2>4. ASSUME NEW j \in 1..n
        PROVE  Delete({<<g, current - j>>}) \in Lasting
    <3>1. current - j \in 0..(MaxSize - 1) /\ ~(current - j < desired)
      BY <2>1
    <3>2. <<g, current - j>> \in Names /\ Unwanted(<<g, current - j>>)
      BY <3>1 DEF Names, Unwanted, Desired
    <3> QED
      BY <3>2, DeleteIsLasting
  <2> HIDE DEF n, desired
  <2>5. removals \in Seq(Lasting)
    BY <2>3, <2>4, FunctionIsSeq
  <2> HIDE DEF removals
  <2>6. EnsureAll(seen, g) \in Seq(Lasting)
    BY <1>2, EnsureAllIsLasting
  <2> QED
    BY <2>2, <2>5, <2>6, ConcatProperties
<1> QED
  BY <1>1, <1>2

LEMMA RemoveGroupIsLasting ==
    ASSUME TypeOK, NEW g \in Groups, seen[g].kind = "absent"
    PROVE  RemoveGroup(g) \in Seq(Lasting)
<1> DEFINE n == Cardinality(Members(list, g))
<1>1. n \in 0..MaxSize /\ MaxSize \in Nat
  BY MembersBound, NodeGroupsAssumption
<1> HIDE DEF n
<1>2. ASSUME NEW j \in 1..n
      PROVE  Delete({<<g, j - 1>>}) \in Lasting
  <2>1. j - 1 \in 0..(MaxSize - 1)
    BY <1>1
  <2>2. <<g, j - 1>> \in Names /\ Unwanted(<<g, j - 1>>)
    BY <2>1 DEF Names, Unwanted, Desired
  <2> QED
    BY <2>2, DeleteIsLasting
<1>3. RemoveGroup(g) = [j \in 1..n |-> Delete({<<g, j - 1>>})]
  BY DEF RemoveGroup, n
<1> QED
  BY <1>1, <1>2, <1>3, FunctionIsSeq

LEMMA PruneIsLasting ==
    Delete(StaleValidators(cache)) \in Lasting
<1>1. \A c \in StaleValidators(cache) : c \in Names /\ Unwanted(c)
  BY DEF StaleValidators, Unwanted
<1> QED
  BY <1>1, DeleteIsLasting

LEMMA ConvertedIsLasting ==
    ASSUME TypeOK
    PROVE  Delete(Converted) \in Lasting
<1>1. \A c \in Converted : c \in Names /\ Unwanted(c)
  BY DEF Converted, Unwanted, TypeOK, Child, None
<1> QED
  BY <1>1, DeleteIsLasting

----------------------------------------------------------------------------
(* The steps *)

\* The part of the invariant that is about the calls to make.
Calls == /\ todo \in Seq(Call)
         /\ todo \in Seq(Justified)
         /\ \A j \in 1..(Len(todo) - 1) : todo[j].op # "nodes"

LEMMA NoCallsLeft == ASSUME todo' = <<>> PROVE Calls'
  BY DEF Calls

\* The first call makes room for calls that follow from it.
LEMMA ThenKeeps ==
    ASSUME IInv, todo # <<>>, NEW calls \in Seq(Lasting), Then(calls), UNCHANGED <<seen, list>>
    PROVE  Calls'
<1> DEFINE rest == Tail(todo)
<1>1. /\ todo \in Seq(Justified) /\ Len(todo) \in Nat
      /\ rest \in Seq(Justified) /\ Len(rest) = Len(todo) - 1
      /\ \A j \in 1..Len(rest) : rest[j] = todo[j + 1]
  BY HeadTailProperties DEF IInv
<1>2. \A j \in 1..(Len(rest) - 1) : rest[j].op # "nodes"
  BY <1>1 DEF IInv
<1>3. Justified' = Justified /\ Justified \subseteq Call /\ Lasting \subseteq Justified
  BY DEF Justified, Unwanted, Desired, Lasting
<1>4. calls \in Seq(Justified) /\ Len(calls) \in Nat /\ \A j \in 1..Len(calls) : calls[j].op # "nodes"
  <2>1. \A j \in 1..Len(calls) : calls[j] \in Lasting
    BY ElementOfSeq
  <2> QED
    BY <1>3, <2>1, SeqMonotonic, LenProperties DEF Lasting
<1> HIDE DEF rest
<1>5. /\ calls \o rest \in Seq(Justified)
      /\ Len(calls \o rest) = Len(calls) + Len(rest)
      /\ \A j \in 1..(Len(calls) + Len(rest)) :
           (calls \o rest)[j] = IF j <= Len(calls) THEN calls[j] ELSE rest[j - Len(calls)]
  BY <1>1, <1>4, ConcatProperties
<1>6. todo' = calls \o rest
  BY DEF Then, rest
<1>7. todo' \in Seq(Call)
  BY <1>3, <1>5, <1>6, SeqMonotonic
<1>8. ASSUME NEW j \in 1..(Len(todo') - 1)
      PROVE  todo'[j].op # "nodes"
  <2>1. CASE j <= Len(calls)
    BY <1>1, <1>4, <1>5, <1>6, <2>1
  <2>2. CASE ~(j <= Len(calls))
    <3>1. j - Len(calls) \in 1..(Len(rest) - 1)
      BY <1>1, <1>4, <1>5, <1>6, <2>2
    <3> QED
      BY <1>1, <1>2, <1>4, <1>5, <1>6, <2>2, <3>1
  <2> QED
    BY <2>1, <2>2
<1> QED
  BY <1>3, <1>5, <1>6, <1>7, <1>8 DEF Calls

LEMMA OneCall == ASSUME NEW call \in Lasting PROVE <<call>> \in Seq(Lasting) /\ <<>> \in Seq(Lasting)
  OBVIOUS

LEMMA OpType ==
    ASSUME IInv, todo # <<>>
    PROVE  op \in Justified /\ op \in Call
  BY HeadTailProperties DEF IInv, Justified, op

LEMMA BeginStep == ASSUME IInv, Begin PROVE IInv'
<1> DEFINE all == [j \in 1..Len(GroupSeq) |-> [op |-> "validators", group |-> GroupSeq[j]]]
           end == <<[op |-> "prune"], [op |-> "nodes"]>>
           J == Justified'
<1>1. all \in Seq(J) /\ Len(all) = Len(GroupSeq)
      /\ \A j \in 1..Len(GroupSeq) : all[j].op # "nodes"
  <2>1. \A j \in 1..Len(GroupSeq) : [op |-> "validators", group |-> GroupSeq[j]] \in J
    BY GroupSeqType DEF Justified, Call
  <2> QED
    BY <2>1, GroupSeqType, FunctionIsSeq
<1>2. end \in Seq(J) /\ Len(end) = 2 /\ end[1].op = "prune"
  BY DEF Justified, Call
<1>a. J \subseteq Call
  BY DEF Justified
<1>b. J = Justified'
  OBVIOUS
<1> HIDE DEF all, end, J
<1>3. todo' = all \o end
  BY DEF Begin, EnsureValidator, all, end
<1>4. /\ todo' \in Seq(J)
      /\ Len(todo') = Len(GroupSeq) + 2
      /\ \A j \in 1..(Len(GroupSeq) + 2) :
           todo'[j] = IF j <= Len(GroupSeq) THEN all[j] ELSE end[j - Len(GroupSeq)]
  <2>1. /\ all \o end \in Seq(J)
        /\ Len(all \o end) = Len(all) + Len(end)
        /\ \A j \in 1..(Len(all) + Len(end)) :
             (all \o end)[j] = IF j <= Len(all) THEN all[j] ELSE end[j - Len(all)]
    BY <1>1, <1>2, ConcatProperties
  <2> QED
    BY <1>1, <1>2, <1>3, <2>1
<1>5. todo' \in Seq(Call)
  BY <1>a, <1>4, SeqMonotonic
<1>6. \A j \in 1..(Len(todo') - 1) : todo'[j].op # "nodes"
  <2>1. ASSUME NEW j \in 1..Len(GroupSeq)
        PROVE  todo'[j].op # "nodes"
    BY <1>1, <1>4, GroupSeqType
  <2>2. todo'[Len(GroupSeq) + 1].op # "nodes"
    BY <1>2, <1>4, GroupSeqType
  <2>3. \A j \in 1..(Len(todo') - 1) : j \in 1..Len(GroupSeq) \/ j = Len(GroupSeq) + 1
    BY <1>4, GroupSeqType
  <2> QED
    BY <2>1, <2>2, <2>3
<1>7. TypeOK'
  BY <1>5 DEF Begin, IInv, TypeOK, bounds, Child
<1> QED
  BY <1>b, <1>4, <1>6, <1>7 DEF IInv

LEMMA NodesStep ==
    ASSUME IInv, todo # <<>>, op.op = "nodes", Then(EnsureNodes(cache)),
           list' = cache, UNCHANGED seen
    PROVE  Calls'
<1> DEFINE all == [j \in 1..Len(GroupSeq) |-> [op |-> "group", group |-> GroupSeq[j]]]
           gone == {g \in Groups : seen[g].kind = "absent" /\ Members(cache, g) # {}}
           end == <<[op |-> "removed", groups |-> gone], [op |-> "converted"]>>
<1>1. all \in Seq(Lasting')
  <2>1. \A j \in 1..Len(GroupSeq) : [op |-> "group", group |-> GroupSeq[j]] \in Lasting'
    BY GroupSeqType DEF Lasting, Justified, Call
  <2> QED
    BY <2>1, GroupSeqType, FunctionIsSeq
<1>2. end \in Seq(Lasting')
  BY DEF Lasting, Justified, Call
<1>3. EnsureNodes(cache) = all \o end
  BY DEF EnsureNodes
<1> HIDE DEF all, end
<1>4. all \o end \in Seq(Lasting')
  BY <1>1, <1>2, ConcatProperties
<1>5. Tail(todo) = <<>>
  <2>1. todo \in Seq(Justified)
    BY DEF IInv
  <2>2. todo[1].op = "nodes" /\ Len(todo) \in Nat \ {0}
    BY <2>1, EmptySeq DEF op
  <2>3. Len(todo) = 1
    <3>1. 1 \notin 1..(Len(todo) - 1)
      BY <2>2, Zenon DEF IInv
    <3>2. \A n \in Nat \ {0} : 1 \notin 1..(n - 1) => n = 1
      OBVIOUS
    <3> QED
      BY <2>2, <3>1, <3>2, Zenon
  <2>4. Tail(todo) \in Seq(Justified) /\ Len(Tail(todo)) = 0
    BY <2>1, <2>3, HeadTailProperties
  <2> QED
    BY <2>4, EmptySeq
<1>6. todo' = all \o end
  BY <1>3, <1>4, <1>5, ConcatEmptySeq DEF Then
<1>7. todo' \in Seq(Justified')
  BY <1>4, <1>6, SeqMonotonic DEF Lasting
<1>8. todo' \in Seq(Call)
  BY <1>7, SeqMonotonic DEF Justified
<1>9. \A j \in 1..Len(todo') : todo'[j].op # "nodes"
  BY <1>4, <1>6, ElementOfSeq DEF Lasting
<1> QED
  BY <1>7, <1>8, <1>9, LenProperties DEF Calls

LEMMA ListNodesStep == ASSUME IInv, ListNodes PROVE IInv'
<1>1. op \in Call /\ todo # <<>> /\ UNCHANGED seen
  BY OpType DEF ListNodes
<1>2. Calls'
  <2>1. CASE op.op = "validators" /\ Then(EnsureValidatorGroup(op.group)) /\ UNCHANGED list
    <3>1. op.group \in Groups
      BY <1>1, <2>1 DEF Call
    <3> QED
      BY <1>1, <2>1, <3>1, ValidatorGroupIsLasting, ThenKeeps DEF IInv
  <2>2. CASE op.op = "prune" /\ Then(<<Delete(StaleValidators(cache))>>) /\ UNCHANGED list
    BY <1>1, <2>2, PruneIsLasting, OneCall, ThenKeeps
  <2>3. CASE op.op = "nodes" /\ Then(EnsureNodes(cache)) /\ list' = cache
    BY <1>1, <2>3, NodesStep
  <2>4. CASE op.op = "group" /\ Then(EnsureNodeGroup(op.group)) /\ UNCHANGED list
    <3>1. op.group \in Groups
      BY <1>1, <2>4 DEF Call
    <3> QED
      BY <1>1, <2>4, <3>1, NodeGroupIsLasting, ThenKeeps DEF IInv
  <2>5. CASE op.op = "converted" /\ Then(<<Delete(Converted)>>) /\ UNCHANGED list
    BY <1>1, <2>5, ConvertedIsLasting, OneCall, ThenKeeps DEF IInv
  <2> QED
    BY <2>1, <2>2, <2>3, <2>4, <2>5 DEF ListNodes
<1>3. TypeOK'
  <2>1. list' \in [Names -> Child]
    BY DEF ListNodes, IInv, TypeOK
  <2> QED
    BY <1>2, <2>1 DEF ListNodes, Calls, IInv, TypeOK, bounds
<1> QED
  BY <1>2, <1>3 DEF IInv, Calls

LEMMA RemoveGroupsStep == ASSUME IInv, RemoveGroups PROVE IInv'
<1>1. op \in Justified /\ op \in Call /\ op.op = "removed" /\ todo # <<>> /\ UNCHANGED <<seen, list>>
  BY OpType DEF RemoveGroups
<1>2. op.groups \in SUBSET Groups /\ \A g \in op.groups : seen[g].kind = "absent"
  BY <1>1 DEF Justified, Call
<1>3. op = [op |-> "removed", groups |-> op.groups]
  BY <1>1 DEF Call
<1>4. Calls'
  <2>1. CASE Then(<<>>)
    BY <1>1, <2>1, ThenKeeps, EmptySeq
  <2>2. ASSUME NEW g \in op.groups, Then(RemoveGroup(g) \o <<[op EXCEPT !.groups = @ \ {g}]>>)
        PROVE  Calls'
    <3> DEFINE rest == [op EXCEPT !.groups = @ \ {g}]
    <3>1. rest = [op |-> "removed", groups |-> op.groups \ {g}]
      BY <1>3
    <3>2. rest \in Lasting
      BY <1>2, <3>1 DEF Lasting, Justified, Call
    <3> HIDE DEF rest
    <3>3. RemoveGroup(g) \in Seq(Lasting)
      BY <1>2, RemoveGroupIsLasting DEF IInv
    <3>4. RemoveGroup(g) \o <<rest>> \in Seq(Lasting)
      BY <3>2, <3>3, OneCall, ConcatProperties
    <3> QED
      BY <1>1, <2>2, <3>4, ThenKeeps DEF rest
  <2> QED
    BY <2>1, <2>2 DEF RemoveGroups
<1>5. TypeOK'
  BY <1>4 DEF RemoveGroups, Calls, IInv, TypeOK, bounds
<1> QED
  BY <1>4, <1>5 DEF IInv, Calls

LEMMA EnsureNodeStep == ASSUME IInv, EnsureNode PROVE IInv'
<1>1. op \in Call /\ op.op = "ensure" /\ todo # <<>> /\ UNCHANGED <<seen, list>>
  BY OpType DEF EnsureNode
<1>2. op.name \in Names /\ op.kind \in {"regular", "validator"}
  BY <1>1 DEF Call
<1>3. Calls'
  <2>1. Then(<<>>) \/ todo' = <<>>
    BY DEF EnsureNode
  <2> QED
    BY <1>1, <2>1, ThenKeeps, NoCallsLeft, EmptySeq
<1>4. children' \in [Names -> Child]
  <2> DEFINE c == op.name
  <2>1. children \in [Names -> Child] /\ cache \in [Names -> Child]
    BY DEF IInv, TypeOK
  <2>2. CASE children' = [children EXCEPT ![c] = [kind |-> op.kind, deleting |-> FALSE]]
    BY <1>2, <2>1, <2>2 DEF Child
  <2>3. CASE children' = [children EXCEPT ![c].kind = op.kind] /\ children[c] # None
    <3>1. [children[c] EXCEPT !.kind = op.kind] \in Child
      BY <1>2, <2>1, <2>3 DEF Child
    <3> QED
      BY <2>1, <2>3, <3>1
  <2>4. CASE UNCHANGED children
    BY <2>1, <2>4
  <2> QED
    BY <2>2, <2>3, <2>4 DEF EnsureNode
<1>5. TypeOK'
  BY <1>3, <1>4 DEF EnsureNode, Calls, IInv, TypeOK, bounds
<1> QED
  BY <1>3, <1>5 DEF IInv, Calls

\* A deletion marks one of the names of its call, and the others are left for later.
LEMMA DeleteNodeIs ==
    ASSUME IInv, DeleteNode
    PROVE  /\ op \in Justified /\ op.op = "delete" /\ op.names \in SUBSET Names
           /\ \/ UNCHANGED children
              \/ \E c \in op.names : /\ children[c] # None
                                     /\ children' = [children EXCEPT ![c].deleting = TRUE]
           /\ \/ Then(<<>>)
              \/ \E C \in SUBSET op.names : Then(<<Delete(C)>>)
<1>1. op \in Justified /\ op \in Call /\ op.op = "delete"
  BY OpType DEF DeleteNode
<1>2. op.names \in SUBSET Names
  BY <1>1 DEF Call
<1>3. CASE op.names = {} /\ Then(<<>>) /\ UNCHANGED children
  BY <1>1, <1>2, <1>3
<1>4. CASE \E c \in op.names :
             /\ children' = IF cache[c] = None \/ children[c] = None THEN children
                            ELSE [children EXCEPT ![c].deleting = TRUE]
             /\ Then(<<Delete(op.names \ {c})>>)
  BY <1>1, <1>2, <1>4, Zenon
<1> QED
  BY <1>3, <1>4 DEF DeleteNode

LEMMA MarkedIsChild ==
    ASSUME NEW d \in Child, d # None
    PROVE  [d EXCEPT !.deleting = TRUE] \in Child
  BY DEF Child

LEMMA DeleteNodeStep == ASSUME IInv, DeleteNode PROVE IInv'
<1>1. todo # <<>> /\ UNCHANGED <<seen, list>>
  BY DEF DeleteNode
<1>2. \A c \in op.names : Unwanted(c)
  BY DeleteNodeIs DEF Justified
<1>3. Calls'
  <2>1. CASE Then(<<>>)
    BY <1>1, <2>1, ThenKeeps, EmptySeq
  <2>2. ASSUME NEW C \in SUBSET op.names, Then(<<Delete(C)>>)
        PROVE  Calls'
    <3>1. Delete(C) \in Lasting
      BY <1>2, DeleteNodeIs, DeleteIsLasting
    <3> QED
      BY <1>1, <2>2, <3>1, OneCall, ThenKeeps
  <2> QED
    BY <2>1, <2>2, DeleteNodeIs
<1>4. children' \in [Names -> Child]
  <2>1. children \in [Names -> Child]
    BY DEF IInv, TypeOK
  <2>2. ASSUME NEW c \in op.names, children[c] # None,
               children' = [children EXCEPT ![c].deleting = TRUE]
        PROVE  children' \in [Names -> Child]
    <3>1. [children[c] EXCEPT !.deleting = TRUE] \in Child
      BY <2>1, <2>2, DeleteNodeIs, MarkedIsChild
    <3> QED
      BY <2>1, <2>2, <3>1
  <2> QED
    BY <2>1, <2>2, DeleteNodeIs
<1>5. TypeOK'
  BY <1>3, <1>4 DEF DeleteNode, Calls, IInv, TypeOK, bounds
<1> QED
  BY <1>3, <1>5 DEF IInv, Calls

\* A step of the surroundings leaves the pass alone, or ends it.
LEMMA SurroundingsKeep ==
    ASSUME IInv, TypeOK', todo' = <<>> \/ UNCHANGED todo, UNCHANGED <<seen, list>>
    PROVE  IInv'
<1>1. Justified' = Justified
  BY DEF Justified, Unwanted, Desired
<1>2. CASE todo' = <<>>
  BY <1>2, NoCallsLeft DEF IInv, Calls
<1>3. CASE UNCHANGED todo
  BY <1>1, <1>3 DEF IInv
<1> QED
  BY <1>2, <1>3

LEMMA AbortStep == ASSUME IInv, Abort PROVE IInv'
<1>1. TypeOK'
  BY NodeGroupsAssumption DEF Abort, IInv, TypeOK
<1> QED
  BY <1>1, SurroundingsKeep DEF Abort

LEMMA SyncStep == ASSUME IInv, Sync PROVE IInv'
<1>1. TypeOK'
  BY DEF Sync, IInv, TypeOK, pass, bounds
<1> QED
  BY <1>1, SurroundingsKeep DEF Sync, pass

LEMMA EditStep == ASSUME IInv, Edit PROVE IInv'
<1>1. TypeOK'
  BY NodeGroupsAssumption DEF Edit, IInv, TypeOK, pass
<1> QED
  BY <1>1, SurroundingsKeep DEF Edit, pass

LEMMA GoneStep == ASSUME IInv, NEW c \in Names, Gone(c) PROVE IInv'
<1>1. TypeOK'
  BY DEF Gone, IInv, TypeOK, pass, bounds, Child
<1> QED
  BY <1>1, SurroundingsKeep DEF Gone, pass

LEMMA EvictStep == ASSUME IInv, NEW c \in Names, Evict(c) PROVE IInv'
<1>1. [children[c] EXCEPT !.deleting = TRUE] \in Child
  BY MarkedIsChild DEF Evict, IInv, TypeOK
<1>2. TypeOK'
  BY <1>1, NodeGroupsAssumption DEF Evict, IInv, TypeOK, pass
<1> QED
  BY <1>2, SurroundingsKeep DEF Evict, pass

----------------------------------------------------------------------------
(* The theorems *)

LEMMA InitIInv == Init => IInv
<1> SUFFICES ASSUME Init PROVE IInv
  OBVIOUS
<1>1. TypeOK
  BY NodeGroupsAssumption DEF Init, TypeOK, Child, Group
<1> QED
  BY <1>1 DEF Init, IInv

LEMMA NextIInv == IInv /\ [Next]_vars => IInv'
<1> SUFFICES ASSUME IInv, [Next]_vars PROVE IInv'
  OBVIOUS
<1>1. CASE UNCHANGED vars
  <2>1. TypeOK'
    BY <1>1 DEF vars, pass, bounds, IInv, TypeOK
  <2> QED
    BY <1>1, <2>1, SurroundingsKeep DEF vars, pass
<1>2. CASE Next
  BY <1>2, BeginStep, ListNodesStep, RemoveGroupsStep, EnsureNodeStep, DeleteNodeStep, AbortStep,
     SyncStep, EditStep, GoneStep, EvictStep DEF Next, Reconcile
<1> QED
  BY <1>1, <1>2

\* Every call a pass still has to make is justified by the spec and the list it
\* works from, however stale the cache they came from was.
THEOREM Invariance == Spec => []IInv
  BY InitIInv, NextIInv, PTL DEF Spec

\* Every variable keeps its type: no pass makes a call on a child that no group
\* of the largest size has, though removals count children instead of looking at
\* their indices.
THEOREM TypeCorrect == Spec => []TypeOK
<1>1. IInv => TypeOK
  BY DEF IInv
<1> QED
  BY <1>1, Invariance, PTL

\* What a pass deletes is unwanted.
LEMMA DeletesUnwanted ==
    ASSUME IInv, NEW c \in Names, Deletes(c)
    PROVE  \/ ~Desired(seen, c, children[c].kind)
           \/ list[c].kind = "regular" /\ children[c].kind = "validator"
<1>1. children \in [Names -> Child] /\ seen \in [Groups -> Group]
  BY DEF IInv, TypeOK
<1>2. c \in op.names
  <2>1. ~children[c].deleting /\ children'[c].deleting /\ DeleteNode
    BY DEF Deletes
  <2>2. PICK d \in op.names : children' = [children EXCEPT ![d].deleting = TRUE]
    BY <2>1, DeleteNodeIs
  <2>3. CASE d # c
    BY <1>1, <2>1, <2>2, <2>3
  <2> QED
    BY <2>3
<1>3. Unwanted(c)
  BY <1>2, DeleteNodeIs DEF Deletes, Justified
<1>4. children[c].kind \in {"none", "regular", "validator"}
  BY <1>1 DEF Child, None
<1>5. seen[c[1]].kind \in {"absent", "regular", "validator"}
  BY <1>1 DEF Names, Group
<1> QED
  BY <1>3, <1>4, <1>5 DEF Unwanted, Desired

\* A pass never deletes a child that the spec it works from asks for, except one
\* that it listed as a regular node after it had made it a validator.
THEOREM DeletesOnlyUnwanted == Spec => OnlyConversionsRace
<1>1. IInv /\ [Next]_vars =>
        [\A c \in Names :
           Deletes(c) => \/ ~Desired(seen, c, children[c].kind)
                         \/ list[c].kind = "regular" /\ children[c].kind = "validator"]_vars
  BY DeletesUnwanted
<1> QED
  BY <1>1, Invariance, PTL DEF Spec, OnlyConversionsRace

=============================================================================
