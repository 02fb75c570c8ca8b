----------------------------- MODULE NodeGroups -----------------------------
(***************************************************************************)
(* The children of one ChainNodeSet: how its reconcile creates, converts   *)
(* and removes the ChainNodes of its groups.                               *)
(*                                                                         *)
(* Child i of group g has the same name whether the group is a group of    *)
(* regular nodes or of validators; a label tells which it is.  A pass      *)
(* reconciles validators first, then regular groups, then removes what is  *)
(* left of groups that were removed and of groups that became validator    *)
(* groups.  Every read goes through the manager's cache, which lags behind *)
(* the API server; every write is checked against the version that was     *)
(* read.  A pass ends at the first call that fails.                        *)
(*                                                                         *)
(* The chain ID is known.  Before that ensureNodes does nothing and the    *)
(* first validator is waited for, so that there is a genesis; from then on *)
(* validatorWaitMode never waits.  The validator of .spec.validator, which *)
(* has a group of its own that is excluded from the cleanup, is not        *)
(* modelled.                                                               *)
(***************************************************************************)
EXTENDS Integers, Sequences, FiniteSets, Functions

CONSTANTS GroupSeq,    \* names of groups, in the order of the spec
          MaxSize,     \* the largest group
          MaxEdits,    \* how many times the user edits the spec
          MaxFaults,   \* how many calls fail or managers crash
          MaxEvictions \* how many children the user deletes

ASSUME NodeGroupsAssumption ==
    /\ GroupSeq \in Seq(Range(GroupSeq))
    /\ IsInjective(GroupSeq)
    /\ MaxSize \in Nat \ {0}
    /\ MaxEdits \in Nat
    /\ MaxFaults \in Nat
    /\ MaxEvictions \in Nat

VARIABLES spec,     \* the groups of .spec.nodes
          children, \* the ChainNodes of the set, as the API server has them
          cache,    \* the same as the manager's cache has them
          seen,     \* the spec the current pass works from
          list,     \* the children ensureNodes listed
          todo,     \* the calls the current pass still has to make
          edits, faults, evictions

pass == <<seen, list, todo>>
bounds == <<edits, faults, evictions>>
vars == <<spec, children, cache, pass, bounds>>

Groups == Range(GroupSeq)
Names == Groups \X (0..(MaxSize - 1))

Group == {[kind |-> "absent", size |-> 0]} \cup
         [kind : {"regular", "validator"}, size : 0..MaxSize]

None == [kind |-> "none", deleting |-> FALSE]
Child == {None} \cup [kind : {"regular", "validator"}, deleting : BOOLEAN]

----------------------------------------------------------------------------
(* What a pass computes from the spec and from what it listed *)

\* The children the groups of spec s ask for, and of which kind.
Desired(s, c, kind) == s[c[1]].kind = kind /\ c[2] < s[c[1]].size

\* The listed children of group g.
Members(l, g) == {c \in Names : c[1] = g /\ l[c] # None}

Ensure(c, kind) == [op |-> "ensure", name |-> c, kind |-> kind]
Delete(C) == [op |-> "delete", names |-> C]

\* The calls that ensure every instance of group g, in order.
EnsureAll(s, g) ==
    [i \in 1..s[g].size |-> Ensure(<<g, i - 1>>, s[g].kind)]

\* ensureValidator: the validator groups, then the cleanup; then ensureNodes.
EnsureValidator ==
    [j \in 1..Len(GroupSeq) |-> [op |-> "validators", group |-> GroupSeq[j]]]
    \o <<[op |-> "prune"], [op |-> "nodes"]>>

\* The instances of a validator group.
EnsureValidatorGroup(g) == IF seen[g].kind = "validator" THEN EnsureAll(seen, g) ELSE <<>>

\* Validator children nobody wants; regular names are left to ensureNodes.
StaleValidators(l) ==
    {c \in Names : /\ l[c].kind = "validator"
                   /\ ~Desired(seen, c, "validator") /\ ~Desired(seen, c, "regular")}

\* ensureNodes: the regular groups, then removed and converted groups.
EnsureNodes(l) ==
    [j \in 1..Len(GroupSeq) |-> [op |-> "group", group |-> GroupSeq[j]]]
    \o <<[op |-> "removed", groups |-> {g \in Groups : seen[g].kind = "absent" /\ Members(l, g) # {}}],
         [op |-> "converted"]>>

\* A variant that keeps one instance too few.
EnsureNodeGroupShort(g) ==
    LET current == Cardinality(Members(cache, g))
        desired == seen[g].size
    IN IF seen[g].kind # "regular" THEN <<>>
       ELSE [j \in 1..(IF current >= desired THEN current - desired + 1 ELSE 0) |->
                Delete({c \in Names : c = <<g, current - j>>})]
            \o EnsureAll(seen, g)

\* ensureNodeGroup: instances beyond the desired size are removed from the top,
\* where the number of children stands for the highest index.
EnsureNodeGroup(g) ==
    LET current == Cardinality(Members(cache, g))
        desired == seen[g].size
    IN IF seen[g].kind # "regular" THEN <<>>
       ELSE [j \in 1..(IF current > desired THEN current - desired ELSE 0) |->
                Delete({<<g, current - j>>})]
            \o EnsureAll(seen, g)

\* A removed group: as many instances as were listed are removed, from 0 up.
RemoveGroup(g) ==
    [j \in 1..Cardinality(Members(list, g)) |-> Delete({<<g, j - 1>>})]

\* Children that were listed as regular nodes of what is a validator group now.
Converted ==
    {c \in Names : /\ list[c] # None /\ list[c].kind # "validator"
                   /\ seen[c[1]].kind = "validator"}

----------------------------------------------------------------------------
(* A pass *)

op == Head(todo)
Then(calls) == todo' = calls \o Tail(todo)

Begin ==
    /\ todo = <<>>
    /\ seen' = spec
    /\ list' = [c \in Names |-> None]
    /\ todo' = EnsureValidator
    /\ UNCHANGED <<spec, children, cache, bounds>>

\* Lists are taken, and the calls that follow from them and from the spec are
\* worked out.
ListNodes ==
    /\ todo # <<>>
    /\ \/ op.op = "validators" /\ Then(EnsureValidatorGroup(op.group)) /\ UNCHANGED list
       \/ op.op = "prune" /\ Then(<<Delete(StaleValidators(cache))>>) /\ UNCHANGED list
       \/ op.op = "nodes" /\ Then(EnsureNodes(cache)) /\ list' = cache
       \/ op.op = "group" /\ Then(EnsureNodeGroup(op.group)) /\ UNCHANGED list
       \/ op.op = "converted" /\ Then(<<Delete(Converted)>>) /\ UNCHANGED list
    /\ UNCHANGED <<spec, children, cache, seen, bounds>>

\* Removed groups are visited in any order, as a map is.
RemoveGroups ==
    /\ todo # <<>> /\ op.op = "removed"
    /\ \/ op.groups = {} /\ Then(<<>>)
       \/ \E g \in op.groups :
            Then(RemoveGroup(g) \o <<[op EXCEPT !.groups = @ \ {g}]>>)
    /\ UNCHANGED <<spec, children, cache, seen, list, bounds>>

\* A variant that creates missing children only.
EnsureNodeCreateOnly ==
    /\ todo # <<>> /\ op.op = "ensure"
    /\ IF cache[op.name] = None /\ children[op.name] = None
         THEN children' = [children EXCEPT ![op.name] = [kind |-> op.kind, deleting |-> FALSE]]
         ELSE UNCHANGED children
    /\ Then(<<>>)
    /\ UNCHANGED <<spec, cache, seen, list, bounds>>

\* ensureNode: the child is created, or updated if it differs; a stale read
\* makes the write fail, which ends the pass.
EnsureNode ==
    /\ todo # <<>> /\ op.op = "ensure"
    /\ LET c == op.name
           missing == cache[c] = None
           differs == ~missing /\ cache[c].kind # op.kind
       IN \/ /\ missing /\ children[c] = None
             /\ children' = [children EXCEPT ![c] = [kind |-> op.kind, deleting |-> FALSE]]
             /\ Then(<<>>)
          \/ /\ differs /\ cache[c] = children[c]
             /\ children' = [children EXCEPT ![c].kind = op.kind]
             /\ Then(<<>>)
          \/ ~missing /\ ~differs /\ Then(<<>>) /\ UNCHANGED children
          \/ /\ (missing \/ differs) /\ cache[c] # children[c]
             /\ todo' = <<>>
             /\ UNCHANGED children
    /\ UNCHANGED <<spec, cache, seen, list, bounds>>

\* maybeDeleteNode, of one of the names at a time: a child the cache does not
\* know is not deleted; one that is gone is no error.
DeleteNode ==
    /\ todo # <<>> /\ op.op = "delete"
    /\ \/ op.names = {} /\ Then(<<>>) /\ UNCHANGED children
       \/ \E c \in op.names :
            /\ children' = IF cache[c] = None \/ children[c] = None THEN children
                           ELSE [children EXCEPT ![c].deleting = TRUE]
            /\ Then(<<Delete(op.names \ {c})>>)
    /\ UNCHANGED <<spec, cache, seen, list, bounds>>

\* A call fails or the manager crashes: the pass ends where it stands.
Abort ==
    /\ todo # <<>>
    /\ faults < MaxFaults
    /\ faults' = faults + 1
    /\ todo' = <<>>
    /\ UNCHANGED <<spec, children, cache, seen, list, edits, evictions>>

----------------------------------------------------------------------------
(* The environment *)

\* The watch catches up.
Sync ==
    /\ cache # children
    /\ cache' = children
    /\ UNCHANGED <<spec, children, pass, bounds>>

\* The finalizer of a deleted child is done and the child goes away.
Gone(c) ==
    /\ children[c].deleting
    /\ children' = [children EXCEPT ![c] = None]
    /\ UNCHANGED <<spec, cache, pass, bounds>>

\* The user adds, scales, converts or removes a group.
Edit ==
    /\ edits < MaxEdits
    /\ \E g \in Groups, new \in Group :
         new # spec[g] /\ spec' = [spec EXCEPT ![g] = new]
    /\ edits' = edits + 1
    /\ UNCHANGED <<children, cache, pass, faults, evictions>>

\* The user deletes a child.
Evict(c) ==
    /\ evictions < MaxEvictions
    /\ children[c] # None /\ ~children[c].deleting
    /\ children' = [children EXCEPT ![c].deleting = TRUE]
    /\ evictions' = evictions + 1
    /\ UNCHANGED <<spec, cache, pass, edits, faults>>

----------------------------------------------------------------------------
(* The specification *)

Init ==
    /\ spec \in [Groups -> Group]
    /\ children = [c \in Names |-> None]
    /\ cache = children
    /\ seen = [g \in Groups |-> [kind |-> "absent", size |-> 0]]
    /\ list = children
    /\ todo = <<>>
    /\ edits = 0 /\ faults = 0 /\ evictions = 0

Reconcile == Begin \/ ListNodes \/ RemoveGroups \/ EnsureNode \/ DeleteNode

Next ==
    \/ Reconcile \/ Abort \/ Sync \/ Edit
    \/ \E c \in Names : Gone(c) \/ Evict(c)

Spec == Init /\ [][Next]_vars

\* The set is reconciled periodically, watches deliver, and children finish.
FairSpec ==
    Spec /\ WF_vars(Reconcile) /\ WF_vars(Sync) /\ \A c \in Names : WF_vars(Gone(c))

----------------------------------------------------------------------------
(* Properties *)

Call ==
    [op : {"prune", "nodes", "converted"}]
    \cup [op : {"validators", "group"}, group : Groups]
    \cup [op : {"removed"}, groups : SUBSET Groups]
    \cup [op : {"ensure"}, name : Names, kind : {"regular", "validator"}]
    \cup [op : {"delete"}, names : SUBSET Names]

\* Every variable has its type: in particular a pass only ever works on names
\* of children that groups of the largest size have.
TypeOK ==
    /\ spec \in [Groups -> Group]
    /\ children \in [Names -> Child]
    /\ cache \in [Names -> Child]
    /\ seen \in [Groups -> Group]
    /\ list \in [Names -> Child]
    /\ todo \in Seq(Call)
    /\ edits \in 0..MaxEdits /\ faults \in 0..MaxFaults /\ evictions \in 0..MaxEvictions

\* The spec the pass works from does not ask for child c, or c was listed as a
\* regular node of what is a validator group now.
Unwanted(c) ==
    \/ \A kind \in {"regular", "validator"} : ~Desired(seen, c, kind)
    \/ seen[c[1]].kind = "validator" /\ list[c].kind = "regular"

\* The calls that delete nothing but what is unwanted.
Justified ==
    {call \in Call :
        /\ call.op = "delete" => \A c \in call.names : Unwanted(c)
        /\ call.op = "removed" => \A g \in call.groups : seen[g].kind = "absent"}

\* Every call a pass still has to make is justified by the spec and the list it
\* works from, which it does not take again once a call depends on it.
IInv ==
    /\ TypeOK
    /\ todo \in Seq(Justified)
    /\ \A j \in 1..(Len(todo) - 1) : todo[j].op # "nodes"

\* The reconcile deletes child c in this step.
Deletes(c) == DeleteNode /\ ~children[c].deleting /\ children'[c].deleting

\* A pass never deletes a child that the spec it works from asks for ("The
\* validator ChainNodes for these groups are kept"), except one that it listed
\* as a regular node after it had made it a validator.
OnlyConversionsRace ==
    [][\A c \in Names :
         Deletes(c) => \/ ~Desired(seen, c, children[c].kind)
                       \/ list[c].kind = "regular" /\ children[c].kind = "validator"]_vars

\* Every instance a group asks for comes to be there for good, of the right
\* kind, whatever was edited, deleted, stale or failed before.
DesiredChildrenServe ==
    <>[](\A c \in Names, kind \in {"regular", "validator"} :
            Desired(spec, c, kind) => children[c] = [kind |-> kind, deleting |-> FALSE])

\* "Remove nodes from deleted groups": what no group asks for is removed.
UndesiredChildrenGo ==
    <>[](\A c \in Names : children[c] # None => \E kind \in {"regular", "validator"} : Desired(spec, c, kind))

=============================================================================
