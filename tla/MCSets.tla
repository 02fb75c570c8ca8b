------------------------------- MODULE MCSets -------------------------------
(***************************************************************************)
(* One instance of each model of a ChainNodeSet for TLC: its children      *)
(* (NodeGroups) and its signers (SetSigner).  A behaviour is one of one of *)
(* the two, which the variable part names; the other stays as it started.  *)
(***************************************************************************)
EXTENDS MCNodeGroups

CONSTANT Nil \* no object

VARIABLES part, sSpec, sSt, sK, sNode, sOwn, sCkr, sPc, sLoc, sServed, sDropped, sLost, sEdits, sFaults

groups == <<spec, children, cache, seen, list, todo, edits, faults, evictions>>
signers == <<sSpec, sSt, sK, sNode, sOwn, sCkr, sPc, sLoc, sServed, sDropped, sLost, sEdits, sFaults>>

----------------------------------------------------------------------------
(* SetSigner: a set with a validator v and sentries s. *)

Signer(dest, targets) == [dest |-> dest, groups |-> targets]

On(top, g, own) ==
    [n \in {"top", "v", "s"} |-> CASE n = "top" -> top [] n = g -> own [] OTHER -> Nil]

Empty     == On(Nil, "v", Nil)
HeldOnS   == On(Signer("hx", {"s"}), "v", Nil)
OtherOnS  == On(Signer("hy", {"s"}), "v", Nil)
OwnHeldS  == On(Nil, "s", Signer("hx", {"s"}))
TwinOnS   == On(Signer("hv", {"s"}), "v", Nil)
VaultOnV  == On(Signer("vault", {"v"}), "v", Nil)
OwnVaultV == On(Nil, "v", Signer("vault", {"v"}))
SoftOnV   == On(Signer("sw", {"v"}), "v", Nil)

Backends == {"hx", "hy", "hv", "vault", "sw"}
BackendKind == [d \in Backends |->
    CASE d = "vault" -> "vault" [] d = "sw" -> "software" [] OTHER -> "held"]

\* hv holds the key of the validator v.
BackendKey == [d \in {"hx", "hy", "hv", "v"} |->
    CASE d = "hx" -> "kx" [] d = "hy" -> "ky" [] OTHER -> "kv"]

FirstSpecs == {HeldOnS, TwinOnS, VaultOnV, SoftOnV}

SpecEdits ==
    {[from |-> HeldOnS, to |-> sp] : sp \in {Empty, OtherOnS, OwnHeldS}}
    \cup {[from |-> VaultOnV, to |-> sp] : sp \in {Empty, HeldOnS, OwnVaultV}}
    \cup {[from |-> SoftOnV, to |-> VaultOnV]}

S == INSTANCE SetSigner WITH
    None <- Nil, Ordinals <- {0}, Order <- <<"top", "v", "s">>, Groups <- {"v", "s"},
    Validators <- {"v"}, Generates <- {"v"}, Dests <- Backends, KindOf <- BackendKind,
    KeyOf <- BackendKey, First <- FirstSpecs, Edits <- SpecEdits, MaxEdits <- 1, MaxFaults <- 1,
    spec <- sSpec, st <- sSt, k <- sK, node <- sNode, own <- sOwn, ckr <- sCkr, pc <- sPc,
    loc <- sLoc, served <- sServed, dropped <- sDropped, lost <- sLost, edits <- sEdits,
    faults <- sFaults

----------------------------------------------------------------------------

all == <<part, groups, signers>>

OfGroups(A) == part = "groups" /\ A /\ UNCHANGED <<part, signers>>
OfSigners(A) == part = "signers" /\ A /\ UNCHANGED <<part, groups>>

NoSigners ==
    /\ sSpec = Nil /\ sSt = Nil /\ sK = Nil /\ sNode = Nil /\ sOwn = Nil /\ sCkr = Nil
    /\ sPc = Nil /\ sLoc = Nil /\ sServed = Nil /\ sDropped = Nil /\ sLost = Nil
    /\ sEdits = Nil /\ sFaults = Nil

MCInit ==
    /\ part \in {"groups", "signers"}
    /\ Init /\ (part # "groups" => \A g \in Groups : spec[g].kind = "absent")
    /\ IF part = "signers" THEN S!Init ELSE NoSigners

MCNext == OfGroups(Next) \/ OfSigners(S!Next)

MCPass == OfGroups(Reconcile) \/ OfSigners(S!Reconcile)
MCCluster == OfGroups(Sync) \/ OfSigners(S!Cluster)

\* A pass can always take its next step, in both.
MCFairSpec ==
    /\ MCInit /\ [][MCNext]_all
    /\ []<><<MCPass>>_all /\ WF_all(MCCluster)
    /\ \A c \in Names : WF_all(OfGroups(Gone(c)))

----------------------------------------------------------------------------
(* The properties of SetSigner, under their own names. *)

\* S: no two signers of the set serve one key.
OneSignerPerKey == part = "signers" => S!OneSignerPerKey

\* S: a key that was served keeps its history.
HistoryKept == part = "signers" => S!HistoryKept

\* S: no node is sent to a signer that does not serve it.
NoStaleTargets == part = "signers" => S!NoStaleTargets

\* S: the set comes to rest as its spec asks.
Converges == <>[](part = "signers" => S!Settled)

=============================================================================
