--------------------------- MODULE MCReservation ---------------------------
(* An instance of Reservation for TLC, and the bounds that keep it small. *)
EXTENDS Reservation, TLC

\* Roots and keys are interchangeable.
Symmetry == Permutations(Roots) \cup Permutations(Keys)

\* The keys that a root, a reconcile, a signing path or a reservation knows.
KeysInUse ==
    UNION {{o.key} \cup o.pubkey : o \in objects \cup UNION {seen[n] : n \in Roots}}
        \cup {w.key : w \in workloads} \cup {r.key : r \in reservations}

\* Two roots contend for one key, or one root changes between two.
OneContention ==
    \/ Cardinality(KeysInUse) <= 1
    \/ Cardinality({n \in Roots : gen[n] > 0}) <= 1

\* One of the roots has successors.
OneSuccessor == Cardinality({n \in Roots : gen[n] > 1}) <= 1

============================================================================
