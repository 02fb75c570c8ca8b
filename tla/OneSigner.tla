----------------------------- MODULE OneSigner -----------------------------
(***************************************************************************)
(* What the reservation of consensus keys promises to a chain: a key has   *)
(* at most one signer, and passes from one to the next only by way of a    *)
(* time when nobody signs with it.                                         *)
(***************************************************************************)
CONSTANTS Keys,   \* consensus public keys
          Owners  \* whoever may sign

VARIABLE signers  \* who signs with each key

Init == signers \in [Keys -> {{}} \cup {{u} : u \in Owners}]

Take(k) ==
    /\ signers[k] = {}
    /\ \E u \in Owners : signers' = [signers EXCEPT ![k] = {u}]

Leave(k) == signers' = [signers EXCEPT ![k] = {}]

Next == \E k \in Keys : Leave(k) \/ Take(k)

Spec == Init /\ [][Next]_signers

============================================================================
