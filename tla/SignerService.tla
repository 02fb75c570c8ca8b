--------------------------- MODULE SignerService ---------------------------
(***************************************************************************)
(* What a managed signer promises, whatever is edited, migrated, lost or   *)
(* restarted underneath: it serves at most one consensus key, it is        *)
(* stopped before it serves another one or forgets what it signed, and it  *)
(* remembers every key it serves.                                          *)
(***************************************************************************)

VARIABLES key,     \* the keys that can sign now
          history  \* the keys whose signatures are remembered

Init == key = {} \/ \E x \in history : key = {x}

Start == key = {} /\ \E x \in history' : key' = {x} /\ history' = history \cup {x}

Stop == key' = {} /\ history' = history

\* Only a stopped signer forgets.
Forget == key = {} /\ key' = {} /\ history' \subseteq history

Next == Start \/ Stop \/ Forget

Spec == Init /\ [][Next]_<<key, history>>

=============================================================================
