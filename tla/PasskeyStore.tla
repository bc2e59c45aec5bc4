---------------------------- MODULE PasskeyStore ----------------------------
(***************************************************************************)
(* What the dashboard's passkey table promises: it is empty or holds the   *)
(* one passkey of the single operator, a passkey is registered only into   *)
(* an empty table, and only a wipe takes it away.  WebAuthn implements it. *)
(***************************************************************************)
CONSTANT Passkeys

VARIABLE stored

Init == stored = {}

Register == stored = {} /\ \E k \in Passkeys : stored' = {k}

Wipe == stored' = {}

Next == Register \/ Wipe

Spec == Init /\ [][Next]_stored
=============================================================================
