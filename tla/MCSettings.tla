----------------------------- MODULE MCSettings -----------------------------
(***************************************************************************)
(* Settings with a few configs, identities, servers and TURN users.        *)
(***************************************************************************)
EXTENDS Settings
=============================================================================
