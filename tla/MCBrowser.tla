----------------------------- MODULE MCBrowser -----------------------------
(***************************************************************************)
(* Browser on results of up to MaxRows rows.                               *)
(***************************************************************************)
EXTENDS Browser
=============================================================================
