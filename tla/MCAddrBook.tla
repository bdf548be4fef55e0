----------------------------- MODULE MCAddrBook -----------------------------
(***************************************************************************)
(* AddrBook with a few names, values and rows.                             *)
(***************************************************************************)
EXTENDS AddrBook, TLC

\* IDs, names and values are compared for equality only, and every CHOOSE is from
\* a set of one row while names are unique.  No liveness is checked with it.
AddrBookSymmetry == Permutations(Ids) \cup Permutations(Names) \cup Permutations(Uris)
=============================================================================
