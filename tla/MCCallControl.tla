--------------------------- MODULE MCCallControl ---------------------------
(***************************************************************************)
(* CallControl on a few calls.  A call object is used once, so the number  *)
(* of calls bounds the length of what happens.                             *)
(***************************************************************************)
EXTENDS CallControl, TLC

\* The calls are interchangeable: nothing in CallControl compares two of them
\* other than for equality.  Used by the safety runs only.
CallSymmetry == Permutations(Calls)
=============================================================================
