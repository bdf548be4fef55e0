------------------------------- MODULE Account -------------------------------
(***************************************************************************)
(* What registering promises: the program is registered as the identity    *)
(* asked for last and no other, and once the user has withdrawn or the     *)
(* program closes, a registration may still stand for a while or go, but   *)
(* it never comes back.                                                    *)
(***************************************************************************)
CONSTANTS Null, Users, Valid

VARIABLES
  wanted,   \* the identity asked for last; Null once it is withdrawn
  account,  \* the identity that is registered, or Null
  phase     \* open, closing (still registered at the end), over or broken

vars == <<wanted, account, phase>>

Init == wanted = Null /\ account = Null /\ phase = "open"

Ask(u) ==
  /\ phase = "open" /\ account = Null
  /\ wanted' = u
  /\ UNCHANGED <<account, phase>>

\* The registration succeeds, at once or after failures.
Granted ==
  /\ phase = "open" /\ account = Null
  /\ wanted \in Valid
  /\ account' = wanted
  /\ UNCHANGED <<wanted, phase>>

Lost ==
  /\ phase \in {"open", "closing"} /\ account # Null
  /\ account' = Null
  /\ UNCHANGED <<wanted, phase>>

Withdraw ==
  /\ phase = "open" /\ account # Null
  /\ wanted' = Null
  /\ account' \in {account, Null}
  /\ UNCHANGED phase

Close ==
  /\ phase = "open" /\ account # Null
  /\ phase' = "closing"
  /\ account' \in {account, Null}
  /\ UNCHANGED wanted

Finish ==
  /\ phase = "closing" \/ (phase = "open" /\ account = Null)
  /\ phase' = "over" /\ account' = Null
  /\ UNCHANGED wanted

Break ==
  /\ phase' = "broken"
  /\ UNCHANGED <<wanted, account>>

Next ==
  \/ \E u \in Users : Ask(u)
  \/ Granted \/ Lost \/ Withdraw \/ Close \/ Finish \/ Break

Spec == Init /\ [][Next]_vars
=============================================================================
