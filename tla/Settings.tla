------------------------------ MODULE Settings ------------------------------
(***************************************************************************)
(* The library settings the main loop's commands change: the registration  *)
(* and the NAT policy.  -s and -sd are read by main only, so not while a   *)
(* command waits for the proxy, nor once the program ends.                 *)
(***************************************************************************)
EXTENDS Registration, NatPolicy

allVars == <<vars, natVars>>

SettingsInit == Init /\ NatInit

\* One of -s and -sd.  -t without its arguments can also be an end: Dies.
Nat == pc = "main" /\ NatNext /\ UNCHANGED vars

SettingsNext ==
  \/ Next /\ UNCHANGED natVars
  \/ Nat

SettingsSpec == SettingsInit /\ [][SettingsNext]_allVars

SettingsFairSpec == SettingsSpec /\ Fairness
=============================================================================
