----------------------------- MODULE NatPolicy ------------------------------
(***************************************************************************)
(* The commands -s and -sd, which set the library's NAT policy:            *)
(* irc_bot_core::create_nat_policy, enable_stun, enable_turn, disable_nat. *)
(* The policy object is the core's own, so that each setting works at      *)
(* once.  Whether the name of a server resolves is up to the DNS.          *)
(***************************************************************************)
CONSTANTS
  NoName,     \* no server, no user
  Servers,    \* the addresses typed after -s
  TurnUsers   \* the users typed after -t

ASSUME NoNameIsNoServer == NoName \notin Servers \cup TurnUsers

VARIABLES
  nat,       \* the policy
  resolved   \* the server whose name resolved last, for the properties

natVars == <<nat, resolved>>

\* ipv6 is an option of the core that these commands also set.
Policy == [ice : BOOLEAN, stun : BOOLEAN, turn : BOOLEAN, ipv6 : BOOLEAN,
           server : Servers \cup {NoName}, user : TurnUsers \cup {NoName}]

\* The server that status names; NoName for "STUN/TURN not enabled!".
SaysStun == IF nat.stun THEN nat.server ELSE NoName

\* create_nat_policy
NatInit ==
  /\ nat = [ice |-> FALSE, stun |-> FALSE, turn |-> FALSE, ipv6 |-> TRUE,
            server |-> NoName, user |-> NoName]
  /\ resolved = NoName

\* enable_stun when the name does not resolve: the name stays in the policy.
UnresolvedMutant(address) == [nat EXCEPT !.server = address, !.ice = FALSE]
Unresolved(address) ==
  [nat EXCEPT !.server = address, !.ice = FALSE, !.stun = FALSE]

\* enable_stun when it does
Stun(address) == [nat EXCEPT !.server = address, !.ice = TRUE, !.stun = TRUE]

\* -s <server>; TURN stays as it was.
SetStun(address) ==
  \/ nat' = Stun(address) /\ resolved' = address
  \/ nat' = Unresolved(address) /\ UNCHANGED resolved

SetTurnMutant(address, user) ==
  /\ nat' = [Stun(user) EXCEPT !.turn = TRUE, !.user = address]
  /\ resolved' = address
\* -s <server> -t <user> <password>.  The command does not check that there are
\* a user and a password: what it finds instead of them, if it does not crash,
\* is any word typed earlier.
SetTurn(address, user) ==
  /\ nat' = [Stun(address) EXCEPT !.turn = TRUE, !.user = user]
  /\ resolved' = address

\* linphone_nat_policy_clear
Cleared == [nat EXCEPT !.ice = FALSE, !.stun = FALSE, !.turn = FALSE,
                       !.server = NoName]

\* -sd
DisableNat ==
  /\ nat' = [Cleared EXCEPT !.ipv6 = FALSE]
  /\ UNCHANGED resolved

NatNext ==
  \/ \E a \in Servers : SetStun(a)
  \/ \E a \in Servers, u \in TurnUsers : SetTurn(a, u)
  \/ DisableNat

NatSpec == NatInit /\ [][NatNext]_natVars

-----------------------------------------------------------------------------
NatTypeOK == nat \in Policy /\ resolved \in Servers \cup {NoName}

\* Whenever status says "STUN and ICE enabled", both are, and the server it
\* names is one that resolved when it was set, whatever -s with good and bad
\* addresses, -t and -sd came before: a failed -s takes the old server out of
\* the policy and must not leave STUN on.
StunHasServer ==
  /\ nat.ice = nat.stun
  /\ nat.stun => SaysStun = resolved /\ SaysStun # NoName
=============================================================================
