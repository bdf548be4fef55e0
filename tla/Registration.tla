---------------------------- MODULE Registration ----------------------------
(***************************************************************************)
(* Registering at a SIP proxy and ending the program: irc_bot_proxy, the   *)
(* commands register, unregister and end of main, irc_bot::bot_terminate   *)
(* and the handler of SIGINT.                                              *)
(*                                                                         *)
(* A registration is asked for and answered in the background, whenever    *)
(* the program calls linphone_core_iterate.  The commands wait for the     *)
(* answer in loops that iterate and do nothing else; SIGINT can interrupt  *)
(* everything, and it ends the program by the code the command end uses.   *)
(***************************************************************************)
CONSTANTS
  Null,     \* nullptr, and the empty sipUsername
  Configs,  \* the LinphoneProxyConfig objects, each created once
  Users,    \* the identities typed or stored
  Valid     \* those linphone_address_new can parse

ASSUME NullIsNoUser == Null \notin Configs \cup Users
ASSUME ValidUsers   == Valid \subseteq Users

VARIABLES
  proxy_cfg,     \* the config the program holds
  sipUsername,   \* the identity the program says it is registered as
  regState,      \* linphone_proxy_config_get_state of every config
  identity,      \* the identity of every config added to the core
  proxies,       \* the core's list of proxy configs
  defaultProxy,  \* the core's default proxy config
  pc,            \* what the program does, see Control
  interrupted    \* SIGINT arrived; its handler is not left any more

vars == <<proxy_cfg, sipUsername, regState, identity, proxies, defaultProxy,
          pc, interrupted>>

State == {"unused", "None", "Progress", "Ok", "Failed", "Cleared"}

\* main: any loop that reads commands.  registering, unregistering: the waits
\* of the two commands.  ending: the wait of bot_terminate.  farewell: the core
\* is destroyed.  ended, crashed, dead: exited, undefined behaviour here or in
\* another command, after which the program may stop, hang or go on.
Control == {"main", "registering", "unregistering", "ending", "farewell",
            "ended", "crashed", "dead"}

Registered == proxy_cfg # Null /\ regState[proxy_cfg] = "Ok"

\* The identity that status says is registered, and register when it refuses;
\* Null for "Not registered!".
SaysRegistered == IF Registered THEN sipUsername ELSE Null

Init ==
  /\ proxy_cfg = Null /\ sipUsername = Null
  /\ regState = [c \in Configs |-> "unused"]
  /\ identity = [c \in Configs |-> Null]
  /\ proxies = {} /\ defaultProxy = Null
  /\ pc = "main" /\ interrupted = FALSE

-----------------------------------------------------------------------------
(* The library, during linphone_core_iterate.                              *)

\* A listed config is registered, refreshed and, after a failure, tried again.
RegisterMoves == [s \in State |->
  CASE s \in {"None", "Failed"} -> {"Progress"}
    [] s = "Progress"           -> {"Ok", "Failed"}
    [] s = "Ok"                 -> {"Progress", "Failed"}
    [] OTHER                    -> {}]

\* One taken out of the list while registered is unregistered.
LeaveMoves == [s \in State |->
  CASE s = "Ok"       -> {"Progress", "Cleared", "Failed"}
    [] s = "Progress" -> {"Cleared", "Failed"}
    [] OTHER          -> {}]

\* The library changes the state of the config the program looks at.
Moves(table) == \E s \in table[regState[proxy_cfg]] :
                  regState' = [regState EXCEPT ![proxy_cfg] = s]

\* An iterate that changes nothing of it.
Keeps == UNCHANGED regState

\* The library refreshes a registration while the program runs.
Refresh ==
  /\ pc = "main" /\ proxy_cfg \in proxies
  /\ Moves(RegisterMoves)
  /\ UNCHANGED <<proxy_cfg, sipUsername, identity, proxies, defaultProxy, pc,
                 interrupted>>

-----------------------------------------------------------------------------
(* irc_bot_proxy                                                           *)

\* What a failed bot_register leaves behind, as <<proxy_cfg, proxies>>.
AfterInvalidMutant(c) == <<proxy_cfg, proxies>>
AfterInvalid(c)       == <<c, {}>>

ListedMutant(c) == proxies \cup {c}
\* linphone_core_clear_proxy_config, linphone_core_add_proxy_config
Listed(c)       == {c}

DefaultMutant(c) == defaultProxy
Default(c)       == c

bot_unregisterMutant(next) ==
  /\ \E s \in {"Ok", "Progress"} :
       regState' = [regState EXCEPT ![proxy_cfg] = s]
  /\ pc' = next
  /\ UNCHANGED <<proxy_cfg, proxies, defaultProxy>>

\* bot_unregister, and on to the wait "next".  Without a default proxy it edits
\* a null config.
bot_unregister(next) ==
  IF defaultProxy = Null
  THEN /\ pc' = "crashed"
       /\ UNCHANGED <<proxy_cfg, regState, proxies, defaultProxy>>
  ELSE /\ proxy_cfg' = defaultProxy
       /\ \E s \in {"Ok", "Progress"} :
            regState' = [regState EXCEPT ![defaultProxy] = s]
       /\ proxies' = {} /\ defaultProxy' = Null
       /\ pc' = next

-----------------------------------------------------------------------------
(* The commands, and the waits they end in.                                *)

ParsedMutant(u) == TRUE
\* linphone_address_new returned an address.
Parsed(u) == u \in Valid

\* register: refused while registered.
MayRegister(c) == pc = "main" /\ ~Registered /\ regState[c] = "unused"

Register(u, c) ==
  /\ MayRegister(c) /\ Parsed(u)
  /\ sipUsername' = u
  /\ proxy_cfg' = c
  /\ regState' = [regState EXCEPT ![c] = "None"]
  /\ identity' = [identity EXCEPT ![c] = u]
  /\ proxies' = Listed(c)
  /\ defaultProxy' = Default(c)
  /\ pc' = "registering"
  /\ UNCHANGED interrupted

\* "... is not a valid sip uri"
RegisterInvalid(u, c) ==
  /\ MayRegister(c) /\ ~Parsed(u)
  /\ sipUsername' = u
  /\ proxy_cfg' = AfterInvalid(c)[1]
  /\ proxies' = AfterInvalid(c)[2]
  /\ regState' = [regState EXCEPT ![c] = "None"]
  /\ defaultProxy' = IF defaultProxy \in proxies' THEN defaultProxy ELSE Null
  /\ UNCHANGED <<identity, pc, interrupted>>

RegisteringOverMutant(s) == s = "Ok"
RegisteringOver(s)       == s \in {"Failed", "Ok"}

\* A turn of the wait: iterate, then look at the state.
RegisterTurn ==
  /\ pc = "registering"
  /\ Moves(RegisterMoves) \/ Keeps
  /\ pc' = IF RegisteringOver(regState'[proxy_cfg]) THEN "main" ELSE pc
  /\ UNCHANGED <<proxy_cfg, sipUsername, identity, proxies, defaultProxy,
                 interrupted>>

Unregister ==
  /\ pc = "main" /\ Registered
  /\ bot_unregister("unregistering")
  /\ sipUsername' = Null
  /\ UNCHANGED <<identity, interrupted>>

UnregisteringOverMutant(s)  == s # "Progress"
UnregisteringOverMutant2(s) == s = "Cleared"
UnregisteringOver(s)        == s \in {"Failed", "Cleared"}

UnregisterTurn ==
  /\ pc = "unregistering"
  /\ Moves(LeaveMoves) \/ Keeps
  /\ pc' = IF UnregisteringOver(regState'[proxy_cfg]) THEN "main" ELSE pc
  /\ UNCHANGED <<proxy_cfg, sipUsername, identity, proxies, defaultProxy,
                 interrupted>>

-----------------------------------------------------------------------------
(* Ending the program.                                                     *)

\* bot_terminate: unregister and wait, or destroy the core at once.  A core
\* destroyed before is not null: it is used again.
bot_terminate ==
  IF Registered
  THEN bot_unregister("ending")
  ELSE /\ pc' = IF pc = "farewell" THEN "crashed" ELSE "farewell"
       /\ UNCHANGED <<proxy_cfg, regState, proxies, defaultProxy>>

\* The command end, or ERROR from the server.
End ==
  /\ pc = "main"
  /\ bot_terminate
  /\ UNCHANGED <<sipUsername, identity, interrupted>>

\* SIGINT: the handler runs wherever the program is and exits.  That can be
\* inside linphone_core_iterate, bot_register, bot_unregister, malloc or SQLite,
\* none of which may be entered again or lose its core or its database under
\* way, or while the program ends already: the behaviour is undefined.
CtrlC ==
  /\ pc \notin {"ended", "crashed", "dead"} /\ ~interrupted
  /\ \/ bot_terminate
     \/ /\ pc' = "crashed"
        /\ UNCHANGED <<proxy_cfg, regState, proxies, defaultProxy>>
  /\ interrupted' = TRUE
  /\ UNCHANGED <<sipUsername, identity>>

EndTurn ==
  /\ pc = "ending"
  /\ Moves(LeaveMoves) \/ Keeps
  /\ pc' = IF UnregisteringOver(regState'[proxy_cfg]) THEN "farewell" ELSE pc
  /\ UNCHANGED <<proxy_cfg, sipUsername, identity, proxies, defaultProxy,
                 interrupted>>

\* The last messages, and exit.
Quit ==
  /\ pc = "farewell"
  /\ pc' = "ended"
  /\ UNCHANGED <<proxy_cfg, sipUsername, regState, identity, proxies,
                 defaultProxy, interrupted>>

\* Another command ends the program by undefined behaviour.
Dies ==
  /\ pc = "main"
  /\ pc' = "dead"
  /\ UNCHANGED <<proxy_cfg, sipUsername, regState, identity, proxies,
                 defaultProxy, interrupted>>

Waits == RegisterTurn \/ UnregisterTurn \/ EndTurn

Next ==
  \/ Refresh
  \/ \E u \in Users, c \in Configs : Register(u, c) \/ RegisterInvalid(u, c)
  \/ Unregister
  \/ Waits
  \/ End \/ CtrlC \/ Quit \/ Dies

Spec == Init /\ [][Next]_vars

\* Every request is answered or times out in the library, and the program
\* takes its turns; nothing is assumed of the user or of refreshes.
Fairness ==
  /\ WF_vars(Waits /\ regState' # regState)
  /\ WF_vars(Quit)

-----------------------------------------------------------------------------
(* Properties                                                              *)

TypeOK ==
  /\ proxy_cfg \in Configs \cup {Null}
  /\ sipUsername \in Users \cup {Null}
  /\ regState \in [Configs -> State]
  /\ identity \in [Configs -> Valid \cup {Null}]
  /\ proxies \subseteq Configs
  /\ defaultProxy \in Configs \cup {Null}
  /\ pc \in Control
  /\ interrupted \in BOOLEAN
  /\ pc \in {"registering", "unregistering", "ending"} => proxy_cfg # Null

\* "Registered as" and "Already registered as" name the identity that is
\* registered, although a register that fails, at once or later, has changed
\* the name already, and a registration can come back by itself.
StatusNamesRegistered ==
  pc \in {"main", "registering"} /\ Registered =>
    SaysRegistered # Null /\ SaysRegistered = identity[proxy_cfg]

\* The core never keeps registering with a config the program has let go of,
\* and the config that unregister takes from the core is the one whose state
\* was looked at, however often registering failed before.
OwnProxyOnly ==
  /\ proxies \subseteq {proxy_cfg}
  /\ pc \in {"main", "registering"} /\ Registered => defaultProxy = proxy_cfg

\* unregister and end find the default config they edit, and no command uses a
\* destroyed core, after any sequence of failed, invalid and late registrations:
\* without CTRL+C nothing here is undefined.
UnregisterFindsProxy == [][pc' = "crashed" => interrupted']_vars

\* The core is never destroyed while the program is registered.
EndsUnregistered == pc \in {"farewell", "ended"} => ~Registered

Promised == INSTANCE Account WITH
  wanted  <- sipUsername,
  account <- IF Registered THEN identity[proxy_cfg] ELSE Null,
  phase   <- CASE pc \in {"main", "registering", "unregistering"} -> "open"
               [] pc = "ending" -> "closing"
               [] pc \in {"farewell", "ended"} -> "over"
               [] OTHER -> "broken"

\* However registrations fail, come late, are refreshed and are interrupted by
\* CTRL+C: the program gets registered only as the identity typed last, never
\* once it was told to unregister or ends, and not as one it called invalid,
\* although every refresh is tried in the background by whatever config the core
\* still lists.
RefinesAccount == Promised!Spec

\* The waits of register, unregister and end are each over some time, with the
\* answer hoped for or without, even if the proxy only ever refuses.
WaitsEnd ==
  \A w \in {"registering", "unregistering", "ending"} : pc = w ~> pc # w

\* CTRL+C ends the program in whichever wait it comes, through the wait of its
\* own, unless it hits code that may not be interrupted: that is undefined, and
\* may be a hang.
CtrlCEnds == interrupted ~> pc \in {"ended", "crashed"}
=============================================================================
