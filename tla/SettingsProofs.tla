--------------------------- MODULE SettingsProofs ---------------------------
(***************************************************************************)
(* Theorems about registering, ending and the NAT policy, for any configs, *)
(* identities and servers.                                                 *)
(***************************************************************************)
EXTENDS Settings, TLAPS

\* In the loops that read commands, and while register waits, a registered
\* config is listed, and a listed one is the default and is named to the user.
ListedIsNamed ==
  pc \in {"main", "registering"} =>
    /\ Registered => proxy_cfg \in proxies
    /\ proxy_cfg \in proxies =>
         /\ defaultProxy = proxy_cfg
         /\ sipUsername # Null /\ sipUsername = identity[proxy_cfg]

\* The inductive invariant of the registration.
RegInv ==
  /\ TypeOK
  /\ ListedIsNamed
  /\ pc = "registering" => proxy_cfg \in proxies
  /\ pc = "unregistering" => proxies = {}
  /\ proxies \subseteq {proxy_cfg}
  /\ EndsUnregistered

LEMMA MovesStay ==
  ASSUME NEW s \in State
  PROVE  RegisterMoves[s] \subseteq State /\ LeaveMoves[s] \subseteq State
BY DEF State, RegisterMoves, LeaveMoves

LEMMA RegInit == Init => RegInv
BY NullIsNoUser DEF Init, RegInv, TypeOK, ListedIsNamed, EndsUnregistered, Registered,
                    State, Control

\* A turn of a wait, or a refresh: only the state of proxy_cfg can change.
LEMMA MovedType ==
  ASSUME TypeOK, proxy_cfg \in Configs,
         Moves(RegisterMoves) \/ Moves(LeaveMoves) \/ Keeps
  PROVE  regState' \in [Configs -> State]
<1>1. CASE Moves(RegisterMoves)
  <2>1. PICK s \in RegisterMoves[regState[proxy_cfg]] :
          regState' = [regState EXCEPT ![proxy_cfg] = s]
    BY <1>1 DEF Moves
  <2>2. s \in State
    BY MovesStay DEF TypeOK
  <2>q. QED  BY <2>1, <2>2 DEF TypeOK
<1>2. CASE Moves(LeaveMoves)
  <2>1. PICK s \in LeaveMoves[regState[proxy_cfg]] :
          regState' = [regState EXCEPT ![proxy_cfg] = s]
    BY <1>2 DEF Moves
  <2>2. s \in State
    BY MovesStay DEF TypeOK
  <2>q. QED  BY <2>1, <2>2 DEF TypeOK
<1>3. CASE Keeps
  BY <1>3 DEF Keeps, TypeOK
<1>q. QED  BY <1>1, <1>2, <1>3

LEMMA RegisterKeeps ==
  ASSUME RegInv, NEW u \in Users, NEW c \in Configs,
         Register(u, c) \/ RegisterInvalid(u, c)
  PROVE  RegInv'
<1>1. CASE Register(u, c)
  <2>1. u \in Valid /\ u # Null /\ c # Null
    BY <1>1, NullIsNoUser, ValidUsers DEF Register, Parsed
  <2>2. /\ sipUsername' = u /\ proxy_cfg' = c /\ defaultProxy' = c
        /\ proxies' = {c} /\ pc' = "registering"
        /\ interrupted' = interrupted
        /\ regState' = [regState EXCEPT ![c] = "None"]
        /\ identity' = [identity EXCEPT ![c] = u]
    BY <1>1 DEF Register, Listed, Default
  <2>3. TypeOK'
    BY <2>1, <2>2 DEF RegInv, TypeOK, State, Control
  <2>4. identity'[c] = u
    BY <2>2 DEF RegInv, TypeOK
  <2>q. QED
    BY <2>1, <2>2, <2>3, <2>4 DEF RegInv, ListedIsNamed, EndsUnregistered
<1>2. CASE RegisterInvalid(u, c)
  <2>1. /\ sipUsername' = u /\ proxy_cfg' = c /\ proxies' = {}
        /\ defaultProxy' = Null /\ pc = "main"
        /\ regState' = [regState EXCEPT ![c] = "None"]
        /\ UNCHANGED <<identity, pc, interrupted>>
    BY <1>2 DEF RegisterInvalid, AfterInvalid, MayRegister
  <2>2. TypeOK'
    BY <2>1 DEF RegInv, TypeOK, State, Control
  <2>3. regState'[c] = "None"
    BY <2>1 DEF RegInv, TypeOK
  <2>q. QED
    BY <2>1, <2>2, <2>3 DEF RegInv, ListedIsNamed, EndsUnregistered, Registered
<1>q. QED  BY <1>1, <1>2

\* Unregistering: the program lets go of the list, so that nothing of the
\* invariant is left to keep but the types; without a default it crashes.
LEMMA Unregisters ==
  ASSUME RegInv, NEW next \in {"unregistering", "ending"}, bot_unregister(next),
         UNCHANGED identity, sipUsername' \in Users \cup {Null},
         interrupted' \in BOOLEAN, Registered
  PROVE  RegInv'
<1>1. CASE defaultProxy = Null
  <2>1. pc' = "crashed" /\ UNCHANGED <<proxy_cfg, regState, proxies, defaultProxy>>
    BY <1>1 DEF bot_unregister
  <2>q. QED
    BY <2>1 DEF RegInv, TypeOK, ListedIsNamed, EndsUnregistered, Control
<1>2. CASE defaultProxy # Null
  <2>1. /\ proxy_cfg' = defaultProxy /\ proxies' = {} /\ defaultProxy' = Null
        /\ pc' = next
    BY <1>2 DEF bot_unregister
  <2>2. PICK s \in {"Ok", "Progress"} : regState' = [regState EXCEPT ![defaultProxy] = s]
    BY <1>2 DEF bot_unregister
  <2>3. TypeOK'
    BY <1>2, <2>1, <2>2 DEF RegInv, TypeOK, State, Control
  <2>q. QED
    BY <2>1, <2>3 DEF RegInv, ListedIsNamed, EndsUnregistered
<1>q. QED  BY <1>1, <1>2

\* A turn of a wait that goes on at "next" when "over" says so.
LEMMA WaitKeeps ==
  ASSUME RegInv, RegisterTurn \/ UnregisterTurn \/ EndTurn
  PROVE  RegInv'
<1>1. proxy_cfg \in Configs
  BY DEF RegInv, TypeOK, RegisterTurn, UnregisterTurn, EndTurn
<1>2. UNCHANGED <<proxy_cfg, sipUsername, identity, proxies, defaultProxy, interrupted>>
  BY DEF RegisterTurn, UnregisterTurn, EndTurn
<1>3. regState' \in [Configs -> State]
  BY <1>1, MovedType DEF RegInv, RegisterTurn, UnregisterTurn, EndTurn
<1>4. CASE RegisterTurn
  <2>1. pc' \in {"main", "registering"} /\ pc = "registering"
    BY <1>4 DEF RegisterTurn
  <2>2. TypeOK'
    BY <1>1, <1>2, <1>3, <2>1 DEF RegInv, TypeOK, Control
  <2>q. QED
    BY <1>2, <2>1, <2>2 DEF RegInv, ListedIsNamed, EndsUnregistered
<1>5. CASE UnregisterTurn
  <2>1. /\ pc = "unregistering" /\ pc' \in {"main", "unregistering"}
        /\ pc' = "main" => regState'[proxy_cfg] \in {"Failed", "Cleared"}
    BY <1>5 DEF UnregisterTurn, UnregisteringOver
  <2>2. TypeOK'
    BY <1>1, <1>2, <1>3, <2>1 DEF RegInv, TypeOK, Control
  <2>3. proxies = {}
    BY <2>1 DEF RegInv
  <2>q. QED
    BY <1>2, <2>1, <2>2, <2>3 DEF RegInv, ListedIsNamed, EndsUnregistered, Registered
<1>6. CASE EndTurn
  <2>1. /\ pc = "ending" /\ pc' \in {"farewell", "ending"}
        /\ pc' = "farewell" => regState'[proxy_cfg] \in {"Failed", "Cleared"}
    BY <1>6 DEF EndTurn, UnregisteringOver
  <2>2. TypeOK'
    BY <1>1, <1>2, <1>3, <2>1 DEF RegInv, TypeOK, Control
  <2>q. QED
    BY <1>2, <2>1, <2>2 DEF RegInv, ListedIsNamed, EndsUnregistered, Registered
<1>q. QED  BY <1>4, <1>5, <1>6

\* bot_terminate, from wherever it is called.
LEMMA TerminateKeeps ==
  ASSUME RegInv, bot_terminate, UNCHANGED <<sipUsername, identity>>,
         interrupted' \in BOOLEAN
  PROVE  RegInv'
<1>1. CASE Registered
  <2>1. bot_unregister("ending")
    BY <1>1 DEF bot_terminate
  <2>q. QED
    BY <1>1, <2>1, Unregisters DEF RegInv, TypeOK
<1>2. CASE ~Registered
  <2>1. /\ pc' \in {"crashed", "farewell"}
        /\ UNCHANGED <<proxy_cfg, regState, proxies, defaultProxy>>
    BY <1>2 DEF bot_terminate
  <2>q. QED
    BY <1>2, <2>1 DEF RegInv, TypeOK, ListedIsNamed, EndsUnregistered, Registered, Control
<1>q. QED  BY <1>1, <1>2

LEMMA RegStep == RegInv /\ [Next]_vars => RegInv'
<1> SUFFICES ASSUME RegInv, [Next]_vars PROVE RegInv'
  OBVIOUS
<1>1. CASE UNCHANGED vars
  BY <1>1 DEF vars, RegInv, TypeOK, ListedIsNamed, EndsUnregistered, Registered
<1>2. CASE Refresh
  <2>1. /\ proxy_cfg \in proxies /\ pc = "main" /\ Moves(RegisterMoves)
        /\ UNCHANGED <<proxy_cfg, sipUsername, identity, proxies, defaultProxy, pc,
                       interrupted>>
    BY <1>2 DEF Refresh
  <2>2. regState' \in [Configs -> State]
    BY <2>1, MovedType DEF RegInv, TypeOK
  <2>3. TypeOK'
    BY <2>1, <2>2 DEF RegInv, TypeOK
  <2>q. QED
    BY <2>1, <2>3 DEF RegInv, ListedIsNamed, EndsUnregistered
<1>3. CASE \E u \in Users, c \in Configs : Register(u, c) \/ RegisterInvalid(u, c)
  BY <1>3, RegisterKeeps
<1>4. CASE Unregister
  BY <1>4, Unregisters DEF Unregister, RegInv, TypeOK
<1>5. CASE Waits
  BY <1>5, WaitKeeps DEF Waits
<1>6. CASE End
  BY <1>6, TerminateKeeps DEF End, RegInv, TypeOK
<1>7. CASE CtrlC
  <2>1. CASE bot_terminate
    BY <1>7, <2>1, TerminateKeeps DEF CtrlC
  <2>2. CASE /\ pc' = "crashed"
             /\ UNCHANGED <<proxy_cfg, regState, proxies, defaultProxy>>
    BY <1>7, <2>2 DEF CtrlC, RegInv, TypeOK, ListedIsNamed, EndsUnregistered, Control
  <2>q. QED  BY <1>7, <2>1, <2>2 DEF CtrlC
<1>8. CASE Quit
  BY <1>8 DEF Quit, RegInv, TypeOK, ListedIsNamed, EndsUnregistered, Registered, Control
<1>9. CASE Dies
  BY <1>9 DEF Dies, RegInv, TypeOK, ListedIsNamed, EndsUnregistered, Control
<1>q. QED
  BY <1>1, <1>2, <1>3, <1>4, <1>5, <1>6, <1>7, <1>8, <1>9 DEF Next

LEMMA SettingsStep ==
  ASSUME [SettingsNext]_allVars
  PROVE  [Next]_vars /\ [NatNext]_natVars
BY DEF SettingsNext, allVars, Nat

LEMMA RegAlways == SettingsSpec => []RegInv
<1>1. SettingsInit => RegInv
  BY RegInit DEF SettingsInit
<1>2. RegInv /\ [SettingsNext]_allVars => RegInv'
  BY RegStep, SettingsStep
<1>q. QED  BY <1>1, <1>2, PTL DEF SettingsSpec

-----------------------------------------------------------------------------
\* Every reachable state is well typed; a wait always has a config to look at.
THEOREM TypeCorrect == SettingsSpec => []TypeOK
<1>1. RegInv => TypeOK  BY DEF RegInv
<1>q. QED  BY <1>1, RegAlways, PTL

\* "Registered as" and "Already registered as" name the identity that is
\* registered, after any number of failed and successful registrations.
THEOREM StatusIsTrue == SettingsSpec => []StatusNamesRegistered
<1>1. RegInv => StatusNamesRegistered
  BY DEF RegInv, ListedIsNamed, StatusNamesRegistered, SaysRegistered
<1>q. QED  BY <1>1, RegAlways, PTL

\* The core registers with the program's config only, and a registered config
\* is the one that unregister takes from the core.
THEOREM CoreHasOwnProxy == SettingsSpec => []OwnProxyOnly
<1>1. RegInv => OwnProxyOnly
  BY DEF RegInv, ListedIsNamed, OwnProxyOnly
<1>q. QED  BY <1>1, RegAlways, PTL

\* The core is never destroyed while the program is registered.
THEOREM UnregisteredAtEnd == SettingsSpec => []EndsUnregistered
<1>1. RegInv => EndsUnregistered  BY DEF RegInv
<1>q. QED  BY <1>1, RegAlways, PTL

\* unregister and end always find the default config they edit, and end a core
\* that is not destroyed: undefined behaviour here takes CTRL+C.
THEOREM CommandsAreDefined == SettingsSpec => UnregisterFindsProxy
<1>1. ASSUME RegInv, [SettingsNext]_allVars
      PROVE  [pc' = "crashed" => interrupted']_vars
  <2>1. [Next]_vars
    BY <1>1, SettingsStep
  <2> SUFFICES ASSUME Next, pc' = "crashed", ~interrupted'
               PROVE  FALSE
    BY <2>1
  <2>2. ASSUME NEW next, bot_unregister(next), next # "crashed", Registered,
               pc = "main"
        PROVE  FALSE
    <3>1. defaultProxy = Null
      BY <2>2 DEF bot_unregister
    <3>2. defaultProxy = proxy_cfg /\ proxy_cfg # Null
      BY <1>1, <2>2 DEF RegInv, ListedIsNamed, Registered
    <3>q. QED  BY <3>1, <3>2
  <2>3. ASSUME bot_terminate, pc = "main"
        PROVE  FALSE
    <3>1. CASE Registered
      BY <2>2, <2>3, <3>1 DEF bot_terminate
    <3>2. CASE ~Registered
      BY <2>3, <3>2 DEF bot_terminate
    <3>q. QED  BY <3>1, <3>2
  <2>4. CASE Unregister
    BY <2>2, <2>4 DEF Unregister
  <2>5. CASE End
    BY <2>3, <2>5 DEF End
  <2>6. CASE CtrlC
    BY <2>6 DEF CtrlC
  <2>7. CASE Refresh \/ Quit \/ Dies
    BY <2>7 DEF Refresh, Quit, Dies
  <2>8. CASE Waits
    BY <2>8 DEF Waits, RegisterTurn, UnregisterTurn, EndTurn
  <2>9. CASE \E u \in Users, c \in Configs : Register(u, c) \/ RegisterInvalid(u, c)
    BY <2>9 DEF Register, RegisterInvalid, MayRegister
  <2>q. QED
    BY <2>4, <2>5, <2>6, <2>7, <2>8, <2>9 DEF Next
<1>q. QED  BY <1>1, RegAlways, PTL DEF SettingsSpec, UnregisterFindsProxy

-----------------------------------------------------------------------------
(* Registering implements an account.                                      *)

\* While the program waits to be unregistered, the core has no default config.
NoDefaultLeft == pc \in {"unregistering", "ending"} => defaultProxy = Null

LEMMA DefaultStep == NoDefaultLeft /\ [Next]_vars => NoDefaultLeft'
<1> SUFFICES ASSUME NoDefaultLeft, [Next]_vars PROVE NoDefaultLeft'
  OBVIOUS
<1>1. ASSUME NEW next, bot_unregister(next) PROVE NoDefaultLeft'
  BY <1>1 DEF bot_unregister, NoDefaultLeft
<1>2. ASSUME bot_terminate PROVE NoDefaultLeft'
  BY <1>1, <1>2 DEF bot_terminate, NoDefaultLeft
<1>3. CASE Waits
  BY <1>3 DEF Waits, RegisterTurn, UnregisterTurn, EndTurn, NoDefaultLeft
<1>4. CASE Unregister \/ End \/ CtrlC
  BY <1>1, <1>2, <1>4 DEF Unregister, End, CtrlC, NoDefaultLeft
<1>5. CASE Refresh \/ Quit \/ Dies \/ UNCHANGED vars
  BY <1>5 DEF Refresh, Quit, Dies, vars, NoDefaultLeft
<1>6. CASE \E u \in Users, c \in Configs : Register(u, c) \/ RegisterInvalid(u, c)
  BY <1>6 DEF Register, RegisterInvalid, MayRegister, NoDefaultLeft
<1>q. QED
  BY <1>3, <1>4, <1>5, <1>6 DEF Next

AccountInv == RegInv /\ NoDefaultLeft

\* What the abstract account is mapped to.
Registree == IF Registered THEN identity[proxy_cfg] ELSE Null

\* A turn of a wait or a refresh changes the state of proxy_cfg: by LeaveMoves
\* it cannot become registered.
LEMMA LeavingLoses ==
  ASSUME TypeOK, proxy_cfg \in Configs, UNCHANGED <<proxy_cfg, identity>>,
         Moves(LeaveMoves) \/ Keeps
  PROVE  Registree' \in {Registree, Null}
<1>1. CASE Keeps
  BY <1>1 DEF Keeps, Registree, Registered
<1>2. CASE Moves(LeaveMoves)
  <2>1. PICK s \in LeaveMoves[regState[proxy_cfg]] :
          regState' = [regState EXCEPT ![proxy_cfg] = s]
    BY <1>2 DEF Moves
  <2>2. s # "Ok" /\ regState'[proxy_cfg] = s
    <3>1. \A t \in State : "Ok" \notin LeaveMoves[t]
      BY DEF LeaveMoves, State
    <3>2. regState[proxy_cfg] \in State
      BY DEF TypeOK
    <3>q. QED  BY <2>1, <3>1, <3>2 DEF TypeOK
  <2>q. QED
    BY <2>2 DEF Registree, Registered
<1>q. QED  BY <1>1, <1>2

\* A listed config that is tried, in main or while register waits: it gets the
\* identity wanted, loses it or changes nothing.
LEMMA TryingGrants ==
  ASSUME RegInv, pc \in {"main", "registering"}, proxy_cfg \in proxies,
         Moves(RegisterMoves) \/ Keeps, pc' \in {"main", "registering"},
         UNCHANGED <<proxy_cfg, sipUsername, identity>>
  PROVE  [Promised!Next]_(Promised!vars)
<1>1. sipUsername # Null /\ sipUsername = identity[proxy_cfg] /\ sipUsername \in Valid
  <2>1. identity[proxy_cfg] \in Valid \cup {Null}
    BY DEF RegInv, TypeOK
  <2>q. QED  BY <2>1 DEF RegInv, ListedIsNamed
<1>2. CASE Registered <=> Registered'
  BY <1>2 DEF Promised!vars, Registered
<1>3. CASE ~Registered /\ Registered'
  BY <1>1, <1>3 DEF Promised!Next, Promised!Granted, Registered
<1>4. CASE Registered /\ ~Registered'
  BY <1>1, <1>4 DEF Promised!Next, Promised!Lost, Registered
<1>q. QED  BY <1>2, <1>3, <1>4

\* Asking: a fresh config, so nothing is registered yet.
LEMMA AskingAsks ==
  ASSUME RegInv, NEW u \in Users, NEW c \in Configs,
         Register(u, c) \/ RegisterInvalid(u, c)
  PROVE  [Promised!Next]_(Promised!vars)
<1>1. /\ pc = "main" /\ ~Registered /\ sipUsername' = u /\ proxy_cfg' = c
      /\ pc' \in {"main", "registering"}
      /\ regState' = [regState EXCEPT ![c] = "None"]
  BY DEF Register, RegisterInvalid, MayRegister, AfterInvalid
<1>2. ~Registered'
  BY <1>1 DEF RegInv, TypeOK, Registered
<1>q. QED
  BY <1>1, <1>2 DEF Promised!Next, Promised!Ask

\* bot_unregister while registered in a loop that reads commands, or while
\* register waits: the config it takes out is the registered one.
LEMMA LeavingKeepsOrLoses ==
  ASSUME RegInv, pc \in {"main", "registering"}, Registered, NEW next,
         bot_unregister(next), UNCHANGED identity
  PROVE  /\ pc' = next
         /\ Registree # Null
         /\ Registree' \in {Registree, Null}
<1>1. /\ defaultProxy = proxy_cfg /\ proxy_cfg # Null
      /\ identity[proxy_cfg] # Null
  BY DEF RegInv, ListedIsNamed, Registered
<1>2. proxy_cfg' = proxy_cfg /\ pc' = next
  BY <1>1 DEF bot_unregister
<1>q. QED
  BY <1>1, <1>2 DEF Registree, Registered

\* bot_terminate, wherever SIGINT or the command finds the program.
LEMMA TerminatingCloses ==
  ASSUME AccountInv, bot_terminate, UNCHANGED <<sipUsername, identity>>,
         pc \notin {"ended", "crashed", "dead"}
  PROVE  [Promised!Next]_(Promised!vars)
<1>1. pc \in {"main", "registering", "unregistering", "ending", "farewell"}
  BY DEF AccountInv, RegInv, TypeOK, Control
<1>2. CASE Registered /\ pc \in {"main", "registering"}
  <2>1. pc' = "ending" /\ Registree # Null /\ Registree' \in {Registree, Null}
    BY <1>2, LeavingKeepsOrLoses DEF AccountInv, bot_terminate
  <2>q. QED
    BY <1>2, <2>1 DEF Promised!Next, Promised!Close, Registree
<1>3. CASE Registered /\ pc \in {"unregistering", "ending"}
  <2>1. pc' = "crashed" /\ UNCHANGED <<proxy_cfg, regState>>
    BY <1>3 DEF AccountInv, NoDefaultLeft, bot_terminate, bot_unregister
  <2>q. QED
    BY <1>3, <2>1 DEF Promised!Next, Promised!Break, Registered
<1>4. CASE ~Registered /\ pc # "farewell"
  <2>1. pc' = "farewell" /\ UNCHANGED <<proxy_cfg, regState>>
    BY <1>4 DEF bot_terminate
  <2>2. ~Registered'
    BY <1>4, <2>1 DEF Registered
  <2>q. QED
    BY <1>1, <1>4, <2>1, <2>2 DEF Promised!Next, Promised!Finish
<1>5. CASE ~Registered /\ pc = "farewell"
  <2>1. pc' = "crashed" /\ UNCHANGED <<proxy_cfg, regState>>
    BY <1>5 DEF bot_terminate
  <2>q. QED
    BY <1>5, <2>1 DEF Promised!Next, Promised!Break, Registered
<1>q. QED
  BY <1>1, <1>2, <1>3, <1>4, <1>5 DEF AccountInv, RegInv, EndsUnregistered

LEMMA AccountStep == AccountInv /\ [Next]_vars => [Promised!Next]_(Promised!vars)
<1> SUFFICES ASSUME AccountInv, [Next]_vars PROVE [Promised!Next]_(Promised!vars)
  OBVIOUS
<1>0. RegInv /\ TypeOK
  BY DEF AccountInv, RegInv
<1>1. CASE UNCHANGED vars
  BY <1>1 DEF vars, Promised!vars, Registered
<1>2. CASE Refresh
  BY <1>0, <1>2, TryingGrants DEF Refresh
<1>3. CASE RegisterTurn
  BY <1>0, <1>3, TryingGrants DEF RegisterTurn, RegInv
<1>4. CASE UnregisterTurn
  <2>1. /\ pc = "unregistering" /\ pc' \in {"main", "unregistering"}
        /\ sipUsername' = sipUsername
    BY <1>4 DEF UnregisterTurn
  <2>2. Registree' \in {Registree, Null}
    BY <1>0, <1>4, LeavingLoses DEF UnregisterTurn, TypeOK
  <2>3. CASE Registree' = Registree
    BY <2>1, <2>3 DEF Promised!vars, Registree
  <2>4. CASE Registree' = Null /\ Registree # Null
    BY <2>1, <2>4 DEF Promised!Next, Promised!Lost, Registree
  <2>q. QED  BY <2>2, <2>3, <2>4
<1>5. CASE EndTurn
  <2>1. /\ pc = "ending" /\ sipUsername' = sipUsername
        /\ pc' = IF UnregisteringOver(regState'[proxy_cfg]) THEN "farewell" ELSE "ending"
        /\ UNCHANGED <<proxy_cfg, identity>>
    BY <1>5 DEF EndTurn
  <2>2. Registree' \in {Registree, Null}
    BY <1>0, <1>5, LeavingLoses DEF EndTurn, TypeOK
  <2>3. CASE pc' = "farewell"
    <3>1. ~Registered'
      BY <2>1, <2>3 DEF UnregisteringOver, Registered
    <3>q. QED
      BY <2>1, <2>3, <3>1 DEF Promised!Next, Promised!Finish
  <2>4. CASE pc' = "ending" /\ Registree' = Registree
    BY <2>1, <2>4 DEF Promised!vars, Registree
  <2>5. CASE pc' = "ending" /\ Registree' = Null /\ Registree # Null
    BY <2>1, <2>5 DEF Promised!Next, Promised!Lost, Registree
  <2>q. QED  BY <2>1, <2>2, <2>3, <2>4, <2>5
<1>6. CASE \E u \in Users, c \in Configs : Register(u, c) \/ RegisterInvalid(u, c)
  BY <1>0, <1>6, AskingAsks
<1>7. CASE Unregister
  <2>1. /\ pc = "main" /\ pc' = "unregistering" /\ sipUsername' = Null
        /\ Registree # Null /\ Registree' \in {Registree, Null}
    BY <1>0, <1>7, LeavingKeepsOrLoses DEF Unregister
  <2>q. QED
    BY <2>1 DEF Promised!Next, Promised!Withdraw, Registree
<1>8. CASE End
  BY <1>8, TerminatingCloses DEF End
<1>9. CASE CtrlC
  <2>1. CASE bot_terminate
    BY <1>9, <2>1, TerminatingCloses DEF CtrlC
  <2>2. CASE pc' = "crashed" /\ UNCHANGED <<proxy_cfg, regState>>
    BY <1>9, <2>2 DEF CtrlC, Promised!Next, Promised!Break, Registered
  <2>q. QED  BY <1>9, <2>1, <2>2 DEF CtrlC
<1>10. CASE Quit
  BY <1>10 DEF Quit, Promised!vars, Registered
<1>11. CASE Dies
  BY <1>11 DEF Dies, Promised!Next, Promised!Break, Registered
<1>q. QED
  BY <1>1, <1>2, <1>3, <1>4, <1>5, <1>6, <1>7, <1>8, <1>9, <1>10, <1>11 DEF Next, Waits

\* The program is registered only as the identity asked for last, and never again
\* once it was told to unregister or ends, for any configs and identities and
\* however the library refreshes, fails and retries in the background.
THEOREM RegisteringIsAnAccount == SettingsSpec => RefinesAccount
<1>1. SettingsInit => AccountInv /\ Promised!Init
  BY RegInit DEF SettingsInit, AccountInv, NoDefaultLeft, Init, Promised!Init, Registered
<1>2. AccountInv /\ [SettingsNext]_allVars => AccountInv'
  BY RegStep, DefaultStep, SettingsStep DEF AccountInv
<1>3. AccountInv /\ [SettingsNext]_allVars => [Promised!Next]_(Promised!vars)
  BY AccountStep, SettingsStep
<1>q. QED  BY <1>1, <1>2, <1>3, PTL DEF SettingsSpec, RefinesAccount, Promised!Spec

-----------------------------------------------------------------------------
(* The NAT policy.                                                         *)

NatInv == NatTypeOK /\ StunHasServer

LEMMA NatStep == NatInv /\ [NatNext]_natVars => NatInv'
<1> SUFFICES ASSUME NatInv, [NatNext]_natVars PROVE NatInv'
  OBVIOUS
<1> USE NoNameIsNoServer DEF NatInv, NatTypeOK, StunHasServer, SaysStun, Policy
<1>1. CASE UNCHANGED natVars
  BY <1>1 DEF natVars
<1>2. ASSUME NEW a \in Servers, SetStun(a) PROVE NatInv'
  BY <1>2 DEF SetStun, Stun, Unresolved
<1>3. ASSUME NEW a \in Servers, NEW u \in TurnUsers, SetTurn(a, u) PROVE NatInv'
  BY <1>3 DEF SetTurn, Stun
<1>4. CASE DisableNat
  BY <1>4 DEF DisableNat, Cleared
<1>q. QED  BY <1>1, <1>2, <1>3, <1>4 DEF NatNext

LEMMA NatAlways == SettingsSpec => []NatInv
<1>1. SettingsInit => NatInv
  BY DEF SettingsInit, NatInit, NatInv, NatTypeOK, StunHasServer, Policy
<1>2. NatInv /\ [SettingsNext]_allVars => NatInv'
  BY NatStep, SettingsStep
<1>q. QED  BY <1>1, <1>2, PTL DEF SettingsSpec

\* The policy is always one the library can have.
THEOREM PolicyTyped == SettingsSpec => []NatTypeOK
<1>1. NatInv => NatTypeOK  BY DEF NatInv
<1>q. QED  BY <1>1, NatAlways, PTL

\* When status says STUN is enabled so is ICE, with a server that resolved,
\* after any sequence of -s, -s -t and -sd.
THEOREM StunIsUsable == SettingsSpec => []StunHasServer
<1>1. NatInv => StunHasServer  BY DEF NatInv
<1>q. QED  BY <1>1, NatAlways, PTL
=============================================================================
