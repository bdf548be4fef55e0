SPECIFICATION SettingsFairSpec
CONSTANTS
  Null = Null
  Configs = {k1, k2, k3}
  Users = {joe, bad}
  Valid = {joe}
  NoName = NoName
  Servers = {s1, s2}
  TurnUsers = {t1}
INVARIANTS
  TypeOK
  StatusNamesRegistered
  OwnProxyOnly
  EndsUnregistered
  NatTypeOK
  StunHasServer
PROPERTIES
  RefinesAccount
  
  WaitsEnd
  CtrlCEnds
\* the program ends
CHECK_DEADLOCK FALSE
