SPECIFICATION AppLiveSpec
CHECK_DEADLOCK FALSE
CONSTANTS
  MaxClients = 3
  Capacity = 2
  Servers = {s1, s2}
  NoServer = NoServer
  MaxCalls = 2
INVARIANTS BridgeTypeOK OneBridge ProviderTypeOK
PROPERTIES PushReturns StoppedIsNoticed
