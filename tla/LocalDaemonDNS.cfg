SPECIFICATION DaemonSpec
CONSTANTS
  MaxClients = 2
INVARIANTS OverrideRestorable
