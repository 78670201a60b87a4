SPECIFICATION DaemonLiveSpec
CONSTANTS
  MaxClients = 2
INVARIANTS DaemonTypeOK OneRunning DnsOnlyWithDevice
PROPERTIES StopReturns
