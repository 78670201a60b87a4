SPECIFICATION ClientLiveSpec
CONSTANTS
  MaxConns = 2
  ServerProtos <- CommonProtos
INVARIANTS ClientTypeOK ConnReleased OneDevice PanicsExplained
PROPERTIES ImplementsLife StopEndsWatcher StopEndsReader LossIsRetried
