SPECIFICATION PartsSpec
CONSTANTS
  Word = 32
  Confs <- SmallConfs
  Rates <- SmallRates
  TicksPerSecond = 2
  Sizes = {1, 2, 3}
  MaxTime = 8
  Lengths <- TunnelLengths
  Addresses <- TwoAddresses
  Versions = {4, 6}
  OutBuf = 65535
  InBuf = 1300
  PathMTU = 1500
  eth0 = eth0
  wlan0 = wlan0
  Iface <- TwoIfaces
  NoIface = NoIface
  OutIface = NoIface
  EnableNAT = TRUE
  MaxLapses = 2
INVARIANTS
  ReservedNeverLeased MissesOnlyFirstSlot
  RateBound
  FrameFits RoundTrip
  OneCopyPerLapse
PROPERTIES ShutdownRemoves
