SPECIFICATION ReconnectLiveSpec
CONSTANTS
  Word = 8
  Confs <- ThreeSlots
  Conn = {h1, h2, h3}
  NoConn = NoConn
  MaxCloses = 0
  Client = {c1, c2}
  MaxFaults = 2
INVARIANTS ReconnectTypeOK 
PROPERTIES Rejoins
