CONSTANTS
  Word = 8
  Confs <- OneSlot
  Conn = {c1}
  NoConn = NoConn
  MaxCloses = 1
  Ports = {p1}
  MaxDgrams = 1
SPECIFICATION FairDataSpec
PROPERTY
  RxLoopExits
