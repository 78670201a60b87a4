CONSTANTS
  Word = 8
  Confs <- TwoSlots
  Conn = {c1, c2}
  NoConn = NoConn
  MaxCloses = 0
  Ports = {p1, p2}
  MaxDgrams = 2
SYMMETRY RelaySymmetry
SPECIFICATION DataSpec
INVARIANTS
  EndpointClaimed
