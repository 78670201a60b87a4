CONSTANTS
  Word = 8
  Confs <- OneAndTwoSlots
  Conn = {c1, c2}
  NoConn = NoConn
  MaxCloses = 2
SPECIFICATION FairServerSpec
INVARIANTS
  LeaseExclusive
  NoLeak
  TableExact
PROPERTIES
  ImplementsLease
  ShutdownCompletes
  AddressReclaimed
