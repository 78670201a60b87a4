SPECIFICATION AdminSpec
CONSTANTS
  r1 = r1
  r2 = r2
  Request <- TwoRequests
  MaxUsers = 3
  MaxKeys = 6
INVARIANTS KeysGuarded
PROPERTIES RoleSeparation WipeRemovesListed
SYMMETRY Symmetric
