CONSTANTS
  Caller = {c1, c2}
  Hwids = {d1, d2}
  Limits = {0, 2}
  MaxUsers = 2
  MaxKeys = 3
  MaxConns = 4
  MaxIdle = 2
SYMMETRY Symmetries
SPECIFICATION AccountsSpec
INVARIANTS
  DeviceQuota
PROPERTY AdmittedOnlyRegistered
