SPECIFICATION Spec
CONSTANTS
  c1 = c1 c2 = c2 n1 = n1 n2 = n2 k1 = k1 k2 = k2 nil = nil
  Client = {c1, c2}
  Addr = {n1, n2}
  Slot = {k1, k2}
  Nil = nil
  Requests <- GetAndMGet
  Topologies <- SpreadOnly
  Boot <- Loading
  MaxActive = 1
  RequestTimeout = FALSE
  Faults = {}
  MaxDial = 1
  MaxReq = 2
  MaxTick = 0
  MaxMigrate = 0
INVARIANTS
  DoneMeansAll
CHECK_DEADLOCK FALSE
