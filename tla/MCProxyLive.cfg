SPECIFICATION FairSpec
CONSTANTS
  c1 = c1 c2 = c2 n1 = n1 n2 = n2 k1 = k1 k2 = k2 nil = nil
  Client = {c1, c2}
  Addr = {n1, n2}
  Slot = {k1, k2}
  Nil = nil
  Requests <- GetEither
  Topologies <- SpreadOnly
  Boot <- Spread
  MaxActive = 1
  RequestTimeout = FALSE
  Faults = {"ask", "clientClose"}
  MaxDial = 1
  MaxReq = 2
  MaxTick = 0
  MaxMigrate = 1
INVARIANTS
  RequestUnderway
PROPERTIES
  EveryRequestAnswered
CHECK_DEADLOCK FALSE
