SPECIFICATION Spec
CONSTANTS
  c1 = c1 c2 = c2 n1 = n1 n2 = n2 k1 = k1 k2 = k2 nil = nil
  Client = {c1}
  Addr = {n1, n2}
  Slot = {k1, k2}
  Nil = nil
  Requests <- GetEither
  Topologies <- Changing
  Boot <- Spread
  MaxActive = 2
  RequestTimeout = FALSE
  Faults = {"clientClose", "clientWrite", "serverClose", "dial", "immediate", "error", "large", "auth", "unauthorized", "empty"}
  MaxDial = 3
  MaxReq = 2
  MaxTick = 1
  MaxMigrate = 0
INVARIANTS
  SignalPending
  PoolBound
  NoLeak
  QueuedInOrder
CHECK_DEADLOCK FALSE
