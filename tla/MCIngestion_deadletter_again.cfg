SPECIFICATION Spec
CONSTANTS
  k1 = k1
  k2 = k2
  s1 = s1
  s2 = s2
  p1 = p1
  p2 = p2
  NoSlot = NoSlot
  NoRequest = NoRequest
  NoProc = NoProc
  NoKey = NoKey
  Key = {k1}
  Request = {r1, r2}
  Slot = {s1}
  Proc = {p1}
  ProcOf <- SingleSlot
  Batch <- ResendBatches
  MaxRetries = 1
  MaxStalled = 1
  MaxCrashes = 0
  MaxFaults = 0
INVARIANTS
  EveryFailureIsRecorded
