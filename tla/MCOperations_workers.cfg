CONSTANTS
  Replica = {w1, w2}
  Attempts = 2
  Statements = 2
  BeatTTL = 3
  MaxOutages = 2
SPECIFICATION Spec
INVARIANTS HeartbeatIsSomeones ConsumersAreMigrated BucketIsLostByOutageOnly
