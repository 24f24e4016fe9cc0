SPECIFICATION EngineSpec
CONSTANTS
  Nil = Nil
  Request <- Four
  Command <- DoubleAddCommands
  BatchSize = {1, 2, 3}
  Relay = {rl1}
  Fault = {"reject"}
  MaxFaults = 0
INVARIANTS MembershipAgrees
