SPECIFICATION EngineSpec
CONSTANTS
  Nil = Nil
  Request <- Three
  Command <- OverlapCommands
  BatchSize = {1, 2, 3}
  Relay = {rl1, rl2}
  Fault <- Faults
  MaxFaults = 1
INVARIANTS RowsMatchLog MembershipSurvivesOverlap
