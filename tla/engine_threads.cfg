SPECIFICATION EngineSpec
CONSTANTS
  Nil = Nil
  Request <- Four
  Command <- ThreadCommands
  BatchSize = {1, 2, 3}
  Relay = {rl1}
  Fault <- Faults
  MaxFaults = 1
INVARIANTS RunsAreApplicable ReadYourWrites AuthorsWereMembers MembershipAgreesUnlessRedundant
PROPERTIES ImplementsWritePath NotFoundOnlyBeforeProjected
