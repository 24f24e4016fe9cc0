SPECIFICATION Spec
CONSTANTS
  Request = {r1, r2, r3}
  BatchSize = {1, 2}
  Relay = {rl1, rl2}
  Fault <- AnyFaultOrReject
  MaxFaults = 2
SYMMETRY RequestSymmetry
INVARIANTS TypeOK BatchAllOrNothing NothingLost AcceptedIsReadable
PROPERTIES NoCommitBehindCheckpoint CheckpointMonotone HaltsAreFinal
