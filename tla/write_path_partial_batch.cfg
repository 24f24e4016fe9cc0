SPECIFICATION Spec
CONSTANTS
  Request = {r1, r2, r3}
  BatchSize = {1, 2}
  Relay = {rl1}
  Fault = {}
  MaxFaults = 0
INVARIANTS NoPartialBatch
