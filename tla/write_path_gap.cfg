SPECIFICATION FairSpec
CONSTANTS
  Request = {r1, r2}
  BatchSize = {1, 2}
  Relay = {rl1}
  Fault = {"rollback"}
  MaxFaults = 1
PROPERTIES AcceptedIsProjected
