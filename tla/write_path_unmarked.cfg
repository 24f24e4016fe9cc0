SPECIFICATION FairSpec
CONSTANTS
  Request = {r1, r2}
  BatchSize = {1, 2}
  Relay = {rl1}
  Fault = {"afterApply"}
  MaxFaults = 1
PROPERTIES AcceptedIsProjected
