SPECIFICATION FairSpec
CONSTANTS
  Request = {r1, r2, r3}
  BatchSize = {1, 2}
  Relay = {rl1}
  Fault <- AnyFault
  MaxFaults = 2
INVARIANTS ExactlyOnceInOrder
PROPERTIES ImplementsOrderedDelivery ProjectedUnlessHalted
