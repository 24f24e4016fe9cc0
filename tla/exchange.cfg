SPECIFICATION Spec
CONSTANTS
  Nil = Nil
  Garbled = Garbled
  Caller = {"k1", "k2"}
  Command <- Commands
  Past <- Started
  MaxFaults = 1
INVARIANTS VerdictsAreTrue  RefusalsHaveReasons
PROPERTIES  EveryCallEnds
