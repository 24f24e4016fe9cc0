SPECIFICATION Spec
CONSTANTS
  Nil = Nil
  Request <- Four
  Command <- MemoryCommands
  Clock <- MemoryClock
  Enqueuer = {2}
  Reader = {k1}
INVARIANTS NoRunFailsHalfWay BatchesAreWhole AgreesWithPostgres HeldViewsExtend
PROPERTIES ImplementsOrderedDelivery
