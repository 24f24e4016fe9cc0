SPECIFICATION Spec
CONSTANTS
  Replica = {a1, a2, a3}
  Migrations = 2
  MaxAccepted = 2
  MaxExits = 2
  None = None
INVARIANTS MigratedOnceInOrder NothingMeetsHalfASchema
PROPERTIES AllServe 
