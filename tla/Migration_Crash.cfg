SPECIFICATION Spec
CONSTANTS
  Processes = {"p1"}
  None = None
INVARIANT CanMigrate
