SPECIFICATION Spec
CONSTANTS
  Users <- Pair
  MaxSockets = 3
  Environments <- Repairs
INVARIANTS TypeOK RekeyRepairs 
CHECK_DEADLOCK FALSE
