SPECIFICATION FairSpec
CONSTANTS
  Users <- Trio
  MaxSockets = 3
  Environments <- Links
INVARIANTS SettledIsLinked NoEndToAbsent
PROPERTY EventuallyLinked
CHECK_DEADLOCK FALSE
