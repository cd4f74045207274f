SPECIFICATION Spec
CONSTANTS
  Tasks = {1, 2}
  Slots = {1, 2}
  PoolSlots = {1}
  GoneSlots = {9}
  MaxCrashes = 2
  MaxFaults = 1
INVARIANTS IInv ProcessesBounded
PROPERTIES RecoveryRepairs ImplementsLease
CHECK_DEADLOCK FALSE
