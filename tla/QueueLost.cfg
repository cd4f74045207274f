SPECIFICATION Spec
CONSTANTS
  Tasks = {1, 2}
  Slots = {1}
  PoolSlots = {1}
  GoneSlots = {}
  MaxCrashes = 0
  MaxFaults = 0
PROPERTY SubmittedNotLost
