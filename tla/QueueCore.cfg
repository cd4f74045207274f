SPECIFICATION FairSpec
CONSTANTS
  Tasks = {1, 2}
  Slots = {1, 2}
  PoolSlots = {1, 2}
  GoneSlots = {}
  MaxCrashes = 0
  MaxFaults = 0
INVARIANTS IInv SlotKeepsItsTask LiveTracked CleanupUnreachable
PROPERTIES BusyGetsProcess PendingNotStarved CancelKills
