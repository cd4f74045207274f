SPECIFICATION FairSpec
CONSTANTS
  Hooks = {h1}
  Monitors = {m1, m2}
  Budget = 1
  MaxAccidents = 1
INVARIANTS IInv LockIsHeld BudgetKept
PROPERTIES MonitorsEnd StopStays
