SPECIFICATION Spec
CONSTANTS
  Handlers = {h1, h2, h3}
  HistoryMax = 2
  MaxPlans = 3
  MaxCrashes = 2
  MaxFaults = 1
  MaxKept = 1
INVARIANTS IInv RunsOnce OneVerdict ResultsArrive
PROPERTIES PendingKept ImplementsDesk
CHECK_DEADLOCK FALSE
