SPECIFICATION FairSpec
CONSTANTS
  Messages = {m1}
  Notice = notice
  MaxTasks = 3
  MaxChunks = 2
  DelayInitial = 1
  DelayMax = 2
  MaxDrops = 1
  MaxExpiries = 1
  MaxBoots = 1
INVARIANTS IInv AtMostOnce SilenceHasReason
PROPERTIES TasksEnd Reconnects ImplementsDelivery
CHECK_DEADLOCK FALSE
