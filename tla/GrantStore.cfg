\* The store under a monotonic clock: two requests, every call.
CONSTANTS
  ItemA = ItemA
  ItemB = ItemB
  Null = Null
  Instances = {i1}
  Items <- MCItems
  Batches <- MCBatches
  Selections <- MCSelections
  Durations = {1, 2}
  PendingTimeout = 2
  Times = {0, 1, 2, 3, 4}
  MaxDrift = 1
  MayStepBack = FALSE
  EventIds = {e1}
  MaxRequests = 2
SPECIFICATION StoreSpec
INVARIANTS StoreTypeOK RowsCoherent SilenceGrantsNothing
PROPERTIES OneTimeUse NeverWidens LifecycleSpec
