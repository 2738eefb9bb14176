\* A decision that arrives while the request is still being posted, and then posting fails.
CONSTANTS
  Null = Null
  ItemA = ItemA
  ItemB = ItemB
  Items <- MCItems
  Instances = {i1}
  Batches <- OneBatch
  Selections = {}
  Durations = {1}
  DefaultDuration = 1
  PendingTimeout = 2
  Times = {0}
  MaxDrift = 0
  MayStepBack = FALSE
  EventIds = {e1}
  MaxRequests = 1
  Clients = {c1}
  Approver = Approver
  Strangers = {}
  Vocabulary <- Approving
  UndoGrace = 1
  MaxCommands = 1
  MaxFailures = 1
  MaxRestarts = 0
SPECIFICATION PlaneSpec
INVARIANTS ErrorsAreRolledBack
