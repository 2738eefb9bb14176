\* Two requests, reactions and replies, a stranger, a failed send and a restart.
CONSTANTS
  Null = Null
  ItemA = ItemA
  ItemB = ItemB
  Items <- MCItems
  Instances = {i1}
  Batches <- OneBatch
  Selections <- BadSelection
  Durations = {1}
  DefaultDuration = 1
  PendingTimeout = 2
  Times = {0}
  MaxDrift = 0
  MayStepBack = FALSE
  EventIds = {e1, e2}
  MaxRequests = 2
  Clients = {c1, c2}
  Approver = Approver
  Strangers = {Stranger}
  Vocabulary <- Decisions
  UndoGrace = 1
  MaxCommands = 2
  MaxFailures = 1
  MaxRestarts = 1
SPECIFICATION PlaneSpec
INVARIANTS ApprovalsAreOrdered  VerdictsHold
PROPERTIES StoreSpec
SYMMETRY Requests
