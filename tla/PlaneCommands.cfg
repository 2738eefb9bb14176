\* Typed commands against the clock: undo, mass revocation, timeouts and the sweep.
CONSTANTS
  Null = Null
  ItemA = ItemA
  ItemB = ItemB
  Items <- MCItems
  Instances = {i1}
  Batches <- OneBatch
  Selections = {}
  Durations = {2}
  DefaultDuration = 2
  PendingTimeout = 1
  Times = {0, 1}
  MaxDrift = 0
  MayStepBack = FALSE
  EventIds = {e1, e2, e3}
  MaxRequests = 3
  Clients = {c1}
  Approver = Approver
  Strangers = {}
  Vocabulary <- Commands
  UndoGrace = 1
  MaxCommands = 3
  MaxFailures = 0
  MaxRestarts = 0
SPECIFICATION PlaneSpec
INVARIANTS UndoRefiles NoticesHold KillSwitchHolds
