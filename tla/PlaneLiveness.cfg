\* Everything that must eventually happen, under a fair event loop.
CONSTANTS
  Null = Null
  ItemA = ItemA
  ItemB = ItemB
  Items <- MCItems
  Instances = {i1}
  Batches <- OneBatch
  Selections = {}
  Durations = {1}
  DefaultDuration = 1
  PendingTimeout = 1
  Times = {0, 1}
  MaxDrift = 0
  MayStepBack = FALSE
  EventIds = {e1, e2}
  MaxRequests = 2
  Clients = {c1}
  Approver = Approver
  Strangers = {}
  Vocabulary <- Undoing
  UndoGrace = 1
  MaxCommands = 2
  MaxFailures = 1
  MaxRestarts = 1
SPECIFICATION FairPlane
PROPERTIES CallsAreAnswered TimeoutsAreAnnounced InputsAreDispatched VerdictsReachTheRoom
