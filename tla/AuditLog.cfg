\* Failing and torn writes, crashes between the writes, a lost tail, restarts.
CONSTANTS
  MaxRecords = 5
  MaxFaults = 3
SPECIFICATION AuditSpec
INVARIANTS OperatedIsRecorded LossIsDetected OperatesOnAVerifiedChain
CHECK_DEADLOCK FALSE
