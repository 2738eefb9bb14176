\* A failing write that leaves a part of its line in the file.
CONSTANTS
  MaxRecords = 3
  MaxFaults = 1
SPECIFICATION AuditSpec
PROPERTIES BrokenIsNeverExtended
CHECK_DEADLOCK FALSE
