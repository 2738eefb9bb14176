SPECIFICATION TransferSpec
CONSTANTS
  Runs = {r1, r2}
  Names = {a, b}
  Files = {a, b}
  FileOf <- MCFileOf
  StaleAfter = 0
  Times = {0, 1}
  Contents = {0, 1}
  Initial = 0
  Drafts = {1}
  Commands = {"checkout", "checkin"}
  MaxFaults = 0
  MaxMeddling = 0
  MaxWeeks = 0
  Null = Null
SYMMETRY MCSymmetry
INVARIANTS LocksAreRecoverable
