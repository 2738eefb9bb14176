SPECIFICATION TransferSpec
CONSTANTS
  Runs = {r1, r2, r3}
  Names = {a}
  Files = {a}
  FileOf <- MCFileOf
  StaleAfter = 0
  Times = {0, 1}
  Contents = {0, 1}
  Initial = 0
  Drafts = {1}
  Commands = {"fetch", "checkout", "checkin", "push", "gc"}
  MaxFaults = 1
  MaxMeddling = 1
  MaxWeeks = 1
  Null = Null
SYMMETRY MCSymmetry
INVARIANTS TransferTypeOK PushesAreExclusive NobodyIsRobbed  StagedIsWhole TokensAreKept
PROPERTIES LockSpec CheckinReplacesItsCheckout LocksEndWithTheirWork WritesAreExclusive
