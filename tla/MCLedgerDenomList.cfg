CONSTANTS
  Acct = {root, ann}
  Denom = {gold}
  Note = {n1}
  Root = root
  None = none
  Amounts <- MCUnit
  FlagSets <- MCFlagSets
  MaxBalance = 1
SPECIFICATION LedgerSpec
INVARIANTS
  DenomListExact
CHECK_DEADLOCK FALSE
