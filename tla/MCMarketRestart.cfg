CONSTANTS
  Acct = {root, ann}
  Denom = {gold, iron}
  Note = {}
  Offer = {o1, o2}
  Root = root
  None = none
  Amounts <- MCUnits
  FlagSets <- MCNoFlags
  MaxBalance = 2
SPECIFICATION MCRestartSpec
PROPERTIES
  OffersExecuted
CHECK_DEADLOCK FALSE
