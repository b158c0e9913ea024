CONSTANTS
  Acct = {root, ann}
  Denom = {gold, iron}
  Note = {n1}
  Offer = {o1}
  Root = root
  None = none
  Amounts <- MCUnit
  FlagSets <- MCSuperFlags
  MaxBalance = 1
SYMMETRY MCSymmetry
SPECIFICATION MCSystemSpec
PROPERTIES
  SystemAccounted
CHECK_DEADLOCK FALSE
