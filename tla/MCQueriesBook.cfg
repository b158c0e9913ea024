CONSTANTS
  Acct = {root, ann}
  Denom = {gold, iron}
  Note = {}
  Offer = {o1, o2, o3}
  Text = {}
  Root = root
  None = none
  Amounts <- MCUnits
  FlagSets = {}
  MaxBalance = 2
  MaxEvents = 0
SYMMETRY MCSymmetry
SPECIFICATION MCBookSpec
INVARIANTS
  OfferTablesAgree
  CrossedBookAttended
  BookListedInOrder
PROPERTIES
  WealthAccounted
  LimitPriceHonoured
  TradeFillsAnOffer
CHECK_DEADLOCK FALSE
