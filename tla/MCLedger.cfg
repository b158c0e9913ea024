CONSTANTS
  Acct = {root, ann}
  Denom = {gold}
  Note = {n1, n2}
  Root = root
  None = none
  Amounts <- MCUnit
  FlagSets <- MCFlagSets
  MaxBalance = 1
SYMMETRY MCSymmetry
SPECIFICATION LedgerSpec
INVARIANTS
  TypeOK
  NoteIndexExact
  DenomIndexComplete
  NotesBacked
PROPERTIES
  SupplyConserved
  AuditTrail
  OverdraftAuthorised
CHECK_DEADLOCK FALSE
