CONSTANTS
  Acct = {root, ann}
  Denom = {gold}
  Note = {n1}
  Offer = {}
  Text = {coin}
  Root = root
  None = none
  Amounts <- MCUnit
  FlagSets <- MCFlagSets
  MaxBalance = 1
  MaxEvents = 5
SPECIFICATION MCSpec
INVARIANTS
  QueriesAnswered
  ListsReadable
  EventListExact
  HistoryExplainsBalance
PROPERTIES
  NewAcctReadsNew
CHECK_DEADLOCK FALSE
