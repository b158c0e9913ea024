CONSTANTS
  Thread = {t1, t2, t3, t4}
  Shell = {c1, c2, c3}
  Superuser = {c1, c2}
  FeedShell = {f1, f2}
  FeedAcct = {bob}
  Acct = {root, ann}
  Denom = {gold, iron}
  Note = {}
  Offer = {o1, o2}
  Root = root
  None = none
  Amounts <- MCUnits
  FlagSets <- MCNoFlags
  MaxBalance = 2
  Null = null
  MaxEvents = 2
SPECIFICATION MCSpec
INVARIANTS
  NoLostWakeup
PROPERTIES
  ImplementsReadersWriters
  CommandsNotCut
  FreeLockTaken
  OffersExecuted
  PendingEventRead
  ShutdownEnds
CHECK_DEADLOCK FALSE
