CONSTANTS
  Proc = {p1, p2, p3}
  None = none
  Shell = {c1, c2}
  Acct = {ann, bob}
  Client = {s1, s2}
  Cell = {x, y, z}
  NULL = nil
  Null = null
  MaxEvents = 2
  MaxId = 3
  MaxCmd = 3
  MaxEvent = 2
  MaxBegun = 3
  MaxCrashes = 2
  MaxFailures = 2
  MaxWord = 2
  MaxArgs = 2
  MaxSent = 2
  LineMax = 9
  ArgMax = 2
  MaxBalance = 3
  Amounts <- MCAmounts
SYMMETRY MCSymmetry
SPECIFICATION MCSpec
INVARIANTS
  OneServer
  PidFileExplained
  ClientListIntact
  
  AnswerOwn
  OutcomeKept
  ExecutedAsSent
  QuantitiesKept
PROPERTIES
  ToldOnce
CHECK_DEADLOCK FALSE
