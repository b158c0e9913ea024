CONSTANTS
  Client = {c1, c2}
  r1 = r1
  r2 = r2
  Row <- MCRows
  Script <- MCCrossed
  Opening <- MCFlags
  Nobody = nobody
  Lost = lost
  Faulty = TRUE
  Leaky = TRUE
SPECIFICATION TxnSpec
PROPERTIES
  TreatedAsTransaction
CHECK_DEADLOCK FALSE
