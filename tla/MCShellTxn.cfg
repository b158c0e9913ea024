CONSTANTS
  Client = {c1, c2, c3}
  r1 = r1
  r2 = r2
  Row <- MCRows
  Script <- MCCrossed
  Opening <- MCFlags
  Nobody = nobody
  Lost = lost
  Faulty = FALSE
  Leaky = FALSE
SPECIFICATION SoundSpec
PROPERTIES
  TreatedAsTransaction
  CommandsAnswered
CHECK_DEADLOCK FALSE
