\* Two clicks on Connect, two messages and two keys; queues of one.
CONSTANTS
  Sessions = {1, 2}
  InCap = 1
  SendCap = 1
  MaxOut = 2
  MaxKeys = 2
  Nil = Nil
SPECIFICATION FairSpec
INVARIANTS TypeOK ScreenWhole KeysInOrder KeptOnceConnected OneSession
PROPERTY Settles
CHECK_DEADLOCK FALSE
