\* Three processes, three keys: two of them may race to create the file.
CONSTANTS
  Procs = {p1, p2, p3}
  Keys <- SomeKeys
  Tag <- Multicodec
  Base = 4
  Radix = 3
  KeyLen = 2
  Nil = Nil
SPECIFICATION DeviceSpec
INVARIANTS TypeOK OneIdentity AuthorizedIsDevice
CHECK_DEADLOCK FALSE
