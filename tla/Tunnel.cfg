\* A command, or a terminal with two keystrokes; two pieces of output; a PTY
\* that holds one piece, so that writes to it block.
CONSTANTS
  Agent = agent
  Client = client
  Network = prod
  Name = web
  Key = kw
  Nil = Nil
  Modes = {"exec", "interactive"}
  MaxIn = 2
  MaxOut = 2
  PtyCap = 1
SPECIFICATION FairSpec
INVARIANTS TypeOK ExecComplete
PROPERTIES Streams WindsDown
CHECK_DEADLOCK FALSE
