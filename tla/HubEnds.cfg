\* One name, two agent connections (recycled) and two clients; the far ends may
\* stop reading for ever, and may go away or stay.
CONSTANTS
  Networks = {prod}
  Names = {web}
  Keys = {kw}
  AgentConns = {a1, a2}
  ClientConns = {k1, k2}
  MaxEntries = 1
  Nil = Nil
SPECIFICATION FairSpec
PROPERTIES ShutdownEnds SessionEnds
CHECK_DEADLOCK FALSE
