\* One agent, a client that may or may not be enrolled, and two faults.
CONSTANTS
  prod = prod
  web = web
  Networks = {prod}
  Names = {web}
  Agents = {web1}
  AgentConns = {c1, c2}
  ClientConns = {k1}
  Lists = {{other}, {k1, other}}
  PeerOf <- SameName
  MaxEntries = 1
  MaxFaults = 2
  MaxEdits = 0
  Nil = Nil
SPECIFICATION FairSpec
PROPERTIES AttemptEnds AgentFreed Heals
CHECK_DEADLOCK FALSE
