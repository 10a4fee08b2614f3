\* A client that is enrolled while the agent waits.
CONSTANTS
  prod = prod
  web = web
  Networks = {prod}
  Names = {web}
  Agents = {web1}
  AgentConns = {c1}
  ClientConns = {k1}
  Lists = {{other}, {k1, other}}
  PeerOf <- SameName
  MaxEntries = 1
  MaxFaults = 0
  MaxEdits = 1
  Nil = Nil
SPECIFICATION Spec
PROPERTY EnrolmentTakesEffect
CHECK_DEADLOCK FALSE
