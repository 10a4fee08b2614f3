\* Two agents that take one name from each other; either two clients that race
\* for it, or one, with two faults and an edit of the authorized-clients file.
CONSTANTS
  prod = prod
  web = web
  Networks = {prod}
  Names = {web}
  Agents = {web1, web2}
  AgentConns = {c1, c2}
  ClientConns = {k1, k2}
  Lists = {{other}, {k1, k2, other}}
  PeerOf <- SameName
  MaxEntries = 1
  MaxFaults = 2
  MaxEdits = 1
  Nil = Nil
SYMMETRY Symmetry
SPECIFICATION MCSpec
INVARIANTS TypeOK Agreement
CHECK_DEADLOCK FALSE
