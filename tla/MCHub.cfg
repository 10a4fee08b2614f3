\* Two networks that use the same peer name, three agent connections (identities
\* are recycled, so registrations never run out) and two clients: replacement
\* while a session runs, two clients racing for one peer, a session per network.
CONSTANTS
  Networks = {prod, edge}
  Names = {web}
  Keys = {kw}
  AgentConns = {a1, a2, a3}
  ClientConns = {k1, k2}
  MaxEntries = 1
  Nil = Nil
SYMMETRY Symmetry
SPECIFICATION Spec
INVARIANTS TypeOK NoLeak OneOwner OfferedIsOpen Routed AuditIsLive
PROPERTY CloseHasReason
CHECK_DEADLOCK FALSE
