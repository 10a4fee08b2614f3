\* Two peers in each of two networks: a registration can be replaced, a stale
\* connection removed, one network emptied while the other keeps its peers.
CONSTANTS
  Networks = {prod, edge}
  Names = {web, db}
  Keys = {kw, kd}
  Conns = {c1, c2}
  Nil = Nil
SPECIFICATION Spec
INVARIANTS TypeOK CountsMatchLists
PROPERTY ImplementsDirectory
