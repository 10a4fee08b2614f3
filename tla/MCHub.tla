-------------------------------- MODULE MCHub --------------------------------
(***************************************************************************)
(* Hub, for TLC: connections of one kind are interchangeable.              *)
(***************************************************************************)
EXTENDS Hub, TLC

\* Sound for the invariants and the action property, not for liveness.
Symmetry == Permutations(AgentConns) \cup Permutations(ClientConns)
==============================================================================
