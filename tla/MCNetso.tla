------------------------------- MODULE MCNetso -------------------------------
(***************************************************************************)
(* Netso, for TLC: who registers as what.                                  *)
(***************************************************************************)
EXTENDS Netso, TLC

CONSTANTS prod, web

\* Every agent registers under the same name: the later replaces the earlier.
SameName == [a \in Agents |-> [network |-> prod, name |-> web, pubkey |-> a]]

\* Either both clients, both enrolled, and nothing goes wrong; or one of them,
\* enrolled or not, with all the faults and edits.
MCInit ==
  \/ Start(ClientConns, 0, 0) /\ ClientConns \subseteq enrolled
  \/ \E k \in ClientConns : Start({k}, MaxFaults, MaxEdits)
MCSpec == MCInit /\ [][Next]_vars

\* Sound for invariants and action properties; agents are all registered alike.
Symmetry ==
  Permutations(Agents) \cup Permutations(AgentConns) \cup Permutations(ClientConns)
==============================================================================
