------------------------------- MODULE Registry ------------------------------
(***************************************************************************)
(* internal/registry: the map network -> name -> record of the hub's live  *)
(* registrations.  Every operation runs under the registry's mutex, so     *)
(* each is one action.  A network has an entry only while it has a peer.   *)
(***************************************************************************)
EXTENDS Naturals, FiniteSets

CONSTANTS Networks, Names, Keys, Conns, Nil

VARIABLE m            \* Registry.m, both maps partial functions

Peer == [network : Networks, name : Names, pubkey : Keys]
Record == [peer : Peer, conn : Conns]

ASSUME NilAssumption == Nil \notin Record

\* Map update and delete(map, key).
With(f, k, v) == [j \in DOMAIN f \cup {k} |-> IF j = k THEN v ELSE f[j]]
Without(f, k) == [j \in DOMAIN f \ {k} |-> f[j]]

Has(n, x) == n \in DOMAIN m /\ x \in DOMAIN m[n]

Init == m = [n \in {} |-> {}]

\* Mutant: the record is stored without its connection.
AddWithoutConn(p, c) == m' = With(m, p.network, With([x \in {} |-> Nil], p.name, [peer |-> p]))
Add(p, c) ==
  LET net == IF p.network \in DOMAIN m THEN m[p.network] ELSE [x \in {} |-> Nil]
  IN  m' = With(m, p.network, With(net, p.name, [peer |-> p, conn |-> c]))

\* delete(net, name), then the network's own entry once it is empty.
\* Mutant: the empty network is kept.
DeleteKeepsNetwork(n, x) == With(m, n, Without(m[n], x))
Delete(n, x) ==
  LET net == Without(m[n], x)
  IN  IF DOMAIN net = {} THEN Without(m, n) ELSE With(m, n, net)

\* Remove deletes only the registration that is still conn's own.
\* Mutant: it deletes whatever is registered under the name.
OwnsAny(n, x, c) == Has(n, x)
Owns(n, x, c) == Has(n, x) /\ m[n][x].conn = c

Remove(n, x, c) ==
  \/ Owns(n, x, c) /\ m' = Delete(n, x)
  \/ ~Owns(n, x, c) /\ UNCHANGED m

Take(n, x) ==
  \/ Has(n, x) /\ m' = Delete(n, x)
  \/ ~Has(n, x) /\ UNCHANGED m

Next ==
  \/ \E p \in Peer, c \in Conns : Add(p, c)
  \/ \E n \in Networks, x \in Names : Take(n, x)
  \/ \E n \in Networks, x \in Names, c \in Conns : Remove(n, x, c)

Spec == Init /\ [][Next]_m

------------------------------------------------------------------------------
\* The read-only operations: monitoring counts, and discovery (unsorted).
NetworkCounts == [n \in DOMAIN m |-> Cardinality(DOMAIN m[n])]
List(n) == IF n \in DOMAIN m THEN {m[n][x].peer : x \in DOMAIN m[n]} ELSE {}

\* Types; the registry maps what is there to records, and nothing else.
TypeOK ==
  /\ DOMAIN m \subseteq Networks
  /\ \A n \in DOMAIN m : /\ m[n] = [x \in DOMAIN m[n] |-> m[n][x]]
                         /\ DOMAIN m[n] \subseteq Names
                         /\ \A x \in DOMAIN m[n] : m[n][x] \in Record

\* Discovery and monitoring agree: /status reports exactly the networks on
\* which /peers lists someone, with as many peers as it lists, each of them
\* advertising that very network and found under its own name.
CountsMatchLists ==
  \A n \in Networks :
    /\ n \in DOMAIN m <=> List(n) # {}
    /\ n \in DOMAIN m => NetworkCounts[n] = Cardinality(List(n))
    /\ \A p \in List(n) : p.network = n /\ m[n][p.name].peer = p

\* The nested maps, read through the two lookups every operation makes,
\* implement the flat directory the hub is specified with: call by call, so
\* that a Remove that comes late never takes a newer registration with it.
Flat == [n \in Networks |-> [x \in Names |-> IF Has(n, x) THEN m[n][x] ELSE Nil]]
Dir == INSTANCE Directory WITH dir <- Flat
CallByCall ==
  /\ \A p \in Peer, c \in Conns : Add(p, c) => Dir!Add(p, c)
  /\ \A n \in Networks, x \in Names : Take(n, x) => Dir!Take(n, x)
  /\ \A n \in Networks, x \in Names, c \in Conns : Remove(n, x, c) => Dir!Remove(n, x, c)
ImplementsDirectory == Dir!Spec /\ [][CallByCall]_m
==============================================================================
