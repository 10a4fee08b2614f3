------------------------------ MODULE Directory ------------------------------
(***************************************************************************)
(* What the hub relies on from internal/registry: an atomic map from       *)
(* (network, name) to at most one live record.  Registry implements it     *)
(* with the nested maps of the source; Hub is composed with this contract. *)
(***************************************************************************)
CONSTANTS Networks,   \* network names (non-empty strings)
          Names,      \* peer names (non-empty strings)
          Keys,       \* base64 public keys, as advertised
          Conns,      \* hub-side agent connections, told apart by identity
          Nil         \* Go's nil, and the absent record

VARIABLE dir          \* the record registered under each network and name

Peer == [network : Networks, name : Names, pubkey : Keys]
Record == [peer : Peer, conn : Conns]

\* At most one record per name of a network.
TypeOK == dir \in [Networks -> [Names -> Record \cup {Nil}]]

Init == dir = [n \in Networks |-> [x \in Names |-> Nil]]

Listed(c) == \E n \in Networks, x \in Names : dir[n][x] # Nil /\ dir[n][x].conn = c

\* The connection Add returns to its caller: that of the record it replaces.
Prev(p) == IF dir[p.network][p.name] = Nil THEN Nil ELSE dir[p.network][p.name].conn

Add(p, c) == dir' = [dir EXCEPT ![p.network][p.name] = [peer |-> p, conn |-> c]]

\* Take removes what it returns, dir[n][x]; on an absent peer it changes nothing.
Take(n, x) == dir' = [dir EXCEPT ![n][x] = Nil]

Remove(n, x, c) ==
  \/ /\ dir[n][x] # Nil
     /\ dir[n][x].conn = c
     /\ dir' = [dir EXCEPT ![n][x] = Nil]
  \/ /\ dir[n][x] = Nil \/ dir[n][x].conn # c
     /\ UNCHANGED dir

Next ==
  \/ \E p \in Peer, c \in Conns : Add(p, c)
  \/ \E n \in Networks, x \in Names : Take(n, x)
  \/ \E n \in Networks, x \in Names, c \in Conns : Remove(n, x, c)

Spec == Init /\ [][Next]_dir
==============================================================================
