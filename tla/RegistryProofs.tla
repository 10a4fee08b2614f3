--------------------------- MODULE RegistryProofs ----------------------------
(***************************************************************************)
(* The registry keeps its invariants and implements Directory, for any     *)
(* sets of networks, names, keys and connections.                          *)
(***************************************************************************)
EXTENDS Registry, FiniteSetTheorems, TLAPS

\* What every operation of the registry keeps: a network's map is there only
\* while it holds a peer, and each record is filed where its peer says.
Filed ==
  \A n \in DOMAIN m :
    /\ DOMAIN m[n] # {}
    /\ IsFiniteSet(DOMAIN m[n])
    /\ \A x \in DOMAIN m[n] : m[n][x].peer.network = n /\ m[n][x].peer.name = x

IInv == TypeOK /\ Filed

\* Add, by what a lookup finds after it, and the keys the maps then have.
LEMMA AddEffect ==
  ASSUME IInv, NEW p \in Peer, NEW c \in Conns, Add(p, c)
  PROVE  /\ DOMAIN m' = DOMAIN m \cup {p.network}
         /\ \A n \in DOMAIN m : n # p.network => m'[n] = m[n]
         /\ m'[p.network] = [x \in DOMAIN m'[p.network] |-> m'[p.network][x]]
         /\ DOMAIN m'[p.network] =
              (IF p.network \in DOMAIN m THEN DOMAIN m[p.network] ELSE {}) \cup {p.name}
         /\ m'[p.network][p.name] = [peer |-> p, conn |-> c]
         /\ \A x : Has(p.network, x) /\ x # p.name => m'[p.network][x] = m[p.network][x]
<1> DEFINE net == IF p.network \in DOMAIN m THEN m[p.network] ELSE [x \in {} |-> Nil]
           upd == With(net, p.name, [peer |-> p, conn |-> c])
<1>1. m' = With(m, p.network, upd)
  BY DEF Add
<1>2. DOMAIN net = IF p.network \in DOMAIN m THEN DOMAIN m[p.network] ELSE {}
  OBVIOUS
<1>3. /\ upd = [j \in DOMAIN upd |-> upd[j]]
      /\ DOMAIN upd = DOMAIN net \cup {p.name}
      /\ upd[p.name] = [peer |-> p, conn |-> c]
      /\ \A j \in DOMAIN net : j # p.name => upd[j] = net[j]
  BY DEF With
<1>4. /\ DOMAIN m' = DOMAIN m \cup {p.network}
      /\ m'[p.network] = upd
      /\ \A n \in DOMAIN m : n # p.network => m'[n] = m[n]
  <2> HIDE DEF upd
  <2> QED BY <1>1 DEF With
<1>5. \A x : Has(p.network, x) /\ x # p.name => upd[x] = m[p.network][x]
  BY <1>2, <1>3 DEF Has
<1> HIDE DEF upd
<1> QED BY <1>2, <1>3, <1>4, <1>5

\* Deleting a registration, by what the maps are after it.
LEMMA DeleteEffect ==
  ASSUME IInv, NEW n, NEW x, Has(n, x), m' = Delete(n, x)
  PROVE  /\ \A k \in DOMAIN m : k # n => k \in DOMAIN m' /\ m'[k] = m[k]
         /\ DOMAIN m' \subseteq DOMAIN m
         /\ n \in DOMAIN m' => /\ DOMAIN m'[n] = DOMAIN m[n] \ {x}
                               /\ DOMAIN m'[n] # {}
                               /\ m'[n] = [y \in DOMAIN m'[n] |-> m'[n][y]]
                               /\ \A y \in DOMAIN m'[n] : m'[n][y] = m[n][y]
         /\ n \notin DOMAIN m' => DOMAIN m[n] = {x}
<1> DEFINE net == Without(m[n], x)
<1>1. m' = IF DOMAIN net = {} THEN Without(m, n) ELSE With(m, n, net)
  BY DEF Delete
<1>2. /\ net = [j \in DOMAIN net |-> net[j]]
      /\ DOMAIN net = DOMAIN m[n] \ {x}
      /\ \A j \in DOMAIN net : net[j] = m[n][j]
  BY DEF Without
<1>3. n \in DOMAIN m /\ x \in DOMAIN m[n]
  BY DEF Has
<1> HIDE DEF net
<1>4. CASE DOMAIN net = {}
  BY <1>1, <1>2, <1>3, <1>4 DEF Without
<1>5. CASE DOMAIN net # {}
  BY <1>1, <1>2, <1>3, <1>5 DEF With
<1> QED BY <1>4, <1>5

\* The initial registry is empty.
LEMMA InitInv == Init => IInv
BY DEF Init, IInv, TypeOK, Filed

\* Adding a peer keeps the invariant.
LEMMA AddInv ==
  ASSUME IInv, NEW p \in Peer, NEW c \in Conns, Add(p, c)
  PROVE  IInv'
<1> DEFINE q == p.network
<1>0. /\ DOMAIN m' = DOMAIN m \cup {q}
      /\ \A n \in DOMAIN m : n # q => m'[n] = m[n]
      /\ m'[q] = [x \in DOMAIN m'[q] |-> m'[q][x]]
      /\ DOMAIN m'[q] = (IF q \in DOMAIN m THEN DOMAIN m[q] ELSE {}) \cup {p.name}
      /\ m'[q][p.name] = [peer |-> p, conn |-> c]
      /\ \A x : Has(q, x) /\ x # p.name => m'[q][x] = m[q][x]
  BY AddEffect, Zenon
<1>1. q \in Networks /\ p.name \in Names
  BY DEF Peer
<1>2. /\ [peer |-> p, conn |-> c] \in Record
      /\ [peer |-> p, conn |-> c].peer = p
  BY DEF Record
<1> HIDE DEF q
<1>3. ASSUME NEW n \in DOMAIN m', n # q
      PROVE  n \in DOMAIN m /\ m'[n] = m[n]
  BY <1>0, <1>3
<1>4. IsFiniteSet(DOMAIN m'[q])
  <2>1. IsFiniteSet(IF q \in DOMAIN m THEN DOMAIN m[q] ELSE {})
    BY FS_EmptySet DEF IInv, Filed
  <2> QED BY <1>0, <2>1, FS_AddElement
<1>5. ASSUME NEW x \in DOMAIN m'[q]
      PROVE  /\ x \in Names /\ m'[q][x] \in Record
             /\ m'[q][x].peer.network = q /\ m'[q][x].peer.name = x
  <2>1. CASE x = p.name
    <3>1. m'[q][x] = [peer |-> p, conn |-> c]
      BY <1>0, <2>1
    <3>2. m'[q][x].peer = p
      BY <1>2, <3>1
    <3> QED BY <1>1, <1>2, <2>1, <3>1, <3>2 DEF q
  <2>2. CASE x # p.name
    <3>1. q \in DOMAIN m /\ x \in DOMAIN m[q]
      BY <1>0, <1>5, <2>2
    <3>2. m'[q][x] = m[q][x]
      BY <1>0, <2>2, <3>1 DEF Has
    <3> QED BY <3>1, <3>2 DEF IInv, TypeOK, Filed
  <2> QED BY <2>1, <2>2
<1>6. TypeOK'
  BY <1>0, <1>1, <1>3, <1>5 DEF IInv, TypeOK
<1>7. Filed'
  <2>1. ASSUME NEW n \in DOMAIN m', n # q
        PROVE  /\ DOMAIN m'[n] # {}
               /\ IsFiniteSet(DOMAIN m'[n])
               /\ \A x \in DOMAIN m'[n] :
                    m'[n][x].peer.network = n /\ m'[n][x].peer.name = x
    BY <1>3, <2>1 DEF IInv, Filed
  <2>2. DOMAIN m'[q] # {}
    BY <1>0
  <2> QED BY <1>4, <1>5, <2>1, <2>2 DEF Filed
<1> QED BY <1>6, <1>7 DEF IInv

\* Deleting a registration keeps the invariant.
LEMMA DeleteInv ==
  ASSUME IInv, NEW n, NEW x, Has(n, x), m' = Delete(n, x)
  PROVE  IInv'
<1>1. ASSUME NEW k \in DOMAIN m'
      PROVE  /\ k \in DOMAIN m
             /\ DOMAIN m'[k] \subseteq DOMAIN m[k]
             /\ DOMAIN m'[k] # {}
             /\ m'[k] = [y \in DOMAIN m'[k] |-> m'[k][y]]
             /\ \A y \in DOMAIN m'[k] : m'[k][y] = m[k][y]
  <2>1. CASE k = n
    <3>1. n \in DOMAIN m'
      BY <1>1, <2>1
    <3>2. /\ DOMAIN m' \subseteq DOMAIN m
          /\ DOMAIN m'[n] = DOMAIN m[n] \ {x}
          /\ DOMAIN m'[n] # {}
          /\ m'[n] = [y \in DOMAIN m'[n] |-> m'[n][y]]
          /\ \A y \in DOMAIN m'[n] : m'[n][y] = m[n][y]
      BY <3>1, DeleteEffect, Zenon
    <3>3. n \in DOMAIN m /\ DOMAIN m'[n] \subseteq DOMAIN m[n]
      BY <3>1, <3>2
    <3> QED BY <2>1, <3>2, <3>3, Zenon
  <2>2. CASE k # n
    <3>1. k \in DOMAIN m /\ m'[k] = m[k]
      <4>1. /\ \A j \in DOMAIN m : j # n => j \in DOMAIN m' /\ m'[j] = m[j]
            /\ DOMAIN m' \subseteq DOMAIN m
        BY DeleteEffect, Zenon
      <4> QED BY <1>1, <2>2, <4>1
    <3> QED BY <3>1 DEF IInv, TypeOK, Filed
  <2> QED BY <2>1, <2>2
<1>2. TypeOK'
  BY <1>1 DEF IInv, TypeOK
<1>3. Filed'
  BY <1>1, FS_Subset DEF IInv, Filed
<1> QED BY <1>2, <1>3 DEF IInv

\* Every step of the registry keeps the invariant.
LEMMA NextInv == IInv /\ [Next]_m => IInv'
<1> SUFFICES ASSUME IInv, [Next]_m PROVE IInv'
  OBVIOUS
<1>1. ASSUME NEW p \in Peer, NEW c \in Conns, Add(p, c) PROVE IInv'
  BY <1>1, AddInv
<1>2. ASSUME NEW n \in Networks, NEW x \in Names, Take(n, x) PROVE IInv'
  BY <1>2, DeleteInv DEF Take, IInv, TypeOK, Filed
<1>3. ASSUME NEW n \in Networks, NEW x \in Names, NEW c \in Conns, Remove(n, x, c)
      PROVE  IInv'
  BY <1>3, DeleteInv DEF Remove, Owns, IInv, TypeOK, Filed
<1>4. CASE UNCHANGED m
  BY <1>4 DEF IInv, TypeOK, Filed
<1> QED BY <1>1, <1>2, <1>3, <1>4 DEF Next

\* The inductive invariant: types, and every entry filed under its own network
\* and name in a map that exists exactly while it has peers.
THEOREM Invariance == Spec => []IInv
<1> QED BY InitInv, NextInv, PTL DEF Spec

\* The nested maps hold well-typed records under known networks and names.
THEOREM TypeCorrect == Spec => []TypeOK
<1>1. IInv => TypeOK
  BY DEF IInv
<1> QED BY <1>1, Invariance, PTL

------------------------------------------------------------------------------
(* Discovery and monitoring.                                               *)

\* /peers and /status tell of the same peers, in every state a registry can
\* reach: the networks agree, the counts agree with the lists, and each peer
\* is listed under the network and name it registered.
THEOREM CountsMatch == Spec => []CountsMatchLists
<1>1. ASSUME IInv PROVE CountsMatchLists
  <2> SUFFICES ASSUME NEW n \in Networks
               PROVE  /\ n \in DOMAIN m <=> List(n) # {}
                      /\ n \in DOMAIN m => NetworkCounts[n] = Cardinality(List(n))
                      /\ \A p \in List(n) : p.network = n /\ m[n][p.name].peer = p
    BY DEF CountsMatchLists
  <2>1. CASE n \notin DOMAIN m
    BY <2>1 DEF List
  <2>2. CASE n \in DOMAIN m
    <3> DEFINE f == [x \in DOMAIN m[n] |-> m[n][x].peer]
    <3>1. List(n) = {m[n][x].peer : x \in DOMAIN m[n]}
      BY <2>2 DEF List
    <3>2. /\ DOMAIN m[n] # {}
          /\ IsFiniteSet(DOMAIN m[n])
          /\ \A x \in DOMAIN m[n] : m[n][x].peer.network = n /\ m[n][x].peer.name = x
      BY <1>1, <2>2 DEF IInv, Filed
    <3>3. \A p \in List(n) : p.network = n /\ m[n][p.name].peer = p
      BY <3>1, <3>2
    <3>4. f \in Bijection(DOMAIN m[n], List(n))
      <4>1. f \in [DOMAIN m[n] -> List(n)]
        BY <3>1
      <4>2. \A x, y \in DOMAIN m[n] : f[x] = f[y] => x = y
        BY <3>2
      <4>3. \A p \in List(n) : \E x \in DOMAIN m[n] : f[x] = p
        BY <3>1
      <4> QED BY <4>1, <4>2, <4>3 DEF Bijection, Injection, Surjection, IsInjective
    <3>5. Cardinality(List(n)) = Cardinality(DOMAIN m[n])
      BY <3>2, <3>4, FS_Bijection DEF ExistsBijection
    <3>6. NetworkCounts[n] = Cardinality(DOMAIN m[n])
      BY <2>2 DEF NetworkCounts
    <3> QED BY <2>2, <3>1, <3>2, <3>3, <3>5, <3>6
  <2> QED BY <2>1, <2>2
<1> QED BY <1>1, Invariance, PTL

------------------------------------------------------------------------------
(* The registry implements the directory the hub is specified with.        *)

\* A registration that exists is never the nil record.
LEMMA PresentIsNotNil ==
  ASSUME TypeOK, NEW n \in Networks, NEW x \in Names
  PROVE  Has(n, x) <=> Flat[n][x] # Nil
BY NilAssumption DEF TypeOK, Has, Flat

\* Adding a peer changes its own place in the flat directory and no other.
LEMMA AddImplements ==
  ASSUME IInv, NEW p \in Peer, NEW c \in Conns, Add(p, c)
  PROVE  Dir!Add(p, c)
<1> DEFINE q == p.network
           r == [peer |-> p, conn |-> c]
<1>0. /\ DOMAIN m' = DOMAIN m \cup {q}
      /\ \A n \in DOMAIN m : n # q => m'[n] = m[n]
      /\ DOMAIN m'[q] = (IF q \in DOMAIN m THEN DOMAIN m[q] ELSE {}) \cup {p.name}
      /\ m'[q][p.name] = r
      /\ \A x : Has(q, x) /\ x # p.name => m'[q][x] = m[q][x]
  BY AddEffect, Zenon
<1>1. q \in Networks /\ p.name \in Names
  BY DEF Peer
<1> HIDE DEF q, r
<1>2. ASSUME NEW n \in Networks, NEW x \in Names
      PROVE  Flat'[n][x] = IF n = q /\ x = p.name THEN r ELSE Flat[n][x]
  <2>1. Flat'[n][x] = IF Has(n, x)' THEN m'[n][x] ELSE Nil
    BY DEF Flat
  <2>2. Flat[n][x] = IF Has(n, x) THEN m[n][x] ELSE Nil
    BY DEF Flat
  <2>3. CASE n = q /\ x = p.name
    BY <1>0, <2>1, <2>3 DEF Has
  <2>4. CASE n = q /\ x # p.name
    BY <1>0, <2>1, <2>2, <2>4 DEF Has
  <2>5. CASE n # q
    BY <1>0, <2>1, <2>2, <2>5 DEF Has
  <2> QED BY <2>3, <2>4, <2>5
<1>3. Flat' = [Flat EXCEPT ![q][p.name] = r]
  <2>1. /\ Flat = [n \in Networks |-> [x \in Names |-> Flat[n][x]]]
        /\ Flat' = [n \in Networks |-> [x \in Names |-> Flat'[n][x]]]
    BY DEF Flat
  <2> QED BY <1>1, <1>2, <2>1
<1> QED BY <1>3 DEF Dir!Add, q, r

\* Deleting a registration empties its place in the flat directory.
LEMMA DeleteImplements ==
  ASSUME IInv, NEW n \in Networks, NEW x \in Names, Has(n, x), m' = Delete(n, x)
  PROVE  Flat' = [Flat EXCEPT ![n][x] = Nil]
<1>0. /\ \A k \in DOMAIN m : k # n => k \in DOMAIN m' /\ m'[k] = m[k]
      /\ DOMAIN m' \subseteq DOMAIN m
      /\ n \in DOMAIN m' => /\ DOMAIN m'[n] = DOMAIN m[n] \ {x}
                            /\ \A y \in DOMAIN m'[n] : m'[n][y] = m[n][y]
      /\ n \notin DOMAIN m' => DOMAIN m[n] = {x}
  BY DeleteEffect, Zenon
<1>1. ASSUME NEW k \in Networks, NEW y \in Names
      PROVE  Flat'[k][y] = IF k = n /\ y = x THEN Nil ELSE Flat[k][y]
  <2>1. Flat'[k][y] = IF Has(k, y)' THEN m'[k][y] ELSE Nil
    BY DEF Flat
  <2>2. Flat[k][y] = IF Has(k, y) THEN m[k][y] ELSE Nil
    BY DEF Flat
  <2>3. CASE k = n
    BY <1>0, <2>1, <2>2, <2>3 DEF Has
  <2>4. CASE k # n
    BY <1>0, <2>1, <2>2, <2>4 DEF Has
  <2> QED BY <2>3, <2>4
<1>2. /\ Flat = [k \in Networks |-> [y \in Names |-> Flat[k][y]]]
      /\ Flat' = [k \in Networks |-> [y \in Names |-> Flat'[k][y]]]
  BY DEF Flat
<1> QED BY <1>1, <1>2

\* What Take does to the nested maps, it does to the flat directory.
LEMMA TakeImplements ==
  ASSUME IInv, NEW n \in Networks, NEW x \in Names, Take(n, x)
  PROVE  Dir!Take(n, x)
<1>1. CASE Has(n, x) /\ m' = Delete(n, x)
  BY <1>1, DeleteImplements DEF Dir!Take
<1>2. CASE ~Has(n, x) /\ UNCHANGED m
  <2>1. Flat' = Flat
    BY <1>2 DEF Flat, Has
  <2>2. Flat[n][x] = Nil
    BY <1>2 DEF Flat
  <2>3. Flat = [Flat EXCEPT ![n][x] = Nil]
    BY <2>2 DEF Flat
  <2> QED BY <2>1, <2>3 DEF Dir!Take
<1> QED BY <1>1, <1>2 DEF Take

\* Remove empties the caller's own place in the flat directory, or nothing.
LEMMA RemoveImplements ==
  ASSUME IInv, NEW n \in Networks, NEW x \in Names, NEW c \in Conns, Remove(n, x, c)
  PROVE  Dir!Remove(n, x, c)
<1>1. CASE Owns(n, x, c) /\ m' = Delete(n, x)
  <2>1. Has(n, x) /\ m[n][x].conn = c
    BY <1>1 DEF Owns
  <2>2. Flat[n][x] = m[n][x]
    BY <2>1 DEF Flat
  <2>3. Flat[n][x] # Nil
    BY <2>1, PresentIsNotNil DEF IInv
  <2>4. Flat' = [Flat EXCEPT ![n][x] = Nil]
    BY <1>1, <2>1, DeleteImplements
  <2> QED BY <2>1, <2>2, <2>3, <2>4 DEF Dir!Remove
<1>2. CASE ~Owns(n, x, c) /\ UNCHANGED m
  <2>1. Flat' = Flat
    BY <1>2 DEF Flat, Has
  <2>2. Flat[n][x] = Nil \/ Flat[n][x].conn # c
    BY <1>2 DEF Flat, Owns
  <2> QED BY <2>1, <2>2 DEF Dir!Remove
<1> QED BY <1>1, <1>2 DEF Remove

\* Every behaviour of the nested maps, read through lookups, is a behaviour of
\* the flat directory, and each call of Add, Take and Remove has the effect of
\* the directory's own.
THEOREM RegistryImplementsDirectory == Spec => ImplementsDirectory
<1>1. Init => Dir!Init
  BY DEF Init, Dir!Init, Flat, Has
<1>2. IInv => CallByCall
  BY AddImplements, TakeImplements, RemoveImplements DEF CallByCall
<1>3. IInv /\ [Next]_m => [Dir!Next]_Flat
  <2> SUFFICES ASSUME IInv, [Next]_m PROVE [Dir!Next]_Flat
    OBVIOUS
  <2>1. ASSUME NEW p \in Peer, NEW c \in Conns, Add(p, c) PROVE Dir!Next
    <3>1. Dir!Add(p, c)
      BY <2>1, AddImplements
    <3> QED BY <3>1 DEF Dir!Next, Dir!Peer, Peer
  <2>2. ASSUME NEW n \in Networks, NEW x \in Names, Take(n, x) PROVE Dir!Next
    BY <2>2, TakeImplements DEF Dir!Next
  <2>3. ASSUME NEW n \in Networks, NEW x \in Names, NEW c \in Conns, Remove(n, x, c)
        PROVE  Dir!Next
    BY <2>3, RemoveImplements DEF Dir!Next
  <2>4. CASE UNCHANGED m
    BY <2>4 DEF Flat, Has
  <2> QED BY <2>1, <2>2, <2>3, <2>4 DEF Next
<1> QED BY <1>1, <1>2, <1>3, Invariance, PTL DEF Spec, ImplementsDirectory, Dir!Spec
==============================================================================
