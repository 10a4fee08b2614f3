------------------------------ MODULE HubProofs ------------------------------
(***************************************************************************)
(* Ownership, routing and accounting of the hub, for any networks, names,  *)
(* keys, connections and audit bound.                                      *)
(*                                                                         *)
(* The safety properties of Hub say who refers to an agent's connection;   *)
(* they are not inductive, since a step's effect depends on how far the    *)
(* goroutines that hold the reference have got.  The parts below add that. *)
(***************************************************************************)
EXTENDS Hub, FiniteSetTheorems, SequenceTheorems, TLAPS

\* The registry lists connection c at this place.
At(n, x, c) == dir[n][x] # Nil /\ dir[n][x].conn = c

\* A connection the registry lists was added by its own handler, under the
\* peer the record shows, is open, and nobody else refers to it.
Filed ==
  \A n \in Networks, x \in Names, c \in AgentConns : At(n, x, c) =>
    /\ reg[c].pc \in {"closing", "returned"}
    /\ conn[c] = "open"
    /\ reg[c].peer = dir[n][x].peer
    /\ dir[n][x].peer.network = n
    /\ dir[n][x].peer.name = x
    /\ \A d \in AgentConns : reg[d].prev # c
    /\ \A k \in ClientConns : ses[k].agent # c

\* The goroutine of handleAgent: it holds a replaced connection exactly while
\* it has still to close it.
Handlers ==
  \A c \in AgentConns :
    /\ reg[c].pc = "none" <=> conn[c] = "none"
    /\ reg[c].pc # "none" => reg[c].peer \in Dir!Peer
    /\ reg[c].pc = "upgraded" => conn[c] = "open"
    /\ reg[c].prev # Nil <=> reg[c].pc = "closing"

\* A replaced connection is open, was registered under the same name, and has
\* one goroutine to close it.
Replaced ==
  \A d, c \in AgentConns : reg[d].prev = c =>
    /\ reg[c].pc \in {"closing", "returned"}
    /\ conn[c] = "open"
    /\ reg[c].peer.network = reg[d].peer.network
    /\ reg[c].peer.name = reg[d].peer.name
    /\ \A e \in AgentConns : reg[e].prev = c => d = e

\* A session's agent is registered under what the client asked for, is open
\* until the relay has closed it, and nobody else refers to it.
Brokered ==
  \A k \in ClientConns, c \in AgentConns : ses[k].agent = c =>
    /\ reg[c].pc \in {"closing", "returned"}
    /\ conn[c] = IF ses[k].pc = "draining" THEN "closed" ELSE "open"
    /\ reg[c].peer.network = ses[k].network
    /\ reg[c].peer.name = ses[k].name
    /\ \A l \in ClientConns : ses[l].agent = c => k = l
    /\ \A d \in AgentConns : reg[d].prev # c

\* NoLeak, with the references spelt out.
Owned(c) ==
  \/ reg[c].pc = "upgraded"
  \/ \E n \in Networks, x \in Names : At(n, x, c)
  \/ \E d \in AgentConns : reg[d].prev = c
  \/ \E k \in ClientConns : ses[k].agent = c
Kept == \A c \in AgentConns : conn[c] = "open" => Owned(c)

\* The goroutine of handleConnect, its copiers and its record in the audit log.
Sessions ==
  \A k \in ClientConns :
    /\ ses[k].agent # Nil <=> ses[k].pc \in {"taken", "relaying", "closing", "draining"}
    /\ ses[k].pc # "none" => ses[k].network \in Networks /\ ses[k].name \in Names
    /\ ses[k].pc \in {"closing", "draining", "returned"} => conn[k] = "closed"
    /\ ses[k].pc \in {"closing", "draining"} => \E w \in Ways : copy[k][w] = "done"
    /\ ses[k].pc \in {"none", "upgraded", "taken"} =>
         started[k] = 0 /\ \A w \in Ways : copy[k][w] = "none"
    /\ (ses[k].pc = "none") <=> (conn[k] = "none")
    /\ k \in Live => started[k] # 0 /\ ended[k] = 0
    /\ ended[k] # 0 => /\ started[k] # 0 /\ ses[k].pc = "returned"
                       /\ \A w \in Ways : copy[k][w] = "done"
    /\ ses[k].pc = "returned" /\ ended[k] = 0 => started[k] = 0

IInv ==
  /\ TypeOK /\ Filed /\ Handlers /\ Replaced /\ Brokered /\ Sessions
  /\ Kept /\ active = Cardinality(Live)

------------------------------------------------------------------------------
\* A peer on the network and name of a registration.
LEMMA PeerFields ==
  ASSUME NEW p \in Dir!Peer
  PROVE  p.network \in Networks /\ p.name \in Names
BY DEF Dir!Peer

\* The directory after Add, Take: one place changes.
LEMMA AddEffect ==
  ASSUME TypeOK, NEW p \in Dir!Peer, NEW c \in AgentConns, Dir!Add(p, c)
  PROVE  /\ Dir!TypeOK'
         /\ \A n \in Networks, x \in Names :
              dir'[n][x] = IF n = p.network /\ x = p.name
                           THEN [peer |-> p, conn |-> c] ELSE dir[n][x]
<1>1. p.network \in Networks /\ p.name \in Names
  BY PeerFields
<1>2. [peer |-> p, conn |-> c] \in Dir!Record
  BY DEF Dir!Record
<1>3. dir' = [dir EXCEPT ![p.network][p.name] = [peer |-> p, conn |-> c]]
  BY DEF Dir!Add
<1> QED BY <1>1, <1>2, <1>3 DEF TypeOK, Dir!TypeOK

\* Take empties one place of the directory and leaves the rest.
LEMMA TakeEffect ==
  ASSUME TypeOK, NEW n \in Networks, NEW x \in Names, Dir!Take(n, x)
  PROVE  /\ Dir!TypeOK'
         /\ \A i \in Networks, j \in Names :
              dir'[i][j] = IF i = n /\ j = x THEN Nil ELSE dir[i][j]
<1>1. dir' = [dir EXCEPT ![n][x] = Nil]
  BY DEF Dir!Take
<1> QED BY <1>1 DEF TypeOK, Dir!TypeOK

\* What a place of the directory holds when it is not empty.
LEMMA ListedRecord ==
  ASSUME TypeOK, NEW n \in Networks, NEW x \in Names, dir[n][x] # Nil
  PROVE  /\ dir[n][x].conn \in AgentConns
         /\ dir[n][x].peer \in Dir!Peer
BY DEF TypeOK, Dir!TypeOK, Dir!Record

\* The connection Add replaces is the one listed at its peer's place, if any.
LEMMA PrevEffect ==
  ASSUME TypeOK, NEW p \in Dir!Peer
  PROVE  /\ Dir!Prev(p) \in AgentConns \cup {Nil}
         /\ \A d \in AgentConns : At(p.network, p.name, d) <=> Dir!Prev(p) = d
<1>1. p.network \in Networks /\ p.name \in Names
  BY PeerFields
<1>2. CASE dir[p.network][p.name] = Nil
  BY <1>2, ConnAssumption DEF Dir!Prev, At
<1>3. CASE dir[p.network][p.name] # Nil
  BY <1>1, <1>3, ListedRecord DEF Dir!Prev, At
<1> QED BY <1>2, <1>3

\* Relays are finitely many.
LEMMA LiveIsFinite == IsFiniteSet(Live)
BY ClientsAssumption, FS_Subset DEF Live

\* The hub starts with nothing connected.
LEMMA InitInv == Init => IInv
<1> SUFFICES ASSUME Init PROVE IInv
  OBVIOUS
<1> USE DEF Init
<1>1. Audit!TypeOK
  <2>1. Audit!Cap >= 1 /\ Audit!Cap \in Nat
    BY MaxEntriesAssumption DEF Audit!Cap
  <2> QED BY <2>1 DEF Audit!Init, Audit!TypeOK
<1>2. TypeOK
  BY <1>1 DEF TypeOK, Dir!Init, Dir!TypeOK, NoAgent, NoSession, AgentState,
              SessionState, Conns, Ways
<1>3. Filed /\ Handlers /\ Replaced /\ Brokered /\ Kept
  BY ConnAssumption DEF Dir!Init, At, Filed, Handlers, Replaced, Brokered, Kept,
                        NoAgent, NoSession, Conns
<1>4. Sessions
  BY DEF Audit!Init, Sessions, NoSession, Live, Conns
<1>5. active = Cardinality(Live)
  <2>1. Live = {}
    BY DEF Live, NoSession
  <2> QED BY <2>1, FS_EmptySet DEF Audit!Init
<1> QED BY <1>2, <1>3, <1>4, <1>5 DEF IInv

\* A step that leaves the directory and the log alone keeps the types when it
\* keeps those of the hub's own variables.
LEMMA TypeStep ==
  ASSUME IInv, UNCHANGED <<dir, entries, started, ended, active>>,
         conn' \in [Conns -> {"none", "open", "closed"}],
         remote' \in [Conns -> BOOLEAN],
         reg' \in [AgentConns -> [pc : AgentState, peer : Dir!Peer \cup {Nil},
                                 prev : AgentConns \cup {Nil}]],
         ses' \in [ClientConns -> [pc : SessionState, network : Networks \cup {Nil},
                                  name : Names \cup {Nil}, agent : AgentConns \cup {Nil}]],
         copy' \in [ClientConns -> [Ways -> {"none", "read", "write", "done"}]]
  PROVE  TypeOK'
BY DEF IInv, TypeOK, Dir!TypeOK, Audit!TypeOK

------------------------------------------------------------------------------
(* One lemma per action, or per kind of action that disturbs the same parts. *)

\* Accepting an agent makes its handler the one owner of its connection.
LEMMA UpgradeAgentInv ==
  ASSUME IInv, NEW c \in AgentConns, NEW p \in Dir!Peer, UpgradeAgent(c, p)
  PROVE  IInv'
<1>0. c \in Conns /\ c \notin ClientConns /\ Nil # c
  BY ConnAssumption DEF Conns
<1>1. reg[c].pc = "none" /\ conn[c] = "none"
  BY DEF IInv, Handlers, UpgradeAgent, Accept
<1>2. TypeOK'
  <2>1. UNCHANGED <<dir, entries, started, ended, active, ses, copy>>
    BY DEF UpgradeAgent, Accept, audit
  <2>2. conn' \in [Conns -> {"none", "open", "closed"}]
    BY <1>0 DEF IInv, TypeOK, UpgradeAgent, Accept
  <2>3. remote' \in [Conns -> BOOLEAN]
    BY <1>0 DEF IInv, TypeOK, UpgradeAgent, Accept
  <2>4. reg' \in [AgentConns -> [pc : AgentState, peer : Dir!Peer \cup {Nil},
                                   prev : AgentConns \cup {Nil}]]
    BY <1>0 DEF IInv, TypeOK, UpgradeAgent, AgentState
  <2> QED BY <2>1, <2>2, <2>3, <2>4, TypeStep DEF IInv, TypeOK
<1>3. /\ \A d \in AgentConns : d # c => reg'[d] = reg[d] /\ conn'[d] = conn[d]
      /\ reg'[c].pc = "upgraded" /\ reg'[c].peer = p /\ reg'[c].prev = Nil
      /\ conn'[c] = "open"
      /\ \A k \in ClientConns : conn'[k] = conn[k]
      /\ UNCHANGED <<dir, entries, started, ended, active, ses, copy>>
  BY <1>0 DEF IInv, TypeOK, UpgradeAgent, Accept, audit, Conns
<1>4. /\ \A n \in Networks, x \in Names : ~At(n, x, c)
      /\ \A d \in AgentConns : reg[d].prev # c
      /\ \A k \in ClientConns : ses[k].agent # c
  BY <1>1 DEF IInv, Filed, Replaced, Brokered
<1>5. Filed'
  <2>1. \A n \in Networks, x \in Names, d \in AgentConns :
          At(n, x, d)' => At(n, x, d) /\ d # c
    BY <1>3, <1>4 DEF At
  <2>2. \A d, e \in AgentConns : reg'[d].prev = e => reg[d].prev = e
    BY <1>0, <1>3, ConnAssumption
  <2> QED BY <1>3, <2>1, <2>2 DEF IInv, Filed
<1>6. Handlers'
  BY <1>0, <1>3 DEF IInv, Handlers
<1>7. Replaced'
  <2>1. \A d, e \in AgentConns : reg'[d].prev = e => d # c /\ reg[d].prev = e /\ e # c
    BY <1>0, <1>3, <1>4, ConnAssumption
  <2> QED BY <1>3, <2>1 DEF IInv, Replaced
<1>8. Brokered'
  <2>1. \A k \in ClientConns, e \in AgentConns : ses'[k].agent = e => ses[k].agent = e /\ e # c
    BY <1>3, <1>4
  <2>2. \A d, e \in AgentConns : reg'[d].prev = e => reg[d].prev = e
    BY <1>3, <1>0, ConnAssumption
  <2> QED BY <1>3, <2>1, <2>2 DEF IInv, Brokered
<1>9. Sessions'
  BY <1>3 DEF IInv, Sessions, Live
<1>10. Kept'
  <2> SUFFICES ASSUME NEW d \in AgentConns, d # c, conn[d] = "open"
               PROVE  Owned(d)'
    BY <1>3 DEF Kept, Owned
  <2>1. Owned(d)
    BY DEF IInv, Kept
  <2>2. \A e \in AgentConns : reg[e].prev # Nil => reg'[e].prev = reg[e].prev
    BY <1>1, <1>3 DEF IInv, Handlers
  <2> QED BY <1>0, <1>1, <1>3, <2>1, <2>2, ConnAssumption DEF Owned, At
<1>11. (active = Cardinality(Live))'
  BY <1>3 DEF IInv, Live
<1> QED BY <1>2, <1>5, <1>6, <1>7, <1>8, <1>9, <1>10, <1>11 DEF IInv

\* Add hands a connection to the registry, and the one it replaced, if any, to
\* the handler that replaced it.
LEMMA AddAgentInv ==
  ASSUME IInv, NEW c \in AgentConns, AddAgent(c)
  PROVE  IInv'
<1> DEFINE p == reg[c].peer
           prev == Dir!Prev(p)
<1>0. /\ reg[c].pc = "upgraded" /\ reg[c].prev = Nil /\ conn[c] = "open"
      /\ p \in Dir!Peer /\ p.network \in Networks /\ p.name \in Names
  BY PeerFields DEF AddAgent, IInv, Handlers
<1>1. /\ Dir!TypeOK'
      /\ \A n \in Networks, x \in Names :
           dir'[n][x] = IF n = p.network /\ x = p.name
                        THEN [peer |-> p, conn |-> c] ELSE dir[n][x]
  BY <1>0, AddEffect DEF AddAgent, IInv
<1>2. /\ prev \in AgentConns \cup {Nil}
      /\ \A d \in AgentConns : At(p.network, p.name, d) <=> prev = d
  BY <1>0, PrevEffect DEF IInv
<1>3. /\ \A d \in AgentConns : d # c => reg'[d] = reg[d]
      /\ reg'[c].pc = (IF prev = Nil THEN "returned" ELSE "closing")
      /\ reg'[c].peer = p /\ reg'[c].prev = prev
      /\ reg' \in [AgentConns -> [pc : AgentState, peer : Dir!Peer \cup {Nil},
                                  prev : AgentConns \cup {Nil}]]
      /\ UNCHANGED <<entries, started, ended, active, conn, remote, ses, copy>>
  BY <1>0, <1>2 DEF IInv, TypeOK, AddAgent, audit, AgentState
<1> HIDE DEF p, prev
<1>4. TypeOK'
  BY <1>1, <1>3 DEF IInv, TypeOK, Audit!TypeOK
<1>5. /\ \A n \in Networks, x \in Names : ~At(n, x, c)
      /\ \A d \in AgentConns : reg[d].prev # c
      /\ \A k \in ClientConns : ses[k].agent # c
  BY <1>0 DEF IInv, Filed, Replaced, Brokered
<1>6. \A n \in Networks, x \in Names, d \in AgentConns :
        At(n, x, d)' <=> IF n = p.network /\ x = p.name THEN d = c ELSE At(n, x, d)
  <2>1. [peer |-> p, conn |-> c] # Nil
    BY <1>0, NilAssumption DEF Dir!Peer
  <2> QED BY <1>0, <1>1, <2>1 DEF At
<1>7. \A d, e \in AgentConns :
        reg'[d].prev = e <=> IF d = c THEN e = prev ELSE reg[d].prev = e
  BY <1>3
<1>8. prev # c
  BY <1>0, <1>2, <1>5
<1>9. Filed'
  <2> SUFFICES ASSUME NEW n \in Networks, NEW x \in Names, NEW d \in AgentConns, At(n, x, d)'
               PROVE  /\ reg'[d].pc \in {"closing", "returned"}
                      /\ conn'[d] = "open"
                      /\ reg'[d].peer = dir'[n][x].peer
                      /\ dir'[n][x].peer.network = n
                      /\ dir'[n][x].peer.name = x
                      /\ \A e \in AgentConns : reg'[e].prev # d
                      /\ \A k \in ClientConns : ses'[k].agent # d
    BY DEF Filed
  <2>1. CASE n = p.network /\ x = p.name
    BY <1>0, <1>1, <1>3, <1>5, <1>6, <1>7, <1>8, <2>1
  <2>2. CASE ~(n = p.network /\ x = p.name)
    <3>1. At(n, x, d) /\ d # c /\ dir'[n][x] = dir[n][x]
      BY <1>1, <1>5, <1>6, <2>2
    <3>2. d # prev
      BY <1>0, <1>2, <2>2, <3>1 DEF IInv, Filed
    <3> QED BY <1>3, <1>7, <3>1, <3>2 DEF IInv, Filed
  <2> QED BY <2>1, <2>2
<1>10. Handlers'
  BY <1>0, <1>2, <1>3 DEF IInv, Handlers
<1>11. Replaced'
  <2>1. prev # Nil => /\ reg[prev].pc \in {"closing", "returned"} /\ conn[prev] = "open"
                      /\ reg[prev].peer.network = p.network
                      /\ reg[prev].peer.name = p.name
                      /\ \A d \in AgentConns : reg[d].prev # prev
    BY <1>0, <1>2 DEF IInv, Filed
  <2> SUFFICES ASSUME NEW d \in AgentConns, NEW e \in AgentConns, reg'[d].prev = e
               PROVE  /\ reg'[e].pc \in {"closing", "returned"}
                      /\ conn'[e] = "open"
                      /\ reg'[e].peer.network = reg'[d].peer.network
                      /\ reg'[e].peer.name = reg'[d].peer.name
                      /\ \A b \in AgentConns : reg'[b].prev = e => d = b
    BY DEF Replaced
  <2>2. e # c
    BY <1>5, <1>7, <1>8
  <2>3. CASE d = c
    BY <1>3, <1>7, <2>1, <2>2, <2>3, ConnAssumption
  <2>4. CASE d # c
    BY <1>3, <1>7, <2>1, <2>2, <2>4, ConnAssumption DEF IInv, Replaced
  <2> QED BY <2>3, <2>4
<1>12. Brokered'
  <2>1. \A k \in ClientConns : ses[k].agent # Nil => ses[k].agent # prev
    BY <1>0, <1>2 DEF IInv, Filed
  <2> QED BY <1>3, <1>5, <1>7, <2>1, ConnAssumption DEF IInv, Brokered
<1>13. Sessions'
  BY <1>3 DEF IInv, Sessions, Live
<1>14. Kept'
  <2> SUFFICES ASSUME NEW d \in AgentConns, conn[d] = "open"
               PROVE  Owned(d)'
    BY <1>3 DEF Kept
  <2>1. CASE d = c
    BY <1>0, <1>6, <2>1 DEF Owned
  <2>2. CASE d = prev
    BY <1>7, <2>2 DEF Owned
  <2>3. CASE d # c /\ d # prev
    <3>1. Owned(d)
      BY DEF IInv, Kept
    <3>2. \A e \in AgentConns : reg[e].prev = d => reg'[e].prev = d
      BY <1>0, <1>7, ConnAssumption
    <3>3. \A n \in Networks, x \in Names : At(n, x, d) => At(n, x, d)'
      BY <1>2, <1>6, <2>3
    <3> QED BY <1>3, <2>3, <3>1, <3>2, <3>3 DEF Owned
  <2> QED BY <2>1, <2>2, <2>3
<1>15. (active = Cardinality(Live))'
  BY <1>3 DEF IInv, Live
<1> QED BY <1>4, <1>9, <1>10, <1>11, <1>12, <1>13, <1>14, <1>15 DEF IInv

\* The replaced connection is closed by its last owner.
LEMMA ClosePrevInv ==
  ASSUME IInv, NEW c \in AgentConns, ClosePrev(c)
  PROVE  IInv'
<1> DEFINE prev == reg[c].prev
<1>0. /\ reg[c].pc = "closing" /\ prev \in AgentConns /\ prev # Nil
      /\ prev \in Conns /\ prev \notin ClientConns
  BY ConnAssumption DEF IInv, TypeOK, Handlers, ClosePrev, Conns
<1>1. TypeOK'
  <2>1. UNCHANGED <<dir, entries, started, ended, active, remote, ses, copy>>
    BY DEF ClosePrev, Close, audit
  <2>2. conn' \in [Conns -> {"none", "open", "closed"}]
    BY <1>0 DEF IInv, TypeOK, ClosePrev, Close
  <2>3. reg' \in [AgentConns -> [pc : AgentState, peer : Dir!Peer \cup {Nil},
                                   prev : AgentConns \cup {Nil}]]
    BY <1>0 DEF IInv, TypeOK, ClosePrev, AgentState
  <2> QED BY <2>1, <2>2, <2>3, TypeStep DEF IInv, TypeOK
<1>2. /\ \A d \in AgentConns : d # c => reg'[d] = reg[d]
      /\ reg'[c].pc = "returned" /\ reg'[c].peer = reg[c].peer /\ reg'[c].prev = Nil
      /\ \A d \in AgentConns : d # prev => conn'[d] = conn[d]
      /\ \A k \in ClientConns : conn'[k] = conn[k]
      /\ conn'[prev] = "closed"
      /\ UNCHANGED <<dir, entries, started, ended, active, ses, copy>>
  BY <1>0 DEF IInv, TypeOK, ClosePrev, Close, audit, Conns
<1> HIDE DEF prev
<1>3. /\ \A n \in Networks, x \in Names : ~At(n, x, prev)
      /\ \A d \in AgentConns : reg[d].prev = prev => d = c
      /\ \A k \in ClientConns : ses[k].agent # prev
      /\ reg[prev].pc \in {"closing", "returned"}
  BY <1>0 DEF IInv, Filed, Replaced, Brokered, prev
<1>4. \A n \in Networks, x \in Names, d \in AgentConns : At(n, x, d)' <=> At(n, x, d)
  BY <1>2 DEF At
<1>5. \A d, e \in AgentConns :
        reg'[d].prev = e <=> reg[d].prev = e /\ d # c
  BY <1>2, ConnAssumption
<1>6. \A d \in AgentConns :
        /\ reg'[d].peer = reg[d].peer
        /\ reg[d].pc \in {"closing", "returned"} => reg'[d].pc \in {"closing", "returned"}
  BY <1>2
<1>7. Filed'
  BY <1>2, <1>3, <1>4, <1>5, <1>6 DEF IInv, Filed
<1>8. Handlers'
  BY <1>0, <1>2, <1>3 DEF IInv, Handlers
<1>9. Replaced'
  BY <1>0, <1>2, <1>3, <1>5, <1>6 DEF IInv, Replaced
<1>10. Brokered'
  BY <1>2, <1>3, <1>5, <1>6 DEF IInv, Brokered
<1>11. Sessions'
  BY <1>2 DEF IInv, Sessions, Live
<1>12. Kept'
  <2> SUFFICES ASSUME NEW d \in AgentConns, conn'[d] = "open"
               PROVE  Owned(d)'
    BY DEF Kept
  <2>1. d # prev /\ Owned(d)
    BY <1>2 DEF IInv, Kept
  <2>2. \A e \in AgentConns : reg[e].prev = d => reg'[e].prev = d
    BY <1>5, <2>1 DEF prev
  <2>3. reg[d].pc = "upgraded" => reg'[d].pc = "upgraded"
    BY <1>0, <1>2
  <2> QED BY <1>2, <1>4, <2>1, <2>2, <2>3 DEF Owned
<1>13. (active = Cardinality(Live))'
  BY <1>2 DEF IInv, Live
<1> QED BY <1>1, <1>7, <1>8, <1>9, <1>10, <1>11, <1>12, <1>13 DEF IInv

\* A connection's identity is free for reuse only when nothing refers to it.
LEMMA RecycleInv ==
  ASSUME IInv, NEW c \in AgentConns, Recycle(c)
  PROVE  IInv'
<1>0. /\ conn[c] = "closed" /\ reg[c].pc = "returned" /\ c \in Conns /\ c \notin ClientConns
      /\ \A n \in Networks, x \in Names : ~At(n, x, c)
      /\ \A d \in AgentConns : reg[d].prev # c
      /\ \A k \in ClientConns : ses[k].agent # c
  BY ConnAssumption DEF Recycle, Unreferenced, Dir!Listed, At, Conns
<1>1. TypeOK'
  <2>1. UNCHANGED <<dir, entries, started, ended, active, remote, ses, copy>>
    BY DEF Recycle, NoAgent, audit
  <2>2. conn' \in [Conns -> {"none", "open", "closed"}]
    BY <1>0 DEF IInv, TypeOK, Recycle
  <2>3. reg' \in [AgentConns -> [pc : AgentState, peer : Dir!Peer \cup {Nil},
                                   prev : AgentConns \cup {Nil}]]
    BY <1>0 DEF IInv, TypeOK, Recycle, AgentState, NoAgent
  <2> QED BY <2>1, <2>2, <2>3, TypeStep DEF IInv, TypeOK
<1>2. /\ \A d \in AgentConns : d # c => reg'[d] = reg[d] /\ conn'[d] = conn[d]
      /\ reg'[c].pc = "none" /\ reg'[c].prev = Nil /\ conn'[c] = "none"
      /\ \A k \in ClientConns : conn'[k] = conn[k]
      /\ UNCHANGED <<dir, entries, started, ended, active, ses, copy>>
  BY <1>0 DEF IInv, TypeOK, Recycle, NoAgent, audit, Conns
<1>3. reg[c].prev = Nil
  BY <1>0 DEF IInv, Handlers
<1>4. \A n \in Networks, x \in Names, d \in AgentConns : At(n, x, d)' <=> At(n, x, d)
  BY <1>2 DEF At
<1>5. \A d, e \in AgentConns : reg'[d].prev = e <=> reg[d].prev = e
  BY <1>2, <1>3
<1>6. Filed'
  BY <1>0, <1>2, <1>4, <1>5 DEF IInv, Filed
<1>7. Handlers'
  BY <1>2 DEF IInv, Handlers
<1>8. Replaced'
  BY <1>0, <1>2, <1>3, <1>5, ConnAssumption DEF IInv, Replaced
<1>9. Brokered'
  BY <1>0, <1>2, <1>5 DEF IInv, Brokered
<1>10. Sessions'
  BY <1>2 DEF IInv, Sessions, Live
<1>11. Kept'
  BY <1>0, <1>2, <1>4, <1>5 DEF IInv, Kept, Owned
<1>12. (active = Cardinality(Live))'
  BY <1>2 DEF IInv, Live
<1> QED BY <1>1, <1>6, <1>7, <1>8, <1>9, <1>10, <1>11, <1>12 DEF IInv

\* Accepting a client touches no agent's connection.
LEMMA UpgradeClientInv ==
  ASSUME IInv, NEW k \in ClientConns, NEW n \in Networks, NEW x \in Names,
         UpgradeClient(k, n, x)
  PROVE  IInv'
<1>0. conn[k] = "none" /\ k \in Conns /\ k \notin AgentConns
  BY ConnAssumption DEF UpgradeClient, Accept, Conns
<1>1. ses[k].pc = "none" /\ ses[k].agent = Nil
  BY <1>0 DEF IInv, Sessions
<1>2. TypeOK'
  <2>1. UNCHANGED <<dir, entries, started, ended, active, reg, copy>>
    BY DEF UpgradeClient, Accept, audit
  <2>2. conn' \in [Conns -> {"none", "open", "closed"}]
    BY <1>0 DEF IInv, TypeOK, UpgradeClient, Accept
  <2>3. remote' \in [Conns -> BOOLEAN]
    BY <1>0 DEF IInv, TypeOK, UpgradeClient, Accept
  <2>4. ses' \in [ClientConns -> [pc : SessionState, network : Networks \cup {Nil},
                                    name : Names \cup {Nil}, agent : AgentConns \cup {Nil}]]
    BY <1>0 DEF IInv, TypeOK, UpgradeClient, SessionState
  <2> QED BY <2>1, <2>2, <2>3, <2>4, TypeStep DEF IInv, TypeOK
<1>3. /\ \A l \in ClientConns : l # k => ses'[l] = ses[l] /\ conn'[l] = conn[l]
      /\ ses'[k].pc = "upgraded" /\ ses'[k].agent = Nil
      /\ ses'[k].network = n /\ ses'[k].name = x
      /\ conn'[k] = "open"
      /\ \A c \in AgentConns : conn'[c] = conn[c]
      /\ UNCHANGED <<dir, entries, started, ended, active, reg, copy>>
  BY <1>0 DEF IInv, TypeOK, UpgradeClient, Accept, audit, Conns
<1>4. \A m \in Networks, y \in Names, d \in AgentConns : At(m, y, d)' <=> At(m, y, d)
  BY <1>3 DEF At
<1>5. \A l \in ClientConns, c \in AgentConns :
        ses'[l].agent = c <=> ses[l].agent = c
  BY <1>1, <1>3
<1>6. Live' = Live
  BY <1>1, <1>3 DEF Live
<1>7. Filed' /\ Handlers' /\ Replaced'
  BY <1>3, <1>4, <1>5 DEF IInv, Filed, Handlers, Replaced
<1>8. Brokered'
  BY <1>1, <1>3, <1>5, ConnAssumption DEF IInv, Brokered
<1>9. Sessions'
  BY <1>1, <1>3, <1>6 DEF IInv, Sessions
<1>10. Kept'
  BY <1>3, <1>4, <1>5 DEF IInv, Kept, Owned
<1>11. (active = Cardinality(Live))'
  BY <1>3, <1>6 DEF IInv
<1> QED BY <1>2, <1>7, <1>8, <1>9, <1>10, <1>11 DEF IInv

\* Take moves a connection from the registry to one session.
LEMMA TakePeerInv ==
  ASSUME IInv, NEW k \in ClientConns, TakePeer(k)
  PROVE  IInv'
<1> DEFINE n == ses[k].network
           x == ses[k].name
           c == dir[n][x].conn
<1>0. /\ ses[k].pc = "upgraded" /\ n \in Networks /\ x \in Names
      /\ ses[k].agent = Nil /\ dir[n][x] # Nil
  BY DEF IInv, Sessions, TakePeer, Wanted
<1>1. c \in AgentConns /\ At(n, x, c) /\ c # Nil
  BY <1>0, ListedRecord, ConnAssumption DEF IInv, At
<1>2. /\ Dir!TypeOK'
      /\ \A m \in Networks, y \in Names :
           dir'[m][y] = IF m = n /\ y = x THEN Nil ELSE dir[m][y]
  BY <1>0, TakeEffect DEF TakePeer, IInv
<1>3. /\ \A l \in ClientConns : l # k => ses'[l] = ses[l]
      /\ ses'[k].pc = "taken" /\ ses'[k].agent = c
      /\ ses'[k].network = n /\ ses'[k].name = x
      /\ ses' \in [ClientConns -> [pc : SessionState, network : Networks \cup {Nil},
                               name : Names \cup {Nil}, agent : AgentConns \cup {Nil}]]
      /\ UNCHANGED <<entries, started, ended, active, conn, remote, reg, copy>>
  BY <1>1 DEF IInv, TypeOK, TakePeer, Wanted, audit, SessionState
<1> HIDE DEF n, x, c
<1>4. TypeOK'
  BY <1>2, <1>3 DEF IInv, TypeOK, Audit!TypeOK
<1>5. /\ reg[c].pc \in {"closing", "returned"} /\ conn[c] = "open"
      /\ reg[c].peer.network = n /\ reg[c].peer.name = x
      /\ \A d \in AgentConns : reg[d].prev # c
      /\ \A l \in ClientConns : ses[l].agent # c
      /\ \A m \in Networks, y \in Names : At(m, y, c) => m = n /\ y = x
  BY <1>0, <1>1 DEF IInv, Filed
<1>6. \A m \in Networks, y \in Names, d \in AgentConns :
        At(m, y, d)' <=> At(m, y, d) /\ ~(m = n /\ y = x)
  BY <1>2 DEF At
<1>7. \A l \in ClientConns, d \in AgentConns :
        ses'[l].agent = d <=> IF l = k THEN d = c ELSE ses[l].agent = d
  BY <1>3
<1>8. Live' = Live
  BY <1>0, <1>3 DEF Live
<1>9. Filed'
  <2>1. \A m \in Networks, y \in Names, d \in AgentConns :
          At(m, y, d)' => d # c /\ At(m, y, d) /\ dir'[m][y] = dir[m][y]
    BY <1>2, <1>5, <1>6
  <2> QED BY <1>3, <1>7, <2>1 DEF IInv, Filed
<1>10. Handlers' /\ Replaced'
  BY <1>3 DEF IInv, Handlers, Replaced
<1>11. Brokered'
  BY <1>0, <1>3, <1>5, <1>7 DEF IInv, Brokered
<1>12. Sessions'
  BY <1>0, <1>1, <1>3, <1>8 DEF IInv, Sessions
<1>13. Kept'
  <2> SUFFICES ASSUME NEW d \in AgentConns, conn[d] = "open"
               PROVE  Owned(d)'
    BY <1>3 DEF Kept
  <2>1. CASE d = c
    BY <1>7, <2>1 DEF Owned
  <2>2. CASE d # c
    <3>1. Owned(d)
      BY DEF IInv, Kept
    <3>2. \A l \in ClientConns : ses[l].agent = d => ses'[l].agent = d
      BY <1>0, <1>7, ConnAssumption
    <3>3. \A m \in Networks, y \in Names : At(m, y, d) => At(m, y, d)'
      BY <1>1, <1>6, <2>2 DEF At
    <3> QED BY <1>3, <3>1, <3>2, <3>3 DEF Owned
  <2> QED BY <2>1, <2>2
<1>14. (active = Cardinality(Live))'
  BY <1>3, <1>8 DEF IInv
<1> QED BY <1>4, <1>9, <1>10, <1>11, <1>12, <1>13, <1>14 DEF IInv

\* Steps that leave every reference to an agent's connection where it is.
LEMMA ReferencesKept ==
  ASSUME IInv, UNCHANGED <<dir, reg>>,
         \A c \in AgentConns : conn'[c] = conn[c],
         \A k \in ClientConns : /\ ses'[k].agent = ses[k].agent
                                /\ ses'[k].network = ses[k].network
                                /\ ses'[k].name = ses[k].name
                                /\ ses'[k].pc = "draining" <=> ses[k].pc = "draining"
  PROVE  Filed' /\ Handlers' /\ Replaced' /\ Brokered' /\ Kept'
<1>1. \A n \in Networks, x \in Names, d \in AgentConns : At(n, x, d)' <=> At(n, x, d)
  BY DEF At
<1>2. Filed'
  BY <1>1 DEF IInv, Filed
<1>3. Handlers' /\ Replaced'
  BY DEF IInv, Handlers, Replaced
<1>4. Brokered'
  BY DEF IInv, Brokered
<1>5. Kept'
  BY <1>1 DEF IInv, Kept, Owned
<1> QED BY <1>2, <1>3, <1>4, <1>5

\* A client that is refused leaves no session behind.
LEMMA RefuseInv ==
  ASSUME IInv, NEW k \in ClientConns, Refuse(k)
  PROVE  IInv'
<1>0. ses[k].pc = "upgraded" /\ ses[k].agent = Nil /\ k \in Conns /\ k \notin AgentConns
  BY ConnAssumption DEF IInv, Sessions, Refuse, Conns
<1>1. TypeOK'
  <2>1. UNCHANGED <<dir, entries, started, ended, active, remote, reg, copy>>
    BY DEF Refuse, Close, audit
  <2>2. conn' \in [Conns -> {"none", "open", "closed"}]
    BY <1>0 DEF IInv, TypeOK, Refuse, Close
  <2>3. ses' \in [ClientConns -> [pc : SessionState, network : Networks \cup {Nil},
                                    name : Names \cup {Nil}, agent : AgentConns \cup {Nil}]]
    BY <1>0 DEF IInv, TypeOK, Refuse, SessionState
  <2> QED BY <2>1, <2>2, <2>3, TypeStep DEF IInv, TypeOK
<1>2. /\ \A l \in ClientConns : l # k => ses'[l] = ses[l] /\ conn'[l] = conn[l]
      /\ ses'[k].pc = "returned" /\ ses'[k].agent = Nil
      /\ ses'[k].network = ses[k].network /\ ses'[k].name = ses[k].name
      /\ conn'[k] = "closed"
      /\ \A c \in AgentConns : conn'[c] = conn[c]
      /\ UNCHANGED <<dir, entries, started, ended, active, reg, copy>>
  BY <1>0 DEF IInv, TypeOK, Refuse, Close, audit, Conns
<1>3. Live' = Live
  BY <1>0, <1>2 DEF Live
<1>4. Filed' /\ Handlers' /\ Replaced' /\ Brokered' /\ Kept'
  BY <1>0, <1>2, ReferencesKept
<1>5. Sessions'
  BY <1>0, <1>2, <1>3 DEF IInv, Sessions
<1>6. (active = Cardinality(Live))'
  BY <1>2, <1>3 DEF IInv
<1> QED BY <1>1, <1>4, <1>5, <1>6 DEF IInv

\* The audit log's history stays within its bound.
LEMMA RecordBounded ==
  ASSUME Audit!TypeOK, NEW k \in ClientConns
  PROVE  Audit!Record(k) \in Seq(ClientConns) /\ Len(Audit!Record(k)) <= Audit!Cap
<1> DEFINE e == Append(entries, k)
<1>0. Audit!Cap \in Nat /\ Audit!Cap >= 1
  BY MaxEntriesAssumption DEF Audit!Cap
<1>1. e \in Seq(ClientConns) /\ Len(e) = Len(entries) + 1 /\ Len(entries) \in Nat
  BY DEF Audit!TypeOK
<1> HIDE DEF e
<1>2. CASE Len(e) > Audit!Cap
  <2>1. /\ SubSeq(e, Len(e) - Audit!Cap + 1, Len(e)) \in Seq(ClientConns)
        /\ Len(SubSeq(e, Len(e) - Audit!Cap + 1, Len(e))) = Audit!Cap
    BY <1>0, <1>1, <1>2, SubSeqProperties
  <2> QED BY <1>0, <1>2, <2>1 DEF Audit!Record, e
<1>3. CASE ~(Len(e) > Audit!Cap)
  BY <1>0, <1>1, <1>3 DEF Audit!Record, e
<1> QED BY <1>2, <1>3

\* The start of a relay is counted.
LEMMA StartRelayInv ==
  ASSUME IInv, NEW k \in ClientConns, StartRelay(k)
  PROVE  IInv'
<1>0. ses[k].pc = "taken" /\ started[k] = 0 /\ ended[k] = 0 /\ Audit!Start(k)
  BY DEF IInv, Sessions, StartRelay
<1>1. Audit!TypeOK'
  <2>1. Audit!Record(k) \in Seq(ClientConns) /\ Len(Audit!Record(k)) <= Audit!Cap
    BY RecordBounded DEF IInv, TypeOK
  <2> QED BY <1>0, <2>1 DEF IInv, TypeOK, Audit!TypeOK, Audit!Start, Audit!Cap
<1>2. TypeOK'
  BY <1>1 DEF IInv, TypeOK, Dir!TypeOK, SessionState, StartRelay
<1>3. /\ \A l \in ClientConns : l # k =>
           ses'[l] = ses[l] /\ started'[l] = started[l] /\ copy'[l] = copy[l]
      /\ ses'[k].pc = "relaying" /\ ses'[k].agent = ses[k].agent
      /\ ses'[k].network = ses[k].network /\ ses'[k].name = ses[k].name
      /\ started'[k] = 1
      /\ active' = active + 1
      /\ UNCHANGED <<dir, ended, conn, remote, reg>>
  BY <1>0 DEF IInv, TypeOK, Audit!TypeOK, StartRelay, Audit!Start
<1>4. Live' = Live \cup {k} /\ k \notin Live
  BY <1>0, <1>3 DEF Live
<1>5. Filed' /\ Handlers' /\ Replaced' /\ Brokered' /\ Kept'
  BY <1>0, <1>3, ReferencesKept
<1>6. Sessions'
  BY <1>0, <1>3, <1>4 DEF IInv, Sessions
<1>7. (active = Cardinality(Live))'
  BY <1>3, <1>4, LiveIsFinite, FS_AddElement DEF IInv
<1> QED BY <1>2, <1>5, <1>6, <1>7 DEF IInv

\* The copiers only touch their own state, and only while their relay runs.
LEMMA CopyInv ==
  ASSUME IInv, NEW k \in ClientConns, NEW w \in Ways,
         NEW from \in {"read", "write"}, NEW to \in {"read", "write", "done"},
         Copier(k, w, from, to)
  PROVE  IInv'
<1>1. /\ \A l \in ClientConns : l # k => copy'[l] = copy[l]
      /\ copy[k][w] = from /\ copy'[k][w] = to
      /\ \A v \in Ways : v # w => copy'[k][v] = copy[k][v]
      /\ UNCHANGED <<dir, entries, started, ended, active, conn, remote, reg, ses>>
  BY DEF IInv, TypeOK, Copier, audit
<1>2. TypeOK'
  BY DEF IInv, TypeOK, Dir!TypeOK, Audit!TypeOK, Copier, audit
<1>3. Filed' /\ Handlers' /\ Replaced' /\ Brokered' /\ Kept'
  BY <1>1, ReferencesKept
<1>4. Sessions'
  BY <1>1 DEF IInv, Sessions, Live
<1>5. (active = Cardinality(Live))'
  BY <1>1 DEF IInv, Live
<1> QED BY <1>2, <1>3, <1>4, <1>5 DEF IInv

\* The relay closes its client only after one of its directions has ended.
LEMMA FirstDoneInv ==
  ASSUME IInv, NEW k \in ClientConns, FirstDone(k)
  PROVE  IInv'
<1>0. /\ ses[k].pc = "relaying" /\ k \in Conns /\ k \notin AgentConns
      /\ \E w \in Ways : copy[k][w] = "done"
  BY ConnAssumption DEF FirstDone, Conns
<1>1. TypeOK'
  <2>1. UNCHANGED <<dir, entries, started, ended, active, remote, reg, copy>>
    BY DEF FirstDone, Close, audit
  <2>2. conn' \in [Conns -> {"none", "open", "closed"}]
    BY <1>0 DEF IInv, TypeOK, FirstDone, Close
  <2>3. ses' \in [ClientConns -> [pc : SessionState, network : Networks \cup {Nil},
                                    name : Names \cup {Nil}, agent : AgentConns \cup {Nil}]]
    BY <1>0 DEF IInv, TypeOK, FirstDone, SessionState
  <2> QED BY <2>1, <2>2, <2>3, TypeStep DEF IInv, TypeOK
<1>2. /\ \A l \in ClientConns : l # k => ses'[l] = ses[l] /\ conn'[l] = conn[l]
      /\ ses'[k].pc = "closing" /\ ses'[k].agent = ses[k].agent
      /\ ses'[k].network = ses[k].network /\ ses'[k].name = ses[k].name
      /\ conn'[k] = "closed"
      /\ \A c \in AgentConns : conn'[c] = conn[c]
      /\ UNCHANGED <<dir, entries, started, ended, active, reg, copy>>
  BY <1>0 DEF IInv, TypeOK, FirstDone, Close, audit, Conns
<1>3. Live' = Live
  BY <1>0, <1>2 DEF Live
<1>4. Filed' /\ Handlers' /\ Replaced' /\ Brokered' /\ Kept'
  BY <1>0, <1>2, ReferencesKept
<1>5. Sessions'
  BY <1>0, <1>2, <1>3 DEF IInv, Sessions
<1>6. (active = Cardinality(Live))'
  BY <1>2, <1>3 DEF IInv
<1> QED BY <1>1, <1>4, <1>5, <1>6 DEF IInv

\* The relay closes the agent it alone uses.
LEMMA CloseAgentInv ==
  ASSUME IInv, NEW k \in ClientConns, CloseAgent(k)
  PROVE  IInv'
<1> DEFINE c == ses[k].agent
<1>0. /\ ses[k].pc = "closing" /\ c \in AgentConns /\ c # Nil
      /\ c \in Conns /\ c \notin ClientConns
  BY ConnAssumption DEF IInv, TypeOK, Sessions, CloseAgent, Conns
<1>1. TypeOK'
  <2>1. UNCHANGED <<dir, entries, started, ended, active, remote, reg, copy>>
    BY DEF CloseAgent, Close, audit
  <2>2. conn' \in [Conns -> {"none", "open", "closed"}]
    BY <1>0 DEF IInv, TypeOK, CloseAgent, Close
  <2>3. ses' \in [ClientConns -> [pc : SessionState, network : Networks \cup {Nil},
                                    name : Names \cup {Nil}, agent : AgentConns \cup {Nil}]]
    BY <1>0 DEF IInv, TypeOK, CloseAgent, SessionState
  <2> QED BY <2>1, <2>2, <2>3, TypeStep DEF IInv, TypeOK
<1>2. /\ \A l \in ClientConns : l # k => ses'[l] = ses[l]
      /\ ses'[k].pc = "draining" /\ ses'[k].agent = c
      /\ ses'[k].network = ses[k].network /\ ses'[k].name = ses[k].name
      /\ \A d \in AgentConns : d # c => conn'[d] = conn[d]
      /\ conn'[c] = "closed"
      /\ \A l \in ClientConns : conn'[l] = conn[l]
      /\ UNCHANGED <<dir, entries, started, ended, active, reg, copy>>
  BY <1>0 DEF IInv, TypeOK, CloseAgent, Close, audit, Conns
<1>3. /\ reg[c].pc \in {"closing", "returned"}
      /\ \A n \in Networks, x \in Names : ~At(n, x, c)
      /\ \A d \in AgentConns : reg[d].prev # c
      /\ \A l \in ClientConns : ses[l].agent = c => l = k
      /\ conn[c] = "open"
  BY <1>0 DEF IInv, Filed, Brokered
<1>4. \A l \in ClientConns : /\ ses'[l].agent = ses[l].agent
                             /\ ses'[l].network = ses[l].network
                             /\ ses'[l].name = ses[l].name
  BY <1>2
<1> HIDE DEF c
<1>5. \A n \in Networks, x \in Names, d \in AgentConns : At(n, x, d)' <=> At(n, x, d)
  BY <1>2 DEF At
<1>6. Live' = Live
  BY <1>0, <1>2 DEF Live
<1>7. Filed'
  BY <1>2, <1>3, <1>4, <1>5 DEF IInv, Filed
<1>8. Handlers' /\ Replaced'
  BY <1>2, <1>3 DEF IInv, Handlers, Replaced
<1>9. Brokered'
  <2> SUFFICES ASSUME NEW l \in ClientConns, NEW d \in AgentConns, ses[l].agent = d
               PROVE  /\ reg[d].pc \in {"closing", "returned"}
                      /\ conn'[d] = IF ses'[l].pc = "draining" THEN "closed" ELSE "open"
                      /\ reg[d].peer.network = ses[l].network
                      /\ reg[d].peer.name = ses[l].name
                      /\ \A j \in ClientConns : ses[j].agent = d => l = j
                      /\ \A e \in AgentConns : reg[e].prev # d
    BY <1>2, <1>4 DEF Brokered
  <2>1. CASE d = c
    BY <1>2, <1>3, <2>1 DEF IInv, Brokered
  <2>2. CASE d # c
    <3>1. l # k
      BY <2>2 DEF c
    <3> QED BY <1>2, <2>2, <3>1 DEF IInv, Brokered
  <2> QED BY <2>1, <2>2
<1>10. Sessions'
  BY <1>0, <1>2, <1>6 DEF IInv, Sessions
<1>11. Kept'
  BY <1>2, <1>4, <1>5 DEF IInv, Kept, Owned
<1>12. (active = Cardinality(Live))'
  BY <1>2, <1>6 DEF IInv
<1> QED BY <1>1, <1>7, <1>8, <1>9, <1>10, <1>11, <1>12 DEF IInv

\* The end of a relay is counted, when its copiers are gone and both ends closed.
LEMMA EndRelayInv ==
  ASSUME IInv, NEW k \in ClientConns, EndRelay(k)
  PROVE  IInv'
<1> DEFINE c == ses[k].agent
<1>0. /\ ses[k].pc = "draining" /\ c \in AgentConns /\ c # Nil
      /\ started[k] # 0 /\ ended[k] = 0 /\ k \in Live
      /\ \A w \in Ways : copy[k][w] = "done"
      /\ conn[c] = "closed"
  BY ConnAssumption DEF IInv, TypeOK, Sessions, EndRelay, Live, Brokered
<1>1. Cardinality(Live) \in Nat /\ Cardinality(Live \ {k}) \in Nat
      /\ Cardinality(Live \ {k}) = Cardinality(Live) - 1
  BY <1>0, LiveIsFinite, FS_RemoveElement, FS_Subset, FS_CardinalityType
<1>2. /\ ended' = [ended EXCEPT ![k] = 1]
      /\ active' = active - 1 /\ active' \in Nat
      /\ UNCHANGED <<entries, started>>
  BY <1>0, <1>1 DEF IInv, EndRelay, Audit!End, Audit!EndsNow, Audit!IsOpen
<1>3. TypeOK'
  <2>1. Audit!TypeOK'
    BY <1>2 DEF IInv, TypeOK, Audit!TypeOK, Audit!Cap
  <2> QED BY <2>1 DEF IInv, TypeOK, Dir!TypeOK, SessionState, EndRelay
<1>4. /\ \A l \in ClientConns : l # k => ses'[l] = ses[l] /\ ended'[l] = ended[l]
      /\ ses'[k].pc = "returned" /\ ses'[k].agent = Nil
      /\ ses'[k].network = ses[k].network /\ ses'[k].name = ses[k].name
      /\ ended'[k] = 1
      /\ UNCHANGED <<dir, started, conn, remote, reg, copy>>
  BY <1>2 DEF IInv, TypeOK, Audit!TypeOK, EndRelay
<1> HIDE DEF c
<1>5. \A l \in ClientConns, d \in AgentConns :
        ses'[l].agent = d <=> ses[l].agent = d /\ l # k
  BY <1>4, ConnAssumption
<1>6. \A n \in Networks, x \in Names, d \in AgentConns : At(n, x, d)' <=> At(n, x, d)
  BY <1>4 DEF At
<1>7. Live' = Live \ {k}
  BY <1>4 DEF Live
<1>8. Filed'
  BY <1>4, <1>5, <1>6 DEF IInv, Filed
<1>9. Handlers' /\ Replaced'
  BY <1>4 DEF IInv, Handlers, Replaced
<1>10. Brokered'
  BY <1>4, <1>5 DEF IInv, Brokered
<1>11. Sessions'
  BY <1>0, <1>4, <1>7 DEF IInv, Sessions
<1>12. Kept'
  <2> SUFFICES ASSUME NEW d \in AgentConns, conn[d] = "open"
               PROVE  Owned(d)'
    BY <1>4 DEF Kept
  <2>1. Owned(d) /\ ses[k].agent # d
    BY <1>0 DEF IInv, Kept, c
  <2> QED BY <1>4, <1>5, <1>6, <2>1 DEF Owned
<1>13. (active = Cardinality(Live))'
  BY <1>1, <1>2, <1>7 DEF IInv
<1> QED BY <1>3, <1>8, <1>9, <1>10, <1>11, <1>12, <1>13 DEF IInv

\* Steps that change no more than which far ends are still there.
LEMMA QuietInv ==
  ASSUME IInv, remote' \in [Conns -> BOOLEAN],
         UNCHANGED <<dir, entries, started, ended, active, conn, reg, ses, copy>>
  PROVE  IInv'
<1>1. TypeOK'
  BY DEF IInv, TypeOK, Dir!TypeOK, Audit!TypeOK
<1>2. Filed' /\ Handlers' /\ Replaced' /\ Brokered' /\ Kept'
  BY ReferencesKept
<1>3. Sessions' /\ (active = Cardinality(Live))'
  BY DEF IInv, Sessions, Live
<1> QED BY <1>1, <1>2, <1>3 DEF IInv

\* Every step of the hub keeps the invariant.
LEMMA NextInv == IInv /\ [Next]_vars => IInv'
<1> SUFFICES ASSUME IInv, [Next]_vars PROVE IInv'
  OBVIOUS
<1>1. ASSUME NEW c \in AgentConns, NEW p \in Dir!Peer, UpgradeAgent(c, p) PROVE IInv'
  BY <1>1, UpgradeAgentInv
<1>2. ASSUME NEW c \in AgentConns, HandleAgent(c) \/ Recycle(c) PROVE IInv'
  BY <1>2, AddAgentInv, ClosePrevInv, RecycleInv DEF HandleAgent
<1>3. ASSUME NEW k \in ClientConns, NEW n \in Networks, NEW x \in Names,
             UpgradeClient(k, n, x)
      PROVE  IInv'
  BY <1>3, UpgradeClientInv
<1>4. ASSUME NEW k \in ClientConns, HandleConnect(k) PROVE IInv'
  BY <1>4, TakePeerInv, RefuseInv, StartRelayInv, FirstDoneInv, CloseAgentInv,
     EndRelayInv DEF HandleConnect
<1>5. ASSUME NEW k \in ClientConns, NEW w \in Ways, CopyMsgs(k, w) PROVE IInv'
  BY <1>5, CopyInv DEF CopyMsgs, CopyRead, CopyReadFails, CopyWrite, CopyWriteFails
<1>6. ASSUME NEW c \in Conns, RemoteGone(c) PROVE IInv'
  <2>1. remote' \in [Conns -> BOOLEAN]
    BY <1>6 DEF RemoteGone, IInv, TypeOK
  <2> QED BY <1>6, <2>1, QuietInv DEF RemoteGone, audit
<1>7. CASE UNCHANGED vars
  BY <1>7, QuietInv DEF vars, IInv, TypeOK
<1> QED BY <1>1, <1>2, <1>3, <1>4, <1>5, <1>6, <1>7 DEF Next

\* The inductive invariant: who holds each connection, at each point of every
\* handler, through all interleavings of registrations and sessions.
THEOREM Invariance == Spec => []IInv
<1> QED BY InitInv, NextInv, PTL DEF Spec

------------------------------------------------------------------------------
\* Every variable of the hub, and of the registry and the audit log it holds,
\* keeps its type; the audit history keeps its bound.
THEOREM TypeCorrect == Spec => []TypeOK
<1>1. IInv => TypeOK
  BY DEF IInv
<1> QED BY <1>1, Invariance, PTL

\* A directory lists a connection exactly when one of its places holds it.
LEMMA ListedAt ==
  ASSUME NEW c
  PROVE  Dir!Listed(c) <=> \E n \in Networks, x \in Names : At(n, x, c)
BY DEF Dir!Listed, At

\* Whoever may still use an open connection is one of those NoLeak counts.
LEMMA NoLeakInv == IInv => NoLeak
BY ListedAt DEF IInv, Kept, Owned, NoLeak, Upgrading, Replacers, Users

\* No agent's connection is leaked: one that is open is still referred to by
\* its handler, the registry, the goroutine that will close it, or a session.
THEOREM NothingLeaks == Spec => []NoLeak
BY NoLeakInv, Invariance, PTL

\* Filed, Replaced and Brokered each exclude the others.
LEMMA OneOwnerInv == IInv => OneOwner
<1> SUFFICES ASSUME IInv PROVE OneOwner  OBVIOUS
<1> SUFFICES ASSUME NEW c \in AgentConns
             PROVE  /\ \A k, l \in Users(c) : k = l
                    /\ \A d, e \in Replacers(c) : d = e
                    /\ \A s, t \in Slots(c) : s = t
                    /\ Users(c) # {} => Replacers(c) = {} /\ ~Dir!Listed(c)
                    /\ Dir!Listed(c) => Replacers(c) = {}
                    /\ Upgrading(c) => /\ Users(c) = {} /\ Replacers(c) = {}
                                       /\ ~Dir!Listed(c)
  BY DEF OneOwner
<1>1. \A k, l \in Users(c) : k = l
  BY DEF IInv, Brokered, Users
<1>2. \A d, e \in Replacers(c) : d = e
  BY DEF IInv, Replaced, Replacers
<1>3. \A s, t \in Slots(c) : s = t
  <2> SUFFICES ASSUME NEW s \in Networks \X Names, NEW t \in Networks \X Names,
                      At(s[1], s[2], c), At(t[1], t[2], c)
               PROVE  s = t
    BY DEF Slots, At
  <2>1. s[1] \in Networks /\ s[2] \in Names /\ t[1] \in Networks /\ t[2] \in Names
    OBVIOUS
  <2>2. s[1] = t[1] /\ s[2] = t[2]
    BY <2>1 DEF IInv, Filed
  <2> QED BY <2>2
<1>4. Users(c) # {} => Replacers(c) = {} /\ ~Dir!Listed(c)
  BY ListedAt DEF IInv, Brokered, Filed, Users, Replacers
<1>5. Dir!Listed(c) => Replacers(c) = {}
  BY ListedAt DEF IInv, Filed, Replacers
<1>6. Upgrading(c) => Users(c) = {} /\ Replacers(c) = {} /\ ~Dir!Listed(c)
  BY ListedAt DEF IInv, Filed, Replaced, Brokered, Users, Replacers, Upgrading
<1> QED BY <1>1, <1>2, <1>3, <1>4, <1>5, <1>6

\* However registrations, replacements and clients interleave, an agent's
\* connection has one owner: one session at a time per registration.
THEOREM OwnershipIsExclusive == Spec => []OneOwner
BY OneOwnerInv, Invariance, PTL

\* What is filed or brokered is open.
LEMMA OfferedIsOpenInv == IInv => OfferedIsOpen
BY ListedAt DEF IInv, Filed, Brokered, OfferedIsOpen, Users

\* What discovery offers and what a client is given, the hub has not closed.
THEOREM OffersAreOpen == Spec => []OfferedIsOpen
BY OfferedIsOpenInv, Invariance, PTL

\* What is filed or brokered is registered under that name.
LEMMA RoutedInv == IInv => Routed
<1> SUFFICES ASSUME IInv PROVE Routed  OBVIOUS
<1>1. ASSUME NEW k \in ClientConns, ses[k].agent # Nil
      PROVE  /\ reg[ses[k].agent].peer.network = ses[k].network
             /\ reg[ses[k].agent].peer.name = ses[k].name
  <2>1. ses[k].agent \in AgentConns
    BY <1>1 DEF IInv, TypeOK
  <2> QED BY <2>1 DEF IInv, Brokered
<1>2. ASSUME NEW n \in Networks, NEW x \in Names, dir[n][x] # Nil
      PROVE  /\ dir[n][x].peer = reg[dir[n][x].conn].peer
             /\ dir[n][x].peer.network = n /\ dir[n][x].peer.name = x
  <2>1. dir[n][x].conn \in AgentConns /\ At(n, x, dir[n][x].conn)
    BY <1>2, ListedRecord DEF IInv, At
  <2> QED BY <2>1 DEF IInv, Filed
<1> QED BY <1>1, <1>2 DEF Routed

\* A client reaches an agent of the network and name it asked for, and
\* discovery shows what that very agent registered.
THEOREM RoutingIsExact == Spec => []Routed
BY RoutedInv, Invariance, PTL

\* The log counts the goroutines that relay.
LEMMA AuditIsLiveInv == IInv => AuditIsLive
BY DEF IInv, Sessions, AuditIsLive

\* The live count of /status is the number of relays the hub runs, and a
\* session recorded as ended has left nothing running.
THEOREM AuditIsExact == Spec => []AuditIsLive
BY AuditIsLiveInv, Invariance, PTL

\* An agent's connection is closed by the hub only for a newer registration of
\* the same name, or after one direction of its own session has ended.
THEOREM ClosesHaveReasons == Spec => CloseHasReason
<1>1. IInv /\ [Next]_vars => [ClosedForReason]_vars
  <2> SUFFICES ASSUME IInv, Next,
                      NEW c \in AgentConns, conn[c] = "open", conn'[c] = "closed"
               PROVE  \/ \E d \in Replacers(c) :
                           /\ reg[d].peer.network = reg[c].peer.network
                           /\ reg[d].peer.name = reg[c].peer.name
                      \/ \E k \in Users(c), w \in Ways : copy[k][w] = "done"
    BY DEF ClosedForReason
  <2>0. /\ c \in Conns /\ c \notin ClientConns
        /\ conn \in [Conns -> {"none", "open", "closed"}]
    BY ConnAssumption DEF IInv, TypeOK, Conns
  <2>1. ASSUME NEW d \in AgentConns, ClosePrev(d)
        PROVE  \E e \in Replacers(c) : /\ reg[e].peer.network = reg[c].peer.network
                                       /\ reg[e].peer.name = reg[c].peer.name
    <3>1. reg[d].prev = c
      BY <2>0, <2>1 DEF ClosePrev, Close
    <3> QED BY <3>1 DEF IInv, Replaced, Replacers
  <2>2. ASSUME NEW k \in ClientConns, CloseAgent(k)
        PROVE  \E l \in Users(c), w \in Ways : copy[l][w] = "done"
    <3>1. ses[k].agent = c
      BY <2>0, <2>2 DEF CloseAgent, Close
    <3>2. \E w \in Ways : copy[k][w] = "done"
      BY <2>2 DEF IInv, Sessions, CloseAgent
    <3> QED BY <3>1, <3>2 DEF Users
  <2>3. ASSUME NEW k \in ClientConns, HandleConnect(k), ~CloseAgent(k)
        PROVE  FALSE
    BY <2>0, <2>3 DEF HandleConnect, TakePeer, Refuse, StartRelay, FirstDone,
                      EndRelay, Close
  <2>4. ASSUME NEW d \in AgentConns, AddAgent(d) \/ Recycle(d)
        PROVE  FALSE
    BY <2>0, <2>4 DEF AddAgent, Recycle
  <2>5. ASSUME NEW d \in AgentConns, NEW p \in Dir!Peer, UpgradeAgent(d, p)
        PROVE  FALSE
    BY <2>0, <2>5 DEF UpgradeAgent, Accept
  <2>6. ASSUME NEW k \in ClientConns, NEW n \in Networks, NEW x \in Names,
               UpgradeClient(k, n, x)
        PROVE  FALSE
    BY <2>0, <2>6 DEF UpgradeClient, Accept
  <2>7. ASSUME NEW k \in ClientConns, NEW w \in Ways, CopyMsgs(k, w)
        PROVE  FALSE
    BY <2>7 DEF CopyMsgs, CopyRead, CopyReadFails, CopyWrite, CopyWriteFails, Copier
  <2>8. ASSUME NEW d \in Conns, RemoteGone(d)
        PROVE  FALSE
    BY <2>8 DEF RemoteGone
  <2> QED BY <2>1, <2>2, <2>3, <2>4, <2>5, <2>6, <2>7, <2>8 DEF Next, HandleAgent
<1> QED BY <1>1, Invariance, PTL DEF Spec, CloseHasReason

------------------------------------------------------------------------------
(* The hub and what it is composed with.                                   *)

\* The hub uses the registry by its contract: whatever it does to it is an Add
\* or a Take of a connection and a peer the contract knows.
THEOREM KeepsToDirectory == Spec => Dir!Spec
<1>1. Init => Dir!Init  BY DEF Init
<1>2. IInv /\ [Next]_vars => [Dir!Next]_dir
  <2> SUFFICES ASSUME IInv, Next, dir' # dir PROVE Dir!Next
    BY DEF vars
  <2>1. ASSUME NEW c \in AgentConns, AddAgent(c) PROVE Dir!Next
    <3>1. reg[c].peer \in Dir!Peer  BY <2>1 DEF IInv, Handlers, AddAgent
    <3>2. Dir!Add(reg[c].peer, c)  BY <2>1 DEF AddAgent
    <3> QED  BY <3>1, <3>2 DEF Dir!Next
  <2>2. ASSUME NEW k \in ClientConns, TakePeer(k) PROVE Dir!Next
    <3>1. ses[k].network \in Networks /\ ses[k].name \in Names
      BY <2>2 DEF IInv, Sessions, TakePeer
    <3>2. Dir!Take(ses[k].network, ses[k].name)  BY <2>2 DEF TakePeer
    <3> QED  BY <3>1, <3>2 DEF Dir!Next
  <2>3. ASSUME NEW c \in AgentConns, HandleAgent(c) \/ Recycle(c), ~AddAgent(c) PROVE FALSE
    BY <2>3 DEF HandleAgent, ClosePrev, Recycle
  <2>4. ASSUME NEW k \in ClientConns, HandleConnect(k), ~TakePeer(k) PROVE FALSE
    BY <2>4 DEF HandleConnect, Refuse, StartRelay, FirstDone, CloseAgent, EndRelay
  <2>5. ASSUME NEW c \in AgentConns, NEW p \in Dir!Peer, UpgradeAgent(c, p) PROVE FALSE
    BY <2>5 DEF UpgradeAgent
  <2>6. ASSUME NEW k \in ClientConns, NEW n \in Networks, NEW x \in Names, UpgradeClient(k, n, x)
        PROVE  FALSE
    BY <2>6 DEF UpgradeClient
  <2>7. ASSUME NEW k \in ClientConns, NEW w \in Ways, CopyMsgs(k, w) PROVE FALSE
    BY <2>7 DEF CopyMsgs, CopyRead, CopyReadFails, CopyWrite, CopyWriteFails, Copier
  <2>8. ASSUME NEW c \in Conns, RemoteGone(c) PROVE FALSE
    BY <2>8 DEF RemoteGone
  <2> QED  BY <2>1, <2>2, <2>3, <2>4, <2>5, <2>6, <2>7, <2>8 DEF Next
<1> QED  BY <1>1, <1>2, Invariance, PTL DEF Spec, Dir!Spec

\* And the audit log as it is meant to be: each session is started once, and
\* ended only after it was started.
THEOREM KeepsToAuditLog == Spec => Audit!Spec
<1>1. Init => Audit!Init  BY DEF Init
<1>2. Next \/ UNCHANGED vars => Audit!Next \/ UNCHANGED Audit!vars
  <2>1. ASSUME NEW k \in ClientConns, StartRelay(k) PROVE Audit!Next
    BY <2>1 DEF StartRelay, Audit!Next
  <2>2. ASSUME NEW k \in ClientConns, EndRelay(k) PROVE Audit!Next
    BY <2>2 DEF EndRelay, Audit!Next
  <2>3. ASSUME UNCHANGED audit PROVE UNCHANGED Audit!vars
    BY <2>3 DEF audit, Audit!vars
  <2>4. ASSUME NEW c \in AgentConns, HandleAgent(c) \/ Recycle(c) PROVE UNCHANGED audit
    BY <2>4 DEF HandleAgent, AddAgent, ClosePrev, Recycle
  <2>5. ASSUME NEW k \in ClientConns, HandleConnect(k), ~StartRelay(k), ~EndRelay(k)
        PROVE  UNCHANGED audit
    BY <2>5 DEF HandleConnect, TakePeer, Refuse, FirstDone, CloseAgent
  <2>6. ASSUME NEW c \in AgentConns, NEW p \in Dir!Peer, UpgradeAgent(c, p) PROVE UNCHANGED audit
    BY <2>6 DEF UpgradeAgent
  <2>7. ASSUME NEW k \in ClientConns, NEW n \in Networks, NEW x \in Names, UpgradeClient(k, n, x)
        PROVE  UNCHANGED audit
    BY <2>7 DEF UpgradeClient
  <2>8. ASSUME NEW k \in ClientConns, NEW w \in Ways, CopyMsgs(k, w) PROVE UNCHANGED audit
    BY <2>8 DEF CopyMsgs, CopyRead, CopyReadFails, CopyWrite, CopyWriteFails, Copier
  <2>9. ASSUME NEW c \in Conns, RemoteGone(c) PROVE UNCHANGED audit
    BY <2>9 DEF RemoteGone
  <2>10. UNCHANGED vars => UNCHANGED audit  BY DEF vars, audit
  <2> QED
    BY <2>1, <2>2, <2>3, <2>4, <2>5, <2>6, <2>7, <2>8, <2>9, <2>10 DEF Next
<1>3. [Next]_vars => [Audit!Next]_(Audit!vars)  BY <1>2
<1> QED  BY <1>1, <1>3, PTL DEF Spec, Audit!Spec
==============================================================================
