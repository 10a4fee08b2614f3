--------------------------------- MODULE Hub ---------------------------------
(***************************************************************************)
(* cmd/netso-hub: agents register, clients are brokered onto them, and the *)
(* hub relays between the two websockets until one side ends.              *)
(*                                                                         *)
(* Every HTTP request runs in a goroutine of its own.  A goroutine's steps *)
(* are split where it leaves a mutex or may block, so any two of them      *)
(* interleave there.  The far ends of the websockets and the network are   *)
(* the environment: an end may go away at any moment, without notice.      *)
(***************************************************************************)
EXTENDS Integers, Sequences, FiniteSets

CONSTANTS Networks, Names, Keys,
          AgentConns,   \* websockets accepted on /agent
          ClientConns,  \* websockets accepted on /connect, one per request
          MaxEntries,   \* audit.NewLog(100) in main
          Nil

ASSUME ConnAssumption ==
  /\ AgentConns \cap ClientConns = {}
  /\ Nil \notin AgentConns \cup ClientConns
ASSUME ClientsAssumption == IsFiniteSet(ClientConns)
ASSUME MaxEntriesAssumption == MaxEntries \in Int
ASSUME NilAssumption ==
  Nil \notin Networks \cup Names
    \cup [peer : [network : Networks, name : Names, pubkey : Keys], conn : AgentConns]

VARIABLES
  dir,       \* h.reg, through the contract of Directory
  entries, started, ended, active,   \* h.audit; a session's handle is its client
  conn,      \* the hub's end of a websocket: "none", "open" or "closed"
  remote,    \* does the far end still send (it is up, or bytes are buffered)?
  reg,       \* handleAgent's goroutine, per agent connection
  ses,       \* handleConnect's goroutine, per client connection
  copy       \* the two copyMsgs goroutines of a relay

Dir == INSTANCE Directory WITH Conns <- AgentConns
Audit == INSTANCE AuditLog
           WITH Sessions <- ClientConns, MaxTime <- 1, clock <- 1

audit == <<entries, started, ended, active>>
vars == <<dir, entries, started, ended, active, conn, remote, reg, ses, copy>>

Conns == AgentConns \cup ClientConns
Ways == {"toClient", "toAgent"}

\* A goroutine that has not begun: its locals are unset.
NoAgent == [pc |-> "none", peer |-> Nil, prev |-> Nil]
NoSession == [pc |-> "none", network |-> Nil, name |-> Nil, agent |-> Nil]

Init ==
  /\ Dir!Init
  /\ Audit!Init
  /\ conn = [c \in Conns |-> "none"]
  /\ remote = [c \in Conns |-> FALSE]
  /\ reg = [c \in AgentConns |-> NoAgent]
  /\ ses = [k \in ClientConns |-> NoSession]
  /\ copy = [k \in ClientConns |-> [w \in Ways |-> "none"]]

Accept(c) ==
  /\ conn[c] = "none"
  /\ conn' = [conn EXCEPT ![c] = "open"]
  /\ remote' = [remote EXCEPT ![c] = TRUE]

Close(c) == conn' = [conn EXCEPT ![c] = "closed"]

------------------------------------------------------------------------------
(* handleAgent: upgrade, add to the registry, close what was replaced.     *)

UpgradeAgent(c, p) ==
  /\ Accept(c)
  /\ reg' = [reg EXCEPT ![c] = [pc |-> "upgraded", peer |-> p, prev |-> Nil]]
  /\ UNCHANGED <<dir, audit, ses, copy>>

\* Mutant: the replaced connection is forgotten.
AddForgetsPrev(c) ==
  /\ reg[c].pc = "upgraded"
  /\ Dir!Add(reg[c].peer, c)
  /\ reg' = [reg EXCEPT ![c].pc = "returned"]
  /\ UNCHANGED <<audit, conn, remote, ses, copy>>
AddAgent(c) ==
  /\ reg[c].pc = "upgraded"
  /\ Dir!Add(reg[c].peer, c)
  /\ LET prev == Dir!Prev(reg[c].peer)
     IN  reg' = [reg EXCEPT ![c].prev = prev,
                            ![c].pc = IF prev = Nil THEN "returned" ELSE "closing"]
  /\ UNCHANGED <<audit, conn, remote, ses, copy>>

\* Mutant: the new connection is closed instead of the one it replaced.
CloseNewer(c) ==
  /\ reg[c].pc = "closing"
  /\ Close(c)
  /\ reg' = [reg EXCEPT ![c].prev = Nil, ![c].pc = "returned"]
  /\ UNCHANGED <<dir, audit, remote, ses, copy>>
ClosePrev(c) ==
  /\ reg[c].pc = "closing"
  /\ Close(reg[c].prev)
  /\ reg' = [reg EXCEPT ![c].prev = Nil, ![c].pc = "returned"]
  /\ UNCHANGED <<dir, audit, remote, ses, copy>>

------------------------------------------------------------------------------
(* handleConnect: upgrade, take the peer or refuse, record, relay, record. *)

UpgradeClient(k, n, x) ==
  /\ Accept(k)
  /\ ses' = [ses EXCEPT ![k] =
               [pc |-> "upgraded", network |-> n, name |-> x, agent |-> Nil]]
  /\ UNCHANGED <<dir, audit, reg, copy>>

\* Mutant: the peer is looked up on whatever network has one of that name.
WantedAnywhere(k) ==
  LET on == {n \in Networks : dir[n][ses[k].name] # Nil}
  IN  IF on = {} THEN Nil ELSE dir[CHOOSE n \in on : TRUE][ses[k].name]
Wanted(k) == dir[ses[k].network][ses[k].name]

\* Mutants: the whole record is kept where its connection belongs; the
\* registration is read and left in place.
TakeRecord(k) ==
  /\ ses[k].pc = "upgraded"
  /\ Wanted(k) # Nil
  /\ Dir!Take(ses[k].network, ses[k].name)
  /\ ses' = [ses EXCEPT ![k].agent = Wanted(k), ![k].pc = "taken"]
  /\ UNCHANGED <<audit, conn, remote, reg, copy>>
PeekPeer(k) ==
  /\ ses[k].pc = "upgraded"
  /\ Wanted(k) # Nil
  /\ ses' = [ses EXCEPT ![k].agent = Wanted(k).conn, ![k].pc = "taken"]
  /\ UNCHANGED <<dir, audit, conn, remote, reg, copy>>
TakePeer(k) ==
  /\ ses[k].pc = "upgraded"
  /\ Wanted(k) # Nil
  /\ Dir!Take(ses[k].network, ses[k].name)
  /\ ses' = [ses EXCEPT ![k].agent = Wanted(k).conn, ![k].pc = "taken"]
  /\ UNCHANGED <<audit, conn, remote, reg, copy>>

Refuse(k) ==
  /\ ses[k].pc = "upgraded"
  /\ Wanted(k) = Nil
  /\ Close(k)
  /\ ses' = [ses EXCEPT ![k].pc = "returned"]
  /\ UNCHANGED <<dir, audit, remote, reg, copy>>

StartRelay(k) ==
  /\ ses[k].pc = "taken"
  /\ Audit!Start(k)
  /\ ses' = [ses EXCEPT ![k].pc = "relaying"]
  /\ copy' = [copy EXCEPT ![k] = [w \in Ways |-> "read"]]
  /\ UNCHANGED <<dir, conn, remote, reg>>

------------------------------------------------------------------------------
(* relay and copyMsgs.  A copier that ends leaves its token in the         *)
(* buffered channel done; the relay takes the first, closes both ends,     *)
(* and takes the second.                                                   *)

Src(k, w) == IF w = "toClient" THEN ses[k].agent ELSE k
Dst(k, w) == IF w = "toClient" THEN k ELSE ses[k].agent

Copier(k, w, from, to) ==
  /\ copy[k][w] = from
  /\ copy' = [copy EXCEPT ![k][w] = to]
  /\ UNCHANGED <<dir, audit, conn, remote, reg, ses>>

CopyRead(k, w) ==
  /\ Copier(k, w, "read", "write")
  /\ conn[Src(k, w)] = "open"
  /\ remote[Src(k, w)]

CopyReadFails(k, w) ==
  /\ Copier(k, w, "read", "done")
  /\ conn[Src(k, w)] = "closed" \/ ~remote[Src(k, w)]

CopyWrite(k, w) ==
  /\ Copier(k, w, "write", "read")
  /\ conn[Dst(k, w)] = "open"

\* A write may be refused at any time: the far end may be gone before the
\* bytes it sent have been read.
CopyWriteFails(k, w) == Copier(k, w, "write", "done")

\* Mutants: the relay waits for both tokens before it closes; for none.
WaitForBoth(k) ==
  /\ ses[k].pc = "relaying"
  /\ \A w \in Ways : copy[k][w] = "done"
  /\ Close(k)
  /\ ses' = [ses EXCEPT ![k].pc = "closing"]
  /\ UNCHANGED <<dir, audit, remote, reg, copy>>
WaitForNone(k) ==
  /\ ses[k].pc = "relaying"
  /\ Close(k)
  /\ ses' = [ses EXCEPT ![k].pc = "closing"]
  /\ UNCHANGED <<dir, audit, remote, reg, copy>>
FirstDone(k) ==
  /\ ses[k].pc = "relaying"
  /\ \E w \in Ways : copy[k][w] = "done"
  /\ Close(k)
  /\ ses' = [ses EXCEPT ![k].pc = "closing"]
  /\ UNCHANGED <<dir, audit, remote, reg, copy>>

\* Mutant: only the client's end is closed.
LeaveAgentOpen(k) ==
  /\ ses[k].pc = "closing"
  /\ ses' = [ses EXCEPT ![k].pc = "draining"]
  /\ UNCHANGED <<dir, audit, conn, remote, reg, copy>>
CloseAgent(k) ==
  /\ ses[k].pc = "closing"
  /\ Close(ses[k].agent)
  /\ ses' = [ses EXCEPT ![k].pc = "draining"]
  /\ UNCHANGED <<dir, audit, remote, reg, copy>>

\* relay returns after the second token, and handleConnect ends the session.
\* Mutant: the end of the session is not recorded.
EndUnrecorded(k) ==
  /\ ses[k].pc = "draining"
  /\ \A w \in Ways : copy[k][w] = "done"
  /\ ses' = [ses EXCEPT ![k].pc = "returned", ![k].agent = Nil]
  /\ UNCHANGED <<dir, audit, conn, remote, reg, copy>>
EndRelay(k) ==
  /\ ses[k].pc = "draining"
  /\ \A w \in Ways : copy[k][w] = "done"
  /\ Audit!End(k)
  /\ ses' = [ses EXCEPT ![k].pc = "returned", ![k].agent = Nil]
  /\ UNCHANGED <<dir, conn, remote, reg, copy>>

------------------------------------------------------------------------------
(* The environment.                                                        *)

RemoteGone(c) ==
  /\ remote[c]
  /\ remote' = [remote EXCEPT ![c] = FALSE]
  /\ UNCHANGED <<dir, audit, conn, reg, ses, copy>>

\* The identity of a connection nothing refers to any more may be used again.
Unreferenced(c) ==
  /\ conn[c] = "closed" /\ ~remote[c]
  /\ reg[c].pc = "returned"
  /\ ~Dir!Listed(c)
  /\ \A d \in AgentConns : reg[d].prev # c
  /\ \A k \in ClientConns : ses[k].agent # c

Recycle(c) ==
  /\ Unreferenced(c)
  /\ conn' = [conn EXCEPT ![c] = "none"]
  /\ reg' = [reg EXCEPT ![c] = NoAgent]
  /\ UNCHANGED <<dir, audit, remote, ses, copy>>

HandleAgent(c) == AddAgent(c) \/ ClosePrev(c)
HandleConnect(k) ==
  TakePeer(k) \/ Refuse(k) \/ StartRelay(k) \/ FirstDone(k) \/ CloseAgent(k) \/ EndRelay(k)
CopyMsgs(k, w) ==
  CopyRead(k, w) \/ CopyReadFails(k, w) \/ CopyWrite(k, w) \/ CopyWriteFails(k, w)

Next ==
  \/ \E c \in AgentConns, p \in Dir!Peer : UpgradeAgent(c, p)
  \/ \E c \in AgentConns : HandleAgent(c) \/ Recycle(c)
  \/ \E k \in ClientConns, n \in Networks, x \in Names : UpgradeClient(k, n, x)
  \/ \E k \in ClientConns : HandleConnect(k)
  \/ \E k \in ClientConns, w \in Ways : CopyMsgs(k, w)
  \/ \E c \in Conns : RemoteGone(c)

\* A goroutine that can run eventually runs.  Nothing is assumed of the far
\* ends: no message need ever arrive, and a write may block for ever on a far
\* end that does not read, unless the hub itself has closed the connection.
\* A read does notice, by FIN or keepalive, that the far end is gone.
Fairness ==
  /\ \A c \in AgentConns : WF_vars(HandleAgent(c))
  /\ \A k \in ClientConns : WF_vars(HandleConnect(k))
  /\ \A k \in ClientConns, w \in Ways :
       /\ WF_vars(CopyReadFails(k, w))
       /\ WF_vars(CopyWriteFails(k, w) /\ conn[Dst(k, w)] = "closed")

Spec == Init /\ [][Next]_vars
FairSpec == Spec /\ Fairness

------------------------------------------------------------------------------
AgentState == {"none", "upgraded", "closing", "returned"}
SessionState ==
  {"none", "upgraded", "taken", "relaying", "closing", "draining", "returned"}

\* Types of the goroutines' places and of what they hold.
TypeOK ==
  /\ Dir!TypeOK
  /\ Audit!TypeOK
  /\ conn \in [Conns -> {"none", "open", "closed"}]
  /\ remote \in [Conns -> BOOLEAN]
  /\ reg \in [AgentConns -> [pc : AgentState, peer : Dir!Peer \cup {Nil},
                             prev : AgentConns \cup {Nil}]]
  /\ ses \in [ClientConns -> [pc : SessionState, network : Networks \cup {Nil},
                              name : Names \cup {Nil}, agent : AgentConns \cup {Nil}]]
  /\ copy \in [ClientConns -> [Ways -> {"none", "read", "write", "done"}]]

\* Who may use an agent's connection: the goroutine that upgraded it and has
\* not yet added it, the registry, the goroutine that replaced it, a session.
Upgrading(c) == reg[c].pc = "upgraded"
Replacers(c) == {d \in AgentConns : reg[d].prev = c}
Users(c) == {k \in ClientConns : ses[k].agent = c}
Slots(c) == {s \in Networks \X Names :
               dir[s[1]][s[2]] # Nil /\ dir[s[1]][s[2]].conn = c}

\* An agent's connection is never leaked: while the hub has not closed it,
\* something still refers to it and will hand it out, close it or use it.
NoLeak ==
  \A c \in AgentConns : conn[c] = "open" =>
    Upgrading(c) \/ Dir!Listed(c) \/ Replacers(c) # {} \/ Users(c) # {}

\* Nor is it shared, however registrations, replacements and clients race:
\* a session has its agent to itself, and a listed agent is in no session, is
\* about to be closed by nobody, and is listed once.
OneOwner ==
  \A c \in AgentConns :
    /\ \A k, l \in Users(c) : k = l
    /\ \A d, e \in Replacers(c) : d = e
    /\ \A s, t \in Slots(c) : s = t
    /\ Users(c) # {} => Replacers(c) = {} /\ ~Dir!Listed(c)
    /\ Dir!Listed(c) => Replacers(c) = {}
    /\ Upgrading(c) => Users(c) = {} /\ Replacers(c) = {} /\ ~Dir!Listed(c)

\* Discovery never offers, and no client is ever given, a connection the hub
\* itself has closed: only the far end can make a brokered session fail.
OfferedIsOpen ==
  \A c \in AgentConns :
    /\ Dir!Listed(c) => conn[c] = "open"
    /\ \A k \in Users(c) : conn[c] = "open" \/ ses[k].pc = "draining"

\* A client is only ever relayed to an agent that registered under the
\* network and the name the client asked for, and /peers shows that agent's
\* own key under them.
Routed ==
  /\ \A k \in ClientConns : ses[k].agent # Nil =>
       /\ reg[ses[k].agent].peer.network = ses[k].network
       /\ reg[ses[k].agent].peer.name = ses[k].name
  /\ \A n \in Networks, x \in Names : dir[n][x] # Nil =>
       /\ dir[n][x].peer = reg[dir[n][x].conn].peer
       /\ dir[n][x].peer.network = n /\ dir[n][x].peer.name = x

\* The audit log's live count is the number of relays the hub is running; a
\* session it shows as ended has both copiers gone and its client closed.
Live == {k \in ClientConns : ses[k].pc \in {"relaying", "closing", "draining"}}
AuditIsLive ==
  /\ active = Cardinality(Live)
  /\ \A k \in ClientConns : ended[k] # 0 =>
       conn[k] = "closed" /\ \A w \in Ways : copy[k][w] = "done"

\* The hub closes an agent's connection for two reasons only: a newer
\* connection was registered under the very same network and name, or a
\* session that uses it has seen one of its two directions end.
ClosedForReason ==
  \A c \in AgentConns : conn[c] = "open" /\ conn'[c] = "closed" =>
    \/ \E d \in Replacers(c) : /\ reg[d].peer.network = reg[c].peer.network
                               /\ reg[d].peer.name = reg[c].peer.name
    \/ \E k \in Users(c), w \in Ways : copy[k][w] = "done"
CloseHasReason == [][ClosedForReason]_vars

\* Relay shutdown never gets stuck: once one direction has ended, the whole
\* session ends, even if the far ends stay up, silent and not reading.
ShutdownEnds ==
  \A k \in ClientConns :
    (\E w \in Ways : copy[k][w] = "done") ~> ses[k].pc = "returned"

\* While the far ends read what they are sent, so that no write blocks for
\* ever, a session does not outlive either of its ends, idle though it be.
Draining == \A k \in ClientConns, w \in Ways : WF_vars(CopyWrite(k, w))
SessionEnds ==
  Draining =>
    \A k \in ClientConns, c \in AgentConns :
      (ses[k].agent = c /\ (~remote[k] \/ ~remote[c])) ~> ses[k].pc = "returned"
==============================================================================
