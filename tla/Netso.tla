-------------------------------- MODULE Netso --------------------------------
(***************************************************************************)
(* Agents and clients at the far ends of the hub: how a peer is reached.   *)
(* An agent dials, registers, waits, answers one client, and dials again.  *)
(* A client pins a key, connects, and runs the Noise IK handshake with     *)
(* whatever agent the hub brokered.  Agents, hub and network fail.         *)
(*                                                                         *)
(* The hub is Hub's, step by step; here its far ends are programs, and the *)
(* messages it copies are the two of the handshake.  What follows the      *)
(* handshake is left out: an established session may end at any time.      *)
(* Keys are ideal: an agent's key is the agent, a client's the client.     *)
(***************************************************************************)
EXTENDS Integers, Sequences, FiniteSets

CONSTANTS Networks, Names,
          Agents,       \* agent processes, and their static keys
          AgentConns,
          ClientConns,  \* runs of netso ssh, their keys and their websockets
          Lists,        \* lists of keys the authorized-clients file may hold
          PeerOf,       \* the network, name and key each agent registers
          MaxEntries,
          MaxFaults,    \* bound on crashes and unreadable files
          MaxEdits,     \* bound on changes of the authorized-clients file
          Nil

VARIABLES dir, entries, started, ended, active, conn, remote, reg, ses, copy,
          hubUp,     \* is the hub running?
          up, down, held,
          agent,     \* the loop of main and serve, per agent
          client,    \* cmdSSH, per run
          enrolled,  \* the keys in the authorized-clients file
          faults, edits

\* A program still has its end of the websocket.
Attached(c) ==
  \/ \E a \in Agents : agent[a].conn = c
  \/ c \in ClientConns /\ client[c].pc \in {"connected", "waiting", "session"}

H == INSTANCE Hub WITH Keys <- Agents
R == INSTANCE Relay WITH Keys <- Agents,
                         attached <- {c \in AgentConns \cup ClientConns : Attached(c)}

ASSUME PeerOfAssumption ==
  \A a \in Agents : PeerOf[a] \in H!Dir!Peer /\ PeerOf[a].pubkey = a
ASSUME ListsAssumption == Lists # {}
ASSUME BoundsAssumption == MaxFaults \in Nat /\ MaxEdits \in Nat
ASSUME ConnAssumption ==
  /\ AgentConns \cap ClientConns = {}
  /\ Nil \notin AgentConns \cup ClientConns
ASSUME ClientsAssumption == IsFiniteSet(ClientConns)
ASSUME MaxEntriesAssumption == MaxEntries \in Int
ASSUME NilAssumption ==
  /\ Nil \notin Networks \cup Names \cup H!Dir!Record
  /\ Nil \notin Agents \cup [kind : {"hello", "answer"}, from : ClientConns \cup Agents,
                              to : ClientConns \cup Agents]

hub == <<dir, entries, started, ended, active, conn, remote, reg, ses, copy>>
wires == <<up, down, held>>
world == <<hubUp, enrolled, faults, edits>>
vars == <<hub, wires, agent, client, world>>

Hello(k, key) == [kind |-> "hello", from |-> k, to |-> key]
Answer(a, k) == [kind |-> "answer", from |-> a, to |-> k]

Asleep == [pc |-> "sleeping", conn |-> Nil, allowed |-> {}, peer |-> Nil]

\* The programs start; with bounds of their own on what goes wrong and is edited.
Start(clients, allFaults, allEdits) ==
  /\ H!Init
  /\ hubUp = TRUE
  /\ R!Empty
  /\ agent = [a \in Agents |-> [Asleep EXCEPT !.pc = "dialing"]]
  /\ client = [k \in ClientConns |-> [pc |-> IF k \in clients THEN "idle" ELSE "exited",
                                      at |-> Nil, pin |-> Nil]]
  /\ enrolled \in Lists
  /\ faults = MaxFaults - allFaults
  /\ edits = MaxEdits - allEdits

Init == Start(ClientConns, MaxFaults, MaxEdits)

\* A step of the hub or of the network, which no program sees at once.
Outside == UNCHANGED <<agent, client, world>>
HandleAgent(c) == R!HandleAgent(c) /\ Outside
HandleConnect(k) == R!HandleConnect(k) /\ Outside
Recycle(c) == R!Recycle(c) /\ Outside
CopyMsgs(k, w) == R!CopyMsgs(k, w) /\ Outside
RemoteGone(c) == (R!RemoteGone(c) \/ R!RemoteReset(c)) /\ Outside

------------------------------------------------------------------------------
(* netso-agent.                                                            *)

Dial(a) ==
  /\ agent[a].pc = "dialing"
  /\ hubUp
  /\ \E c \in AgentConns :
       /\ ~Attached(c)
       /\ H!UpgradeAgent(c, PeerOf[a])
       /\ R!Fresh(c)
       /\ agent' = [agent EXCEPT ![a].pc = "dialed", ![a].conn = c]
  /\ UNCHANGED <<held, client, world>>

DialFails(a) ==
  /\ agent[a].pc = "dialing"
  /\ ~hubUp
  /\ agent' = [agent EXCEPT ![a].pc = "sleeping"]
  /\ UNCHANGED <<hub, wires, client, world>>

\* allowlist() is called once the dial is done, before the wait for a client.
ReadAllowlist(a) ==
  /\ agent[a].pc = "dialed"
  /\ agent' = [agent EXCEPT ![a].pc = "waiting", ![a].allowed = enrolled]
  /\ UNCHANGED <<hub, wires, client, world>>

\* A file that cannot be read counts as an empty list.
AllowlistUnreadable(a) ==
  /\ agent[a].pc = "dialed"
  /\ faults < MaxFaults /\ faults' = faults + 1
  /\ agent' = [agent EXCEPT ![a].pc = "waiting", ![a].allowed = {}]
  /\ UNCHANGED <<hub, wires, client, hubUp, enrolled, edits>>

\* serve returns: the connection is closed, and main sleeps before it dials.
Return(a) ==
  /\ agent' = [agent EXCEPT ![a] = Asleep]
  /\ R!Drop(agent[a].conn)
  /\ UNCHANGED <<hub, up, held, client, world>>

\* The responder's half of Handshake.  A hello is genuine if it was made for
\* this agent's key.  Mutant: for whatever key.
GenuineForAny(a, m) == m.kind = "hello"
Genuine(a, m) == m.kind = "hello" /\ m.to = a

\* An empty list admits anybody.
Authorized(a, k) == agent[a].allowed = {} \/ k \in agent[a].allowed

Received(a) ==
  /\ agent[a].pc = "waiting"
  /\ down[agent[a].conn] # <<>>
Msg(a) == Head(down[agent[a].conn])

Accept(a) ==
  LET c == agent[a].conn
      k == Msg(a).from
  IN  /\ Received(a) /\ Genuine(a, Msg(a)) /\ Authorized(a, k)
      /\ agent' = [agent EXCEPT ![a].pc = "serving", ![a].peer = k]
      /\ R!Read(c)
      /\ R!Write(c, Answer(a, k))
      /\ UNCHANGED <<hub, held, client, world>>

\* Mutant: the agent waits on, and neither answers nor closes.
RefuseSilently(a) ==
  /\ Received(a) /\ (~Genuine(a, Msg(a)) \/ ~Authorized(a, Msg(a).from))
  /\ R!Read(agent[a].conn)
  /\ UNCHANGED <<hub, up, held, agent, client, world>>
Refuse(a) ==
  /\ Received(a) /\ (~Genuine(a, Msg(a)) \/ ~Authorized(a, Msg(a).from))
  /\ Return(a)

\* The read of the hello, or the write of the answer, fails.
\* Mutant: the agent serves nobody any more, as if -once were set.
Stop(a) ==
  /\ agent[a].pc = "waiting"
  /\ conn[agent[a].conn] # "open"
  /\ agent' = [agent EXCEPT ![a] = [Asleep EXCEPT !.pc = "stopped"]]
  /\ R!Drop(agent[a].conn)
  /\ UNCHANGED <<hub, up, held, client, world>>
ReadFails(a) ==
  /\ agent[a].pc = "waiting"
  /\ conn[agent[a].conn] # "open"
  /\ Return(a)

\* The shell exits or does not start, or an error ends the session.
ServeEnds(a) == agent[a].pc = "serving" /\ Return(a)

Wake(a) ==
  /\ agent[a].pc = "sleeping"
  /\ agent' = [agent EXCEPT ![a].pc = "dialing"]
  /\ UNCHANGED <<hub, wires, client, world>>

------------------------------------------------------------------------------
(* netso ssh.                                                              *)

\* The key to pin comes from discovery, or from -authorized-agent.  A run that
\* does not find its peer ends here.
Pin(k, n, x, key) ==
  /\ client[k].pc = "idle"
  /\ client' = [client EXCEPT ![k] = [pc |-> "pinned", at |-> <<n, x>>, pin |-> key]]
  /\ UNCHANGED <<hub, wires, agent, world>>

Discover(k, n, x) == hubUp /\ dir[n][x] # Nil /\ Pin(k, n, x, dir[n][x].peer.pubkey)

Connect(k) ==
  /\ client[k].pc = "pinned"
  /\ hubUp
  /\ H!UpgradeClient(k, client[k].at[1], client[k].at[2])
  /\ R!Fresh(k)
  /\ client' = [client EXCEPT ![k].pc = "connected"]
  /\ UNCHANGED <<held, agent, world>>

\* log.Fatal, or the end of the session: the process exits, its socket closes.
Exit(k) ==
  /\ client' = [client EXCEPT ![k].pc = "exited"]
  /\ R!Drop(k)
  /\ UNCHANGED <<hub, up, held, agent, world>>

ConnectFails(k) == client[k].pc = "pinned" /\ ~hubUp /\ Exit(k)

\* Mutant: the client does not go on to wait for the answer.
HelloAgain(k) ==
  /\ client[k].pc = "connected"
  /\ R!Write(k, Hello(k, client[k].pin))
  /\ UNCHANGED <<hub, down, held, agent, client, world>>
SendHello(k) ==
  /\ client[k].pc = "connected"
  /\ client' = [client EXCEPT ![k].pc = "waiting"]
  /\ R!Write(k, Hello(k, client[k].pin))
  /\ UNCHANGED <<hub, down, held, agent, world>>

\* An answer is valid if it is the pinned agent's, to this client's hello.
Valid(k, m) == m = Answer(client[k].pin, k)

ReadAnswer(k) ==
  /\ client[k].pc = "waiting"
  /\ down[k] # <<>>
  /\ Valid(k, Head(down[k]))
  /\ client' = [client EXCEPT ![k].pc = "session"]
  /\ R!Read(k)
  /\ UNCHANGED <<hub, up, held, agent, world>>

\* The connection failed, or what came is no answer to this hello.
HandshakeFails(k) ==
  /\ client[k].pc \in {"connected", "waiting"}
  /\ \/ conn[k] # "open"
     \/ client[k].pc = "waiting" /\ down[k] # <<>> /\ ~Valid(k, Head(down[k]))
  /\ Exit(k)

SessionFails(k) == client[k].pc = "session" /\ conn[k] # "open" /\ Exit(k)

\* The user has done, or is tired of waiting.
Leave(k) == client[k].pc \in {"pinned", "connected", "waiting", "session"} /\ Exit(k)

------------------------------------------------------------------------------
(* What goes wrong outside, and who edits the authorized-clients file.     *)

AgentCrash(a) ==
  /\ faults < MaxFaults /\ faults' = faults + 1
  /\ agent[a].conn # Nil
  /\ agent' = [agent EXCEPT ![a] = [Asleep EXCEPT !.pc = "dialing"]]
  /\ R!Drop(agent[a].conn)
  /\ UNCHANGED <<hub, up, held, client, hubUp, enrolled, edits>>

\* All of the hub is in memory.
HubCrash ==
  /\ hubUp
  /\ faults < MaxFaults /\ faults' = faults + 1
  /\ hubUp' = FALSE
  /\ dir' = [n \in Networks |-> [x \in Names |-> Nil]]
  /\ entries' = <<>> /\ active' = 0
  /\ started' = [k \in ClientConns |-> 0]
  /\ ended' = [k \in ClientConns |-> 0]
  /\ conn' = [c \in H!Conns |-> "none"]
  /\ remote' = [c \in H!Conns |-> FALSE]
  /\ reg' = [c \in AgentConns |-> H!NoAgent]
  /\ ses' = [k \in ClientConns |-> H!NoSession]
  /\ copy' = [k \in ClientConns |-> [w \in H!Ways |-> "none"]]
  /\ up' = [c \in H!Conns |-> <<>>]
  /\ held' = [k \in ClientConns |-> [w \in H!Ways |-> Nil]]
  /\ UNCHANGED <<down, agent, client, enrolled, edits>>

HubStart ==
  /\ ~hubUp
  /\ hubUp' = TRUE
  /\ UNCHANGED <<hub, wires, agent, client, enrolled, faults, edits>>

EditFile ==
  /\ edits < MaxEdits /\ edits' = edits + 1
  /\ enrolled' \in Lists
  /\ UNCHANGED <<hub, wires, agent, client, hubUp, faults>>

Serve(a) ==
  \/ Dial(a) \/ DialFails(a) \/ ReadAllowlist(a) \/ Accept(a)
  \/ Refuse(a) \/ ReadFails(a) \/ Wake(a)
CmdSSH(k) ==
  \/ Connect(k) \/ ConnectFails(k) \/ SendHello(k) \/ ReadAnswer(k) \/ HandshakeFails(k) \/ SessionFails(k)

Next ==
  \/ \E c \in AgentConns : HandleAgent(c) \/ Recycle(c)
  \/ \E k \in ClientConns : HandleConnect(k) \/ CmdSSH(k) \/ Leave(k)
  \/ \E k \in ClientConns, n \in Networks, x \in Names :
       Discover(k, n, x) \/ \E key \in Agents : Pin(k, n, x, key)
  \/ \E k \in ClientConns, w \in H!Ways : CopyMsgs(k, w)
  \/ \E c \in H!Conns : RemoteGone(c)
  \/ \E a \in Agents : Serve(a) \/ AllowlistUnreadable(a) \/ ServeEnds(a) \/ AgentCrash(a)
  \/ HubCrash \/ HubStart \/ EditFile

\* Programs and hub goroutines that can run do; a connection's end is noticed
\* (FIN, keepalive); a hub that is down is started again.  Nothing makes a
\* session end, a client leave, anything fail, or anybody edit the file.
Fairness ==
  /\ \A c \in AgentConns : WF_vars(HandleAgent(c)) /\ WF_vars(Recycle(c))
  /\ \A k \in ClientConns : WF_vars(HandleConnect(k)) /\ WF_vars(CmdSSH(k))
  /\ \A k \in ClientConns, w \in H!Ways : WF_vars(CopyMsgs(k, w))
  /\ \A c \in H!Conns : WF_vars(RemoteGone(c))
  /\ \A a \in Agents : /\ WF_vars(Serve(a))
                       /\ WF_vars(ServeEnds(a) /\ conn[agent[a].conn] # "open")
  /\ WF_vars(HubStart)

Spec == Init /\ [][Next]_vars
FairSpec == Spec /\ Fairness

------------------------------------------------------------------------------
AgentState == {"dialing", "dialed", "waiting", "serving", "sleeping"}
ClientState == {"idle", "pinned", "connected", "waiting", "session", "exited"}
Message ==
  [kind : {"hello"}, from : ClientConns, to : Agents]
    \cup [kind : {"answer"}, from : Agents, to : ClientConns]
Wire == {<<>>} \cup {<<m>> : m \in Message}

\* Types; the handshake puts at most one message on each hop.
TypeOK ==
  /\ H!TypeOK
  /\ hubUp \in BOOLEAN
  /\ up \in [H!Conns -> Wire]
  /\ down \in [H!Conns -> Wire]
  /\ held \in [ClientConns -> [H!Ways -> Message \cup {Nil}]]
  /\ agent \in [Agents -> [pc : AgentState, conn : AgentConns \cup {Nil},
                           allowed : Lists \cup {{}}, peer : ClientConns \cup {Nil}]]
  /\ client \in [ClientConns -> [pc : ClientState, at : (Networks \X Names) \cup {Nil},
                                 pin : Agents \cup {Nil}]]
  /\ enrolled \in Lists
  /\ faults \in 0 .. MaxFaults /\ edits \in 0 .. MaxEdits

\* The hub relays between this client and this agent.
Joined(k, a) == agent[a].conn # Nil /\ ses[k].agent = agent[a].conn

\* The two ends agree: a client in a session has the agent it pinned at its
\* other end, and that agent serves it and nobody else; an agent that serves a
\* client is the one that client pinned, and the only one that serves it.
\* Names that changed hands between discovery and connection, stale entries,
\* crashes and reused connections do not change this.
Agreement ==
  \A k \in ClientConns, a \in Agents :
    /\ Joined(k, a) /\ client[k].pc = "session" =>
         agent[a].pc = "serving" /\ agent[a].peer = k /\ client[k].pin = a
    /\ agent[a].pc = "serving" /\ agent[a].peer = k =>
         /\ client[k].pin = a
         /\ client[k].pc \in {"waiting", "session", "exited"}
         /\ \A l \in ClientConns : Joined(l, a) => l = k
         /\ \A b \in Agents : agent[b].pc = "serving" /\ agent[b].peer = k => a = b

\* An attempt to connect ends in a session or in an error, whatever the state
\* of the entry it met and of the agent behind it.
AttemptEnds ==
  \A k \in ClientConns :
    client[k].pc \in {"pinned", "connected", "waiting"} ~>
      client[k].pc \in {"session", "exited"}

\* A client that is gone, however it went, does not keep its agent.
AgentFreed ==
  \A k \in ClientConns, a \in Agents :
    (agent[a].peer = k /\ client[k].pc = "exited") ~> agent[a].peer # k

\* The network heals: after the last fault and the last client that leaves,
\* every agent is and stays registered on the connection it listens on, or in
\* a session, though an older dial may have replaced a newer on the way.
Reachable(a) ==
  /\ agent[a].conn # Nil
  /\ \/ H!Dir!Listed(agent[a].conn)
     \/ \E k \in ClientConns : ses[k].agent = agent[a].conn
Heals == <>[](\A a \in Agents : Reachable(a))

\* The authorized-clients file is re-read per session, so that enrolling a
\* client takes effect: no agent turns away a client that is in the file.  It
\* does not hold: the file is read before the wait for the client.
EnrolmentTakesEffect ==
  [][\A a \in Agents : Refuse(a) => Msg(a).from \notin enrolled \/ ~Genuine(a, Msg(a))]_vars
==============================================================================
