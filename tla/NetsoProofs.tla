----------------------------- MODULE NetsoProofs -----------------------------
(***************************************************************************)
(* Agreement of the two ends of a session, for any agents, clients,        *)
(* connections, lists, faults and edits.                                   *)
(*                                                                         *)
(* What an end may conclude depends on where the other's message has been. *)
(* The invariant follows each handshake's one message from place to place: *)
(* an agent's connection that a hello has reached was given to its client, *)
(* and to no other until it is dialed anew; an answer is on its way only   *)
(* between two ends that already agree.  Of the hub it uses what HubProofs *)
(* proves: every step here is a step of the hub, none of it, or its crash. *)
(***************************************************************************)
EXTENDS Netso, TLAPS

------------------------------------------------------------------------------
(* The hub.                                                                *)

HP == INSTANCE HubProofs WITH Keys <- Agents

\* What is proved of the hub holds of this one.
LEMMA HubAssumed ==
  /\ AgentConns \cap ClientConns = {} /\ Nil \notin AgentConns \cup ClientConns
  /\ IsFiniteSet(ClientConns) /\ MaxEntries \in Int
  /\ Nil \notin Networks \cup Names
       \cup [peer : [network : Networks, name : Names, pubkey : Agents], conn : AgentConns]
BY ConnAssumption, ClientsAssumption, MaxEntriesAssumption, NilAssumption
   DEF H!Dir!Record, H!Dir!Peer

LEMMA HubInit == HP!Init => HP!IInv
BY HubAssumed, HP!InitInv DEF IsFiniteSet, HP!IsFiniteSet

LEMMA HubInitLater == HP!Init' => HP!IInv'
BY HubInit, PTL

LEMMA HubNext == HP!IInv /\ [HP!Next]_(HP!vars) => HP!IInv'
BY HubAssumed, HP!NextInv DEF IsFiniteSet, HP!IsFiniteSet

LEMMA AgentHandler ==
  ASSUME NEW c \in AgentConns, R!HandleAgent(c) \/ R!Recycle(c)
  PROVE  HP!HandleAgent(c) \/ HP!Recycle(c)
<1>1. CASE R!HandleAgent(c)
  BY <1>1 DEF R!HandleAgent, R!H!HandleAgent, R!H!AddAgent, R!H!ClosePrev, R!H!Close, R!H!audit,
     R!H!Dir!Add, R!H!Dir!Prev,
     HP!HandleAgent, HP!AddAgent, HP!ClosePrev, HP!Close, HP!audit, HP!Dir!Add, HP!Dir!Prev
<1>2. CASE R!Recycle(c)
  BY <1>2 DEF R!Recycle, R!H!Recycle, R!H!Unreferenced, R!H!NoAgent, R!H!audit, R!H!Dir!Listed,
     HP!Recycle, HP!Unreferenced, HP!NoAgent, HP!audit, HP!Dir!Listed
<1> QED  BY <1>1, <1>2

LEMMA ClientHandler ==
  ASSUME NEW k \in ClientConns, R!HandleConnect(k)
  PROVE  HP!HandleConnect(k)
BY DEF R!HandleConnect, R!H!HandleConnect, R!H!TakePeer, R!H!Refuse, R!H!StartRelay, R!H!FirstDone,
   R!H!CloseAgent, R!H!EndRelay, R!H!Close, R!H!Wanted, R!H!audit, R!H!Ways, R!H!Dir!Take,
   R!H!Audit!Start, R!H!Audit!End, R!H!Audit!Record, R!H!Audit!Cap, R!H!Audit!EndsNow, R!H!Audit!IsOpen,
   HP!HandleConnect, HP!TakePeer, HP!Refuse, HP!StartRelay, HP!FirstDone,
   HP!CloseAgent, HP!EndRelay, HP!Close, HP!Wanted, HP!audit, HP!Ways, HP!Dir!Take,
   HP!Audit!Start, HP!Audit!End, HP!Audit!Record, HP!Audit!Cap, HP!Audit!EndsNow, HP!Audit!IsOpen

LEMMA Copiers ==
  ASSUME NEW k \in ClientConns, NEW w \in H!Ways, R!CopyMsgs(k, w)
  PROVE  w \in HP!Ways /\ HP!CopyMsgs(k, w)
BY DEF R!CopyMsgs, R!CopyRead, R!CopyReadFails, R!CopyWrite, R!CopyWriteFails,
   R!H!CopyRead, R!H!CopyReadFails, R!H!CopyWrite, R!H!CopyWriteFails, R!H!Copier, R!H!Src, R!H!Dst, R!H!audit,
   HP!CopyMsgs, HP!CopyRead, HP!CopyReadFails, HP!CopyWrite, HP!CopyWriteFails, HP!Copier, HP!Src, HP!Dst,
   HP!audit, H!Ways, HP!Ways

LEMMA FarEnds ==
  ASSUME NEW c \in H!Conns, RemoteGone(c)
  PROVE  c \in HP!Conns /\ HP!RemoteGone(c)
BY DEF RemoteGone, R!RemoteGone, R!RemoteReset, R!H!RemoteGone, R!H!audit, HP!RemoteGone, HP!audit,
   H!Conns, HP!Conns

LEMMA AgentUpgrade ==
  ASSUME NEW a \in Agents, NEW c \in AgentConns, H!UpgradeAgent(c, PeerOf[a])
  PROVE  PeerOf[a] \in HP!Dir!Peer /\ HP!UpgradeAgent(c, PeerOf[a])
BY PeerOfAssumption DEF H!UpgradeAgent, H!Accept, H!audit, H!Dir!Peer,
   HP!UpgradeAgent, HP!Accept, HP!audit, HP!Dir!Peer

LEMMA ClientUpgrade ==
  ASSUME NEW k \in ClientConns, NEW n, NEW x, H!UpgradeClient(k, n, x)
  PROVE  HP!UpgradeClient(k, n, x)
BY DEF H!UpgradeClient, H!Accept, H!audit, HP!UpgradeClient, HP!Accept, HP!audit

LEMMA CrashEmpties == HubCrash => HP!Init'
BY DEF HubCrash, H!Conns, H!Ways, H!NoAgent, H!NoSession, HP!Init, HP!Dir!Init, HP!Audit!Init,
   HP!Conns, HP!Ways, HP!NoAgent, HP!NoSession

\* What the hub's own proof says of it, in this module's words.
LEMMA HubTyped == HP!IInv => H!TypeOK
BY DEF HP!IInv, HP!TypeOK, HP!Dir!TypeOK, HP!Dir!Record, HP!Dir!Peer, HP!Audit!TypeOK, HP!Audit!Cap,
   HP!Conns, HP!Ways, HP!AgentState, HP!SessionState,
   H!TypeOK, H!Dir!TypeOK, H!Dir!Record, H!Dir!Peer, H!Audit!TypeOK, H!Audit!Cap,
   H!Conns, H!Ways, H!AgentState, H!SessionState

------------------------------------------------------------------------------
(* The invariant.                                                          *)

\* What is the programs', the wires' and the world's of TypeOK.
WireTypes ==
  /\ up \in [H!Conns -> Wire] /\ down \in [H!Conns -> Wire]
  /\ held \in [ClientConns -> [H!Ways -> Message \cup {Nil}]]
AgentTypes ==
  agent \in [Agents -> [pc : AgentState, conn : AgentConns \cup {Nil},
                        allowed : Lists \cup {{}}, peer : ClientConns \cup {Nil}]]
ClientTypes ==
  client \in [ClientConns -> [pc : ClientState, at : (Networks \X Names) \cup {Nil},
                              pin : Agents \cup {Nil}]]
WorldTypes ==
  /\ hubUp \in BOOLEAN /\ enrolled \in Lists
  /\ faults \in 0 .. MaxFaults /\ edits \in 0 .. MaxEdits
Types == WireTypes /\ AgentTypes /\ ClientTypes /\ WorldTypes

\* A client that goes ahead knows where to ask and whom to expect there.
Placed == \A k \in ClientConns :
  /\ client[k].pc = "pinned" => client[k].at \in Networks \X Names
  /\ client[k].pc \in {"pinned", "connected"} => client[k].pin \in Agents

\* A copier that runs has a session; one that is to write has what to write.
Copying == \A k \in ClientConns, w \in H!Ways :
  /\ copy[k][w] \in {"read", "write"} => ses[k].agent # Nil
  /\ copy[k][w] = "write" => held[k][w] # Nil

\* The places a message passes, one after another, and what is at each.
Legs == {"up", "down"} \cup H!Ways
First(q) == IF q = <<>> THEN Nil ELSE q[1]
At(w, c) == IF w = "up" THEN First(up[c])
            ELSE IF w = "down" THEN First(down[c])
            ELSE IF c \in ClientConns THEN held[c][w] ELSE Nil

\* The client whose handshake a message belongs to.
Owner(m) == IF m.kind = "hello" THEN m.from ELSE m.to

\* Client k is past the choice of its pin; agent a serves it.
Sent(k) == client[k].pc \in {"waiting", "session", "exited"}
Serving(a, k) == agent[a].pc = "serving" /\ agent[a].peer = k

\* Connection c was given to client k, and is nobody else's until it is dialed
\* anew; client k is given no other.
Given(k, c) ==
  /\ ses[k].pc # "upgraded"
  /\ ses[k].agent \in {c, Nil}
  /\ \A l \in ClientConns : ses[l].agent = c => l = k
  /\ ~H!Dir!Listed(c) /\ reg[c].pc # "upgraded"

\* Whoever client k is joined to serves it.
Answered(k) ==
  /\ ses[k].pc # "upgraded"
  /\ \A b \in Agents : Joined(k, b) => Serving(b, k)

\* Message m may be at this place.
DueHello(w, c, k) ==
  \/ w \in {"up", "toAgent"} /\ c = k
  \/ w = "down" /\ c \in AgentConns /\ Given(k, c)
DueAnswer(w, c, k) ==
  \/ w \in {"toClient", "down"} /\ c = k /\ Answered(k)
  \/ /\ w = "up" /\ c \in AgentConns /\ Given(k, c)
     /\ \A b \in Agents : agent[b].conn = c => Serving(b, k)
Due(w, c, m) ==
  /\ Sent(Owner(m))
  /\ m.kind = "hello" => m.to = client[m.from].pin /\ DueHello(w, c, m.from)
  /\ m.kind = "answer" => m.from = client[m.to].pin /\ DueAnswer(w, c, m.to)
Letters == \A w \in Legs, c \in H!Conns : At(w, c) # Nil => Due(w, c, At(w, c))

\* A handshake has one message on its way at a time.
Single ==
  \A v, w \in Legs, c, d \in H!Conns :
    At(v, c) # Nil /\ At(w, d) # Nil /\ Owner(At(v, c)) = Owner(At(w, d)) => v = w /\ c = d

\* What the two programs may take for granted.
Served == \A a \in Agents, k \in ClientConns : Serving(a, k) =>
            Sent(k) /\ client[k].pin = a /\ Given(k, agent[a].conn)
InSession == \A k \in ClientConns : client[k].pc = "session" => Answered(k)
Dialed ==
  /\ \A a \in Agents : agent[a].conn # Nil <=> agent[a].pc \in {"dialed", "waiting", "serving"}
  /\ \A a, b \in Agents : agent[a].conn # Nil /\ agent[a].conn = agent[b].conn => a = b
Ends == Served /\ InSession /\ Dialed

Traffic == Letters /\ Single
IInv == HP!IInv /\ Types /\ Placed /\ Copying /\ Ends /\ Traffic

\* The two parts of what was to be shown.
LEMMA Conclusion == IInv => TypeOK /\ Agreement
<1> SUFFICES ASSUME IInv PROVE TypeOK /\ Agreement  OBVIOUS
<1>1. TypeOK
  BY HubTyped DEF IInv, Types, WireTypes, AgentTypes, ClientTypes, WorldTypes, TypeOK
<1>2. ASSUME NEW k \in ClientConns, NEW a \in Agents,
             Joined(k, a), client[k].pc = "session"
      PROVE  agent[a].pc = "serving" /\ agent[a].peer = k /\ client[k].pin = a
  BY <1>2 DEF IInv, Ends, InSession, Answered, Served, Serving
<1>3. ASSUME NEW k \in ClientConns, NEW a \in Agents,
             agent[a].pc = "serving", agent[a].peer = k
      PROVE  /\ client[k].pin = a
             /\ client[k].pc \in {"waiting", "session", "exited"}
             /\ \A l \in ClientConns : Joined(l, a) => l = k
             /\ \A b \in Agents : agent[b].pc = "serving" /\ agent[b].peer = k => a = b
  BY <1>3 DEF IInv, Ends, Served, Serving, Sent, Given, Joined
<1> QED  BY <1>1, <1>2, <1>3 DEF Agreement

------------------------------------------------------------------------------
(* What a step leaves as it is.                                            *)

\* A step of the hub and the programs in which nothing is taken back: what was
\* sent stays sent, a connection of C that was given away stays so, and an
\* agent goes on, lets go of its connection, or takes one outside of C.
Onward(C) ==
  /\ \A k \in ClientConns : Sent(k) =>
       /\ Sent(k)' /\ client'[k].pin = client[k].pin
       /\ ses[k].pc # "upgraded" => ses'[k].pc # "upgraded" /\ ses'[k].agent \in {ses[k].agent, Nil}
  /\ \A k \in ClientConns :
       \/ ses'[k].agent \in {ses[k].agent, Nil}
       \/ H!Dir!Listed(ses'[k].agent)
  /\ \A c \in C : /\ H!Dir!Listed(c)' => H!Dir!Listed(c) \/ reg[c].pc = "upgraded"
                  /\ reg'[c].pc = "upgraded" => reg[c].pc = "upgraded"
  /\ \A a \in Agents :
       /\ agent[a].conn \in C \cup {Nil}
       /\ \/ agent'[a].conn = Nil
          \/ /\ agent'[a].conn = agent[a].conn
             /\ \A k \in ClientConns : Serving(a, k) => Serving(a, k)'
          \/ /\ agent'[a].conn \notin C
             /\ \A k \in ClientConns : ses'[k].agent # agent'[a].conn

LEMMA GivenKept ==
  ASSUME NEW C \in SUBSET AgentConns, Onward(C), NEW k \in ClientConns, Sent(k),
         NEW c \in C, Given(k, c)
  PROVE  Given(k, c)'
<1>1. c # Nil  BY ConnAssumption
<1>2. /\ ses'[k].pc # "upgraded" /\ ses'[k].agent \in {c, Nil}
      /\ ~H!Dir!Listed(c)' /\ reg'[c].pc # "upgraded"
  BY DEF Onward, Given
<1>3. ASSUME NEW l \in ClientConns, ses'[l].agent = c PROVE l = k
  BY <1>1, <1>3 DEF Onward, Given
<1> QED  BY <1>2, <1>3 DEF Given

LEMMA AnsweredKept ==
  ASSUME NEW C \in SUBSET AgentConns, Onward(C), NEW k \in ClientConns, Sent(k), Answered(k)
  PROVE  Answered(k)'
<1>1. ses'[k].pc # "upgraded" /\ ses'[k].agent \in {ses[k].agent, Nil}
  BY DEF Onward, Answered
<1>2. ASSUME NEW b \in Agents, Joined(k, b)' PROVE Serving(b, k)'
  BY <1>1, <1>2 DEF Onward, Answered, Joined
<1> QED  BY <1>1, <1>2 DEF Answered

LEMMA DueKept ==
  ASSUME NEW C \in SUBSET AgentConns, Onward(C),
         NEW w \in Legs, NEW c \in ClientConns \cup C, NEW m \in Message, Due(w, c, m)
  PROVE  Due(w, c, m)'
<1>1. m.kind \in {"hello", "answer"} /\ Owner(m) \in ClientConns
  BY DEF Message, Owner
<1>2. Sent(Owner(m))' /\ client'[Owner(m)].pin = client[Owner(m)].pin
  BY <1>1 DEF Due, Onward
<1>3. CASE m.kind = "hello"
  <2>1. m.from \in ClientConns /\ Owner(m) = m.from /\ Sent(m.from) /\ DueHello(w, c, m.from)
    BY <1>1, <1>3 DEF Due, Owner
  <2>2. DueHello(w, c, m.from)'
    <3>1. CASE w \in {"up", "toAgent"} /\ c = m.from  BY <3>1 DEF DueHello
    <3>2. CASE w = "down" /\ c \in AgentConns /\ Given(m.from, c)
      <4>1. c \in C  BY <3>2, ConnAssumption
      <4> QED  BY <4>1, <3>2, <2>1, GivenKept DEF DueHello
    <3> QED  BY <2>1, <3>1, <3>2 DEF DueHello
  <2> QED  BY <1>2, <1>3, <2>1, <2>2 DEF Due
<1>4. CASE m.kind = "answer"
  <2>1. m.to \in ClientConns /\ Owner(m) = m.to /\ Sent(m.to) /\ DueAnswer(w, c, m.to)
    BY <1>1, <1>4 DEF Due, Owner
  <2>2. DueAnswer(w, c, m.to)'
    <3>1. CASE w \in {"toClient", "down"} /\ c = m.to /\ Answered(m.to)
      BY <3>1, <2>1, AnsweredKept DEF DueAnswer
    <3>2. CASE /\ w = "up" /\ c \in AgentConns /\ Given(m.to, c)
               /\ \A b \in Agents : agent[b].conn = c => Serving(b, m.to)
      <4>1. c \in C /\ c # Nil  BY <3>2, ConnAssumption
      <4>2. Given(m.to, c)'  BY <4>1, <3>2, <2>1, GivenKept
      <4>3. ASSUME NEW b \in Agents, agent'[b].conn = c PROVE Serving(b, m.to)'
        BY <2>1, <3>2, <4>1, <4>3 DEF Onward
      <4> QED  BY <3>2, <4>2, <4>3 DEF DueAnswer
    <3> QED  BY <2>1, <3>1, <3>2 DEF DueAnswer
  <2> QED  BY <1>2, <1>4, <2>1, <2>2 DEF Due
<1> QED  BY <1>1, <1>3, <1>4

LEMMA AtTyped ==
  ASSUME WireTypes, NEW w \in Legs, NEW c \in H!Conns PROVE At(w, c) \in Message \cup {Nil}
<1>1. \A q \in Wire : First(q) \in Message \cup {Nil}
  <2> SUFFICES ASSUME NEW q \in Wire, q # <<>> PROVE First(q) \in Message  BY DEF First
  <2>1. PICK m \in Message : q = <<m>>  BY DEF Wire
  <2> QED  BY <2>1 DEF First
<1> QED  BY <1>1 DEF WireTypes, At, Legs

LEMMA NotNil == Nil \notin Message
BY NilAssumption DEF Message

\* Messages that stay where they are, or are lost.
LEMMA TrafficKept ==
  ASSUME IInv, NEW C \in SUBSET AgentConns, Onward(C),
         \A w \in Legs, c \in H!Conns :
           At(w, c)' = Nil \/ (At(w, c)' = At(w, c) /\ c \in ClientConns \cup C)
  PROVE  Traffic'
<1>1. ASSUME NEW w \in Legs, NEW c \in H!Conns, NEW m, m = At(w, c)', m # Nil
      PROVE  Due(w, c, m)'
  <2>1. m = At(w, c) /\ c \in ClientConns \cup C  BY <1>1
  <2>2. m \in Message  BY <1>1, <2>1, AtTyped DEF IInv, Types
  <2>3. Due(w, c, m)  BY <1>1, <2>1 DEF IInv, Traffic, Letters
  <2> QED  BY <2>1, <2>2, <2>3, DueKept
<1>2. Letters'  BY <1>1 DEF Letters, Due, DueHello, DueAnswer, Sent, Given, Answered, Serving, Joined
<1>3. Single'  BY DEF IInv, Traffic, Single
<1> QED  BY <1>2, <1>3 DEF Traffic

\* Programs that go on as they were, or let go.
LEMMA EndsKept ==
  ASSUME IInv, NEW C \in SUBSET AgentConns, Onward(C), Dialed',
         \A a \in Agents, k \in ClientConns : Serving(a, k)' =>
           /\ agent'[a].conn = agent[a].conn
           /\ Serving(a, k) \/ (Sent(k) /\ client[k].pin = a /\ Given(k, agent[a].conn)),
         \A k \in ClientConns : client'[k].pc = "session" =>
           client[k].pc = "session" \/ (Sent(k) /\ Answered(k))
  PROVE  Ends'
<1>1. ASSUME NEW a \in Agents, NEW k \in ClientConns, Serving(a, k)'
      PROVE  Sent(k)' /\ client'[k].pin = a /\ Given(k, agent[a].conn)'
                      /\ agent'[a].conn = agent[a].conn
  <2>1. /\ Sent(k) /\ client[k].pin = a /\ Given(k, agent[a].conn)
        /\ agent'[a].conn = agent[a].conn
    BY <1>1 DEF IInv, Ends, Served
  <2>2. agent[a].conn \in C
    BY <1>1, <2>1 DEF Dialed, Serving, Onward
  <2>3. Given(k, agent[a].conn)'
    <3>1. ASSUME NEW c, c = agent[a].conn PROVE Given(k, c)'
      BY <2>1, <2>2, <3>1, GivenKept
    <3> QED  BY <2>1, <3>1 DEF Given
  <2> QED  BY <2>1, <2>3 DEF Onward
<1>2. Served'  BY <1>1 DEF Served, Given
<1>3. InSession'  BY AnsweredKept DEF IInv, Ends, InSession, Sent
<1> QED  BY <1>2, <1>3 DEF Ends

------------------------------------------------------------------------------
(* Steps of the hub.                                                       *)

\* The types of the hub that its steps are read with.
LEMMA HubShape ==
  ASSUME HP!IInv
  PROVE  /\ dir \in [Networks -> [Names -> H!Dir!Record \cup {Nil}]]
         /\ reg \in [AgentConns -> [pc : H!AgentState, peer : H!Dir!Peer \cup {Nil},
                                    prev : AgentConns \cup {Nil}]]
         /\ ses \in [ClientConns -> [pc : H!SessionState, network : Networks \cup {Nil},
                                     name : Names \cup {Nil}, agent : AgentConns \cup {Nil}]]
         /\ conn \in [H!Conns -> {"none", "open", "closed"}]
         /\ copy \in [ClientConns -> [H!Ways -> {"none", "read", "write", "done"}]]
         /\ Nil \notin H!Dir!Record
BY HubTyped, NilAssumption DEF H!TypeOK, H!Dir!TypeOK

LEMMA ListedIn ==
  ASSUME NEW c
  PROVE  H!Dir!Listed(c) <=> \E n \in Networks, x \in Names : dir[n][x] # Nil /\ dir[n][x].conn = c
BY DEF H!Dir!Listed

\* What the programs and wires see of a step of the hub alone.
LEMMA Still ==
  ASSUME IInv, UNCHANGED <<agent, client>>,
         \A k \in ClientConns :
           \/ ses'[k].agent \in {ses[k].agent, Nil} /\ (ses'[k].pc = "upgraded" => ses[k].pc = "upgraded")
           \/ ses[k].pc = "upgraded" /\ H!Dir!Listed(ses'[k].agent),
         \A c \in AgentConns :
           /\ H!Dir!Listed(c)' => H!Dir!Listed(c) \/ reg[c].pc = "upgraded"
           /\ reg'[c].pc = "upgraded" => reg[c].pc = "upgraded"
  PROVE  Onward(AgentConns)
<1>1. \A a \in Agents : agent[a].conn \in AgentConns \cup {Nil}
  BY DEF IInv, Types, AgentTypes
<1>2. \A a \in Agents, k \in ClientConns : Serving(a, k) => Serving(a, k)'  BY DEF Serving
<1>3. \A k \in ClientConns : Sent(k) => Sent(k)' /\ client'[k].pin = client[k].pin  BY DEF Sent
<1> QED  BY <1>1, <1>2, <1>3 DEF Onward

LEMMA AgentHandlerOnward ==
  ASSUME IInv, NEW c \in AgentConns, HandleAgent(c) \/ Recycle(c)
  PROVE  Onward(AgentConns) /\ UNCHANGED <<ses, copy, wires, agent, client, world>>
<1>1. UNCHANGED <<ses, copy, wires, agent, client, world>>
  BY DEF HandleAgent, Recycle, R!HandleAgent, R!Recycle, Outside, R!H!HandleAgent, R!H!AddAgent,
     R!H!ClosePrev, R!H!Recycle, R!wires, wires
<1>2. HP!IInv  BY DEF IInv
<1>3. CASE R!H!AddAgent(c)
  <2> DEFINE p == reg[c].peer
  <2>1. /\ dir' = [dir EXCEPT ![p.network][p.name] = [peer |-> p, conn |-> c]]
        /\ reg[c].pc = "upgraded"
    BY <1>3 DEF R!H!AddAgent, R!H!Dir!Add
  <2>2. ASSUME NEW d \in AgentConns, H!Dir!Listed(d)' PROVE H!Dir!Listed(d) \/ d = c
    <3>1. PICK n \in Networks, x \in Names : dir'[n][x] # Nil /\ dir'[n][x].conn = d
      BY <2>2 DEF H!Dir!Listed
    <3>2. dir'[n][x] = dir[n][x] \/ dir'[n][x] = [peer |-> p, conn |-> c]
      BY <1>2, <2>1, HubShape
    <3> QED  BY <3>1, <3>2, ListedIn
  <2>3. \A d \in AgentConns : reg'[d].pc = "upgraded" => reg[d].pc = "upgraded"
    BY <1>2, <1>3, HubShape DEF R!H!AddAgent
  <2> QED  BY <1>1, <2>1, <2>2, <2>3, Still
<1>4. CASE R!H!ClosePrev(c)
  <2>1. UNCHANGED dir /\ \A d \in AgentConns : reg'[d].pc = "upgraded" => reg[d].pc = "upgraded"
    BY <1>2, <1>4, HubShape DEF R!H!ClosePrev
  <2> QED  BY <1>1, <2>1, Still DEF H!Dir!Listed
<1>5. CASE R!H!Recycle(c)
  <2>1. UNCHANGED dir /\ \A d \in AgentConns : reg'[d].pc = "upgraded" => reg[d].pc = "upgraded"
    BY <1>2, <1>5, HubShape DEF R!H!Recycle, R!H!NoAgent, R!H!audit
  <2> QED  BY <1>1, <2>1, Still DEF H!Dir!Listed
<1> QED
  BY <1>1, <1>3, <1>4, <1>5 DEF HandleAgent, Recycle, R!HandleAgent, R!Recycle, R!H!HandleAgent

LEMMA ClientHandlerOnward ==
  ASSUME IInv, NEW k \in ClientConns, HandleConnect(k)
  PROVE  Onward(AgentConns) /\ Copying' /\ UNCHANGED <<wires, agent, client, world>>
<1>1. UNCHANGED <<wires, agent, client, world>> /\ R!H!HandleConnect(k)
  BY DEF HandleConnect, R!HandleConnect, Outside, R!wires, wires
<1>2. HP!IInv /\ Copying  BY DEF IInv
<1>3. UNCHANGED reg
  BY <1>1 DEF R!H!HandleConnect, R!H!TakePeer, R!H!Refuse, R!H!StartRelay, R!H!FirstDone,
     R!H!CloseAgent, R!H!EndRelay
<1>4. CASE R!H!TakePeer(k)
  <2> DEFINE n == ses[k].network
             x == ses[k].name
  <2>1. /\ ses[k].pc = "upgraded" /\ dir[n][x] # Nil /\ dir' = [dir EXCEPT ![n][x] = Nil]
        /\ ses' = [ses EXCEPT ![k].agent = dir[n][x].conn, ![k].pc = "taken"] /\ UNCHANGED copy
    BY <1>4 DEF R!H!TakePeer, R!H!Wanted, R!H!Dir!Take
  <2>2. n \in Networks /\ x \in Names  BY <1>2, <2>1 DEF HP!IInv, HP!Sessions
  <2>3. H!Dir!Listed(ses'[k].agent) /\ ses'[k].agent \in AgentConns
    BY <1>2, <2>1, <2>2, HubShape, ListedIn DEF H!Dir!Record
  <2>4. ASSUME NEW d \in AgentConns, H!Dir!Listed(d)' PROVE H!Dir!Listed(d)
    <3>1. PICK i \in Networks, j \in Names : dir'[i][j] # Nil /\ dir'[i][j].conn = d
      BY <2>4 DEF H!Dir!Listed
    <3>2. dir'[i][j] = dir[i][j]
      BY <1>2, <2>1, <3>1, HubShape
    <3> QED  BY <3>1, <3>2, ListedIn
  <2>5. \A l \in ClientConns : l # k => ses'[l] = ses[l]  BY <1>2, <2>1, HubShape
  <2>6. Copying'  BY <1>1, <1>2, <2>1, <2>3, <2>5, ConnAssumption DEF Copying, wires
  <2> QED  BY <1>1, <1>3, <2>1, <2>3, <2>4, <2>5, <2>6, Still
<1>5. CASE ~R!H!TakePeer(k)
  <2>1. /\ UNCHANGED dir
        /\ \A l \in ClientConns : /\ ses'[l].agent \in {ses[l].agent, Nil}
                                  /\ ses'[l].pc = "upgraded" => ses[l].pc = "upgraded"
    BY <1>1, <1>2, <1>5, HubShape DEF R!H!HandleConnect, R!H!Refuse, R!H!StartRelay, R!H!FirstDone,
       R!H!CloseAgent, R!H!EndRelay, R!H!audit
  <2>2. Copying'
    <3>1. CASE R!H!StartRelay(k)
      <4>1. ses[k].agent # Nil  BY <1>2, <3>1 DEF R!H!StartRelay, HP!IInv, HP!Sessions
      <4>2. /\ \A l \in ClientConns : ses'[l].agent = ses[l].agent
            /\ \A v \in H!Ways : copy'[k][v] = "read"
            /\ \A l \in ClientConns : l # k => copy'[l] = copy[l]
        BY <1>2, <3>1, HubShape DEF R!H!StartRelay, R!H!Ways, H!Ways
      <4> QED  BY <1>1, <1>2, <4>1, <4>2 DEF Copying, wires
    <3>2. CASE R!H!EndRelay(k)
      BY <1>1, <1>2, <3>2, HubShape DEF R!H!EndRelay, Copying, R!H!Ways, H!Ways, wires
    <3>3. CASE R!H!Refuse(k) \/ R!H!FirstDone(k) \/ R!H!CloseAgent(k)
      <4>1. UNCHANGED copy /\ \A l \in ClientConns : ses'[l].agent = ses[l].agent
        BY <1>2, <3>3, HubShape DEF R!H!Refuse, R!H!FirstDone, R!H!CloseAgent
      <4> QED  BY <1>1, <1>2, <4>1 DEF Copying, wires
    <3> QED  BY <1>1, <1>5, <3>1, <3>2, <3>3 DEF R!H!HandleConnect
  <2> QED  BY <1>1, <1>3, <2>1, <2>2, Still DEF H!Dir!Listed
<1> QED  BY <1>4, <1>5
------------------------------------------------------------------------------
(* Steps that only lose messages.                                          *)

\* Nothing is written to a wire, or picked up by a copier.
Fades ==
  /\ up' = up \/ \E c \in H!Conns : up' = [up EXCEPT ![c] = <<>>]
  /\ down' = down \/ \E c \in H!Conns : down' = [down EXCEPT ![c] = <<>>]
  /\ held' = held \/ \E k \in ClientConns, w \in H!Ways : held' = [held EXCEPT ![k][w] = Nil]

LEMMA FadesTypes ==
  ASSUME IInv, Fades
  PROVE  WireTypes' /\ \A w \in Legs, c \in H!Conns : At(w, c)' \in {At(w, c), Nil}
<1>1. WireTypes  BY DEF IInv, Types
<1>2. <<>> \in Wire /\ First(<<>>) = Nil  BY DEF Wire, First
<1>3. up' \in [H!Conns -> Wire] /\ \A c \in H!Conns : up'[c] \in {up[c], <<>>}
  BY <1>1, <1>2 DEF Fades, WireTypes
<1>4. down' \in [H!Conns -> Wire] /\ \A c \in H!Conns : down'[c] \in {down[c], <<>>}
  BY <1>1, <1>2 DEF Fades, WireTypes
<1>5. /\ held' \in [ClientConns -> [H!Ways -> Message \cup {Nil}]]
      /\ \A k \in ClientConns, w \in H!Ways : held'[k][w] \in {held[k][w], Nil}
  <2>1. CASE held' = held  BY <1>1, <2>1 DEF WireTypes
  <2>2. ASSUME NEW k \in ClientConns, NEW w \in H!Ways, held' = [held EXCEPT ![k][w] = Nil]
        PROVE  <1>5
    BY <1>1, <2>2 DEF WireTypes
  <2> QED  BY <2>1, <2>2 DEF Fades
<1>6. ASSUME NEW w \in Legs, NEW c \in H!Conns PROVE At(w, c)' \in {At(w, c), Nil}
  BY <1>2, <1>3, <1>4, <1>5 DEF At, Legs
<1> QED  BY <1>3, <1>4, <1>5, <1>6 DEF WireTypes

LEMMA FadesKept ==
  ASSUME IInv, Fades, Onward(AgentConns)
  PROVE  WireTypes' /\ Traffic'
<1>1. H!Conns = ClientConns \cup AgentConns  BY DEF H!Conns
<1> QED  BY <1>1, FadesTypes, TrafficKept

\* Such a step of the hub or of the network.
LEMMA HubEnds ==
  ASSUME IInv, NEW C \in SUBSET AgentConns, Onward(C), UNCHANGED <<agent, client, world>>
  PROVE  AgentTypes' /\ ClientTypes' /\ WorldTypes' /\ Placed' /\ Ends'
<1>1. AgentTypes' /\ ClientTypes' /\ WorldTypes'
  BY DEF IInv, Types, AgentTypes, ClientTypes, WorldTypes, world
<1>2. Dialed' /\ \A a \in Agents, k \in ClientConns : Serving(a, k)' <=> Serving(a, k)
  BY DEF IInv, Ends, Dialed, Serving
<1>3. Placed'  BY DEF IInv, Placed
<1> QED  BY <1>1, <1>2, <1>3, EndsKept

LEMMA HubSide ==
  ASSUME IInv, Onward(AgentConns), Fades, UNCHANGED <<agent, client, world>>
  PROVE  Types' /\ Placed' /\ Ends' /\ Traffic'
BY FadesKept, HubEnds DEF Types

\* Such a step of the programs, the users or the world.
LEMMA ProgramSide ==
  ASSUME IInv, UNCHANGED <<hub, held>>, Fades, AgentTypes', ClientTypes', WorldTypes', Placed', Dialed',
         \A k \in ClientConns : Sent(k) => Sent(k)' /\ client'[k].pin = client[k].pin,
         \A k \in ClientConns : client'[k].pc = "session" => client[k].pc = "session",
         \A a \in Agents :
           \/ agent'[a].conn = Nil
           \/ /\ agent'[a].conn = agent[a].conn
              /\ \A k \in ClientConns : Serving(a, k)' <=> Serving(a, k)
  PROVE  Types' /\ Placed' /\ Copying' /\ Ends' /\ Traffic'
<1>1. \A a \in Agents : agent[a].conn \in AgentConns \cup {Nil}
  BY DEF IInv, Types, AgentTypes
<1>2. Onward(AgentConns)  BY <1>1 DEF Onward, hub, H!Dir!Listed
<1>3. WireTypes' /\ Traffic'  BY <1>2, FadesKept
<1>4. \A a \in Agents, k \in ClientConns :
        Serving(a, k)' => Serving(a, k) /\ agent'[a].conn = agent[a].conn
  BY DEF Dialed, Serving
<1>5. Copying'  BY DEF IInv, Copying, hub
<1> QED  BY <1>2, <1>3, <1>4, <1>5, EndsKept DEF Types

LEMMA AgentHandlerInv ==
  ASSUME IInv, NEW c \in AgentConns, HandleAgent(c) \/ Recycle(c)
  PROVE  Types' /\ Placed' /\ Copying' /\ Ends' /\ Traffic'
<1>1. Copying'  BY AgentHandlerOnward DEF IInv, Copying, wires
<1> QED  BY <1>1, AgentHandlerOnward, HubSide DEF Fades, wires

LEMMA ClientHandlerInv ==
  ASSUME IInv, NEW k \in ClientConns, HandleConnect(k)
  PROVE  Types' /\ Placed' /\ Copying' /\ Ends' /\ Traffic'
BY ClientHandlerOnward, HubSide DEF Fades, wires

LEMMA RemoteGoneInv ==
  ASSUME IInv, NEW c \in H!Conns, RemoteGone(c)
  PROVE  Types' /\ Placed' /\ Copying' /\ Ends' /\ Traffic'
<1>1. UNCHANGED <<dir, reg, ses, copy, held, agent, client, world>> /\ Fades
  BY DEF RemoteGone, R!RemoteGone, R!RemoteReset, R!H!RemoteGone, R!wires, Outside, Fades
<1>2. Onward(AgentConns)  BY <1>1, Still DEF H!Dir!Listed
<1>3. Copying'  BY <1>1 DEF IInv, Copying
<1> QED  BY <1>1, <1>2, <1>3, HubSide

\* A wire has a message or none.
LEMMA OnWire ==
  ASSUME NEW q \in Wire, q # <<>>
  PROVE  /\ First(q) \in Message /\ First(q) # Nil
         /\ Head(q) = First(q) /\ Tail(q) = <<>>
<1>1. PICK m \in Message : q = <<m>>  BY DEF Wire
<1> QED  BY <1>1, NotNil DEF First

LEMMA PutOn ==
  ASSUME NEW m \in Message
  PROVE  Append(<<>>, m) \in Wire /\ First(Append(<<>>, m)) = m
BY DEF First, Wire

\* What the copiers' steps leave alone.
LEMMA CopierShape ==
  ASSUME IInv, NEW k \in ClientConns, NEW w \in H!Ways, CopyMsgs(k, w)
  PROVE  /\ UNCHANGED <<dir, reg, ses, conn, agent, client, world>>
         /\ Onward(AgentConns) /\ ses[k].agent # Nil /\ Copying'
<1>1. UNCHANGED <<dir, reg, ses, conn, agent, client, world>>
  BY DEF CopyMsgs, R!CopyMsgs, R!CopyRead, R!CopyReadFails, R!CopyWrite, R!CopyWriteFails,
     R!H!CopyRead, R!H!CopyReadFails, R!H!CopyWrite, R!H!CopyWriteFails, R!H!Copier, Outside
<1>2. Onward(AgentConns)  BY <1>1, Still DEF H!Dir!Listed
<1>3. WireTypes /\ HP!IInv /\ Copying  BY DEF IInv, Types
<1>4. copy[k][w] \in {"read", "write"} /\ ses[k].agent # Nil
  BY <1>3 DEF Copying, CopyMsgs, R!CopyMsgs, R!CopyRead, R!CopyReadFails, R!CopyWrite, R!CopyWriteFails,
     R!H!CopyRead, R!H!CopyReadFails, R!H!CopyWrite, R!H!CopyWriteFails, R!H!Copier
<1>5. /\ copy'[k][w] = "write" => held'[k][w] # Nil
      /\ \A l \in ClientConns, v \in H!Ways : l # k \/ v # w =>
           copy'[l][v] = copy[l][v] /\ held'[l][v] = held[l][v]
  <2>1. CASE R!CopyRead(k, w)
    <3>1. R!H!Src(k, w) \in H!Conns
      BY <1>3, <1>4, HubShape DEF R!H!Src, H!Conns
    <3>2. Head(up[R!H!Src(k, w)]) # Nil
      BY <1>3, <2>1, <3>1, OnWire DEF R!CopyRead, WireTypes
    <3> QED  BY <1>3, <2>1, <3>2, HubShape DEF R!CopyRead, R!H!CopyRead, R!H!Copier, WireTypes
  <2>2. CASE R!CopyReadFails(k, w)
    BY <1>3, <2>2, HubShape DEF R!CopyReadFails, R!H!CopyReadFails, R!H!Copier, R!wires
  <2>3. CASE R!CopyWrite(k, w)
    BY <1>3, <2>3, HubShape DEF R!CopyWrite, R!H!CopyWrite, R!H!Copier, WireTypes
  <2>4. CASE R!CopyWriteFails(k, w)
    BY <1>3, <2>4, HubShape DEF R!CopyWriteFails, R!H!CopyWriteFails, R!H!Copier, WireTypes
  <2> QED  BY <2>1, <2>2, <2>3, <2>4 DEF CopyMsgs, R!CopyMsgs
<1>6. Copying'  BY <1>1, <1>3, <1>4, <1>5 DEF Copying
<1> QED  BY <1>1, <1>2, <1>4, <1>6

LEMMA CopyFadesInv ==
  ASSUME IInv, NEW k \in ClientConns, NEW w \in H!Ways, CopyMsgs(k, w), Fades
  PROVE  Types' /\ Placed' /\ Copying' /\ Ends' /\ Traffic'
BY CopierShape, HubSide

\* The agent's steps that take no message further.
LEMMA AgentCalm ==
  ASSUME IInv, NEW a \in Agents,
         \/ DialFails(a) \/ ReadAllowlist(a) \/ AllowlistUnreadable(a) \/ Refuse(a)
         \/ ReadFails(a) \/ Wake(a) \/ ServeEnds(a) \/ AgentCrash(a)
  PROVE  Types' /\ Placed' /\ Copying' /\ Ends' /\ Traffic'
<1>1. /\ UNCHANGED hub /\ UNCHANGED <<client, hubUp, enrolled, edits, up, held>>
      /\ faults' = faults \/ (faults < MaxFaults /\ faults' = faults + 1)
      /\ \/ down' = down
         \/ agent[a].conn # Nil /\ down' = [down EXCEPT ![agent[a].conn] = <<>>]
  <2>1. CASE DialFails(a) \/ Wake(a) \/ ReadAllowlist(a)
    BY <2>1 DEF DialFails, Wake, ReadAllowlist, world, wires
  <2>2. CASE AllowlistUnreadable(a)
    BY <2>2 DEF AllowlistUnreadable, wires
  <2>3. CASE Refuse(a) \/ ReadFails(a) \/ ServeEnds(a)
    <3>1. agent[a].pc \in {"waiting", "serving"} /\ Return(a)
      BY <2>3 DEF Refuse, Received, ReadFails, ServeEnds
    <3>2. agent[a].conn # Nil  BY <3>1 DEF IInv, Ends, Dialed
    <3> QED  BY <3>1, <3>2 DEF Return, R!Drop, world
  <2>4. CASE AgentCrash(a)
    BY <2>4 DEF AgentCrash, R!Drop
  <2> QED  BY <2>1, <2>2, <2>3, <2>4
<1>2. AgentTypes  BY DEF IInv, Types
<1>3. Fades
  <2>1. agent[a].conn # Nil => agent[a].conn \in H!Conns  BY <1>2 DEF AgentTypes, H!Conns
  <2> QED  BY <1>1, <2>1 DEF Fades
<1>4. /\ AgentTypes' /\ \A b \in Agents : b # a => agent'[b] = agent[b]
      /\ \/ agent'[a].conn = Nil /\ agent'[a].pc \in {"dialing", "sleeping"}
         \/ /\ agent'[a].conn = agent[a].conn
            /\ agent[a].pc = "dialed" /\ agent'[a].pc = "waiting"
  <2>1. enrolled \in Lists  BY DEF IInv, Types, WorldTypes
  <2>2. CASE DialFails(a) \/ Wake(a)
    <3>1. agent[a].conn = Nil  BY <2>2 DEF DialFails, Wake, IInv, Ends, Dialed
    <3> QED  BY <1>2, <2>2, <3>1 DEF DialFails, Wake, AgentTypes, AgentState
  <2>3. CASE ReadAllowlist(a) \/ AllowlistUnreadable(a)
    BY <1>2, <2>1, <2>3 DEF ReadAllowlist, AllowlistUnreadable, AgentTypes, AgentState
  <2>4. CASE Refuse(a) \/ ReadFails(a) \/ ServeEnds(a) \/ AgentCrash(a)
    BY <1>2, <2>4 DEF Refuse, ReadFails, ServeEnds, AgentCrash, Return, Asleep, AgentTypes, AgentState
  <2> QED  BY <2>2, <2>3, <2>4
<1>5. Dialed'
  BY <1>4, ConnAssumption DEF IInv, Ends, Dialed, AgentTypes
<1>6. ClientTypes' /\ WorldTypes'
  BY <1>1, BoundsAssumption DEF IInv, Types, ClientTypes, WorldTypes
<1>7. \A k \in ClientConns : Sent(k) => Sent(k)' /\ client'[k].pin = client[k].pin
  BY <1>1 DEF Sent
<1>8. \A b \in Agents : \/ agent'[b].conn = Nil
                        \/ /\ agent'[b].conn = agent[b].conn
                           /\ \A k \in ClientConns : Serving(b, k)' <=> Serving(b, k)
  BY <1>4 DEF Serving
<1>9. Placed'  BY <1>1 DEF IInv, Placed
<1> QED  BY <1>1, <1>3, <1>4, <1>5, <1>6, <1>7, <1>8, <1>9, ProgramSide

\* The client's, and its user's.
LEMMA ClientCalm ==
  ASSUME IInv, NEW k \in ClientConns,
         \/ ConnectFails(k) \/ HandshakeFails(k) \/ SessionFails(k) \/ Leave(k)
         \/ \E n \in Networks, x \in Names :
              Discover(k, n, x) \/ \E key \in Agents : Pin(k, n, x, key)
  PROVE  Types' /\ Placed' /\ Copying' /\ Ends' /\ Traffic'
<1>1. HP!IInv /\ ClientTypes /\ Placed  BY DEF IInv, Types
<1>2. CASE \E n \in Networks, x \in Names :
             Discover(k, n, x) \/ \E key \in Agents : Pin(k, n, x, key)
  <2>1. PICK n \in Networks, x \in Names, key \in Agents : Pin(k, n, x, key)
    <3>1. ASSUME NEW n \in Networks, NEW x \in Names, Discover(k, n, x)
          PROVE  dir[n][x].peer.pubkey \in Agents
      BY <1>1, <3>1, HubShape DEF Discover, H!Dir!Record, H!Dir!Peer
    <3> QED  BY <1>2, <3>1 DEF Discover
  <2>2. /\ UNCHANGED <<hub, wires, agent, world>> /\ client[k].pc = "idle"
        /\ client' = [client EXCEPT ![k] = [pc |-> "pinned", at |-> <<n, x>>, pin |-> key]]
    BY <2>1 DEF Pin
  <2>3. ClientTypes'  BY <1>1, <2>2 DEF ClientTypes, ClientState
  <2>5. Placed'  BY <1>1, <2>2 DEF Placed, ClientTypes
  <2>6. \A l \in ClientConns :
          /\ Sent(l) => Sent(l)' /\ client'[l].pin = client[l].pin
          /\ client'[l].pc = "session" => client[l].pc = "session"
    BY <1>1, <2>2 DEF Sent, ClientTypes
  <2>7. AgentTypes' /\ WorldTypes' /\ Dialed' /\ Fades
    BY <2>2 DEF IInv, Types, AgentTypes, WorldTypes, Ends, Dialed, Fades, wires, world
  <2>8. \A a \in Agents : /\ agent'[a].conn = agent[a].conn
                          /\ \A l \in ClientConns : Serving(a, l)' <=> Serving(a, l)
    BY <2>2 DEF Serving
  <2> QED  BY <2>2, <2>3, <2>5, <2>6, <2>7, <2>8, ProgramSide DEF wires
<1>3. CASE ConnectFails(k) \/ HandshakeFails(k) \/ SessionFails(k) \/ Leave(k)
  <2>1. Exit(k)  BY <1>3 DEF ConnectFails, HandshakeFails, SessionFails, Leave
  <2>2. /\ UNCHANGED <<hub, up, held, agent, world>>
        /\ client' = [client EXCEPT ![k].pc = "exited"]
        /\ down' = [down EXCEPT ![k] = <<>>]
    BY <2>1 DEF Exit, R!Drop
  <2>3. ClientTypes'  BY <1>1, <2>2 DEF ClientTypes, ClientState
  <2>5. Placed'  BY <1>1, <2>2 DEF Placed, ClientTypes
  <2>6. \A l \in ClientConns :
          /\ Sent(l) => Sent(l)' /\ client'[l].pin = client[l].pin
          /\ client'[l].pc = "session" => client[l].pc = "session"
    BY <1>1, <2>2 DEF Sent, ClientTypes
  <2>7. AgentTypes' /\ WorldTypes' /\ Dialed' /\ Fades
    BY <2>2 DEF IInv, Types, AgentTypes, WorldTypes, Ends, Dialed, Fades, world, H!Conns
  <2>8. \A a \in Agents : /\ agent'[a].conn = agent[a].conn
                          /\ \A l \in ClientConns : Serving(a, l)' <=> Serving(a, l)
    BY <2>2 DEF Serving
  <2> QED  BY <2>2, <2>3, <2>5, <2>6, <2>7, <2>8, ProgramSide
<1> QED  BY <1>2, <1>3

\* The world's.
LEMMA WorldInv ==
  ASSUME IInv, HubStart \/ EditFile
  PROVE  Types' /\ Placed' /\ Copying' /\ Ends' /\ Traffic'
<1>1. UNCHANGED <<hub, wires, agent, client>>  BY DEF HubStart, EditFile
<1>2. WorldTypes'
  <2>1. hubUp \in BOOLEAN /\ enrolled \in Lists /\ faults \in 0 .. MaxFaults /\ edits \in 0 .. MaxEdits
    BY DEF IInv, Types, WorldTypes
  <2>2. hubUp' \in BOOLEAN /\ enrolled' \in Lists /\ faults' = faults
        /\ (edits' = edits \/ (edits < MaxEdits /\ edits' = edits + 1))
    BY <2>1 DEF HubStart, EditFile
  <2>3. faults' \in 0 .. MaxFaults /\ edits' \in 0 .. MaxEdits
    BY <2>1, <2>2, BoundsAssumption
  <2> QED  BY <2>2, <2>3 DEF WorldTypes
<1>3. AgentTypes' /\ ClientTypes' /\ Placed' /\ Dialed' /\ Fades
  BY <1>1 DEF IInv, Types, AgentTypes, ClientTypes, Placed, Ends, Dialed, Fades, wires
<1>4. \A k \in ClientConns : Sent(k) => Sent(k)' /\ client'[k].pin = client[k].pin
  BY <1>1 DEF Sent
<1>5. \A a \in Agents : /\ agent'[a].conn = agent[a].conn
                        /\ \A k \in ClientConns : Serving(a, k)' <=> Serving(a, k)
  BY <1>1 DEF Serving
<1> QED  BY <1>1, <1>2, <1>3, <1>4, <1>5, ProgramSide DEF wires

\* A hub that crashes takes with it all it has registered, joined and read.
LEMMA HubCrashInv ==
  ASSUME IInv, HubCrash
  PROVE  Types' /\ Placed' /\ Copying' /\ Ends' /\ Traffic'
<1>1. UNCHANGED <<down, agent, client, enrolled, edits>>  BY DEF HubCrash
<1>2. /\ \A n \in Networks, x \in Names : dir'[n][x] = Nil
      /\ \A c \in AgentConns : reg'[c].pc = "none"
      /\ \A k \in ClientConns : ses'[k].agent = Nil /\ ses'[k].pc = "none"
      /\ \A k \in ClientConns, w \in H!Ways : copy'[k][w] = "none" /\ held'[k][w] = Nil
      /\ \A c \in H!Conns : up'[c] = <<>>
  BY DEF HubCrash, H!NoAgent, H!NoSession
<1>3. Onward(AgentConns)  BY <1>1, <1>2, Still DEF H!Dir!Listed
<1>4. WireTypes'
  BY DEF HubCrash, IInv, Types, WireTypes, Wire
<1>5. ASSUME NEW w \in Legs, NEW c \in H!Conns PROVE At(w, c)' \in {At(w, c), Nil}
  BY <1>1, <1>2 DEF At, Legs, First
<1>6. Traffic'
  <2>1. H!Conns = ClientConns \cup AgentConns  BY DEF H!Conns
  <2> QED  BY <1>3, <1>5, <2>1, TrafficKept
<1>7. AgentTypes' /\ ClientTypes' /\ Placed' /\ Dialed'
  BY <1>1 DEF IInv, Types, AgentTypes, ClientTypes, Placed, Ends, Dialed
<1>8. WorldTypes'
  <2>1. enrolled \in Lists /\ faults \in 0 .. MaxFaults /\ edits \in 0 .. MaxEdits
    BY DEF IInv, Types, WorldTypes
  <2>2. hubUp' \in BOOLEAN /\ faults < MaxFaults /\ faults' = faults + 1
    BY DEF HubCrash
  <2>3. faults' \in 0 .. MaxFaults  BY <2>1, <2>2, BoundsAssumption
  <2> QED  BY <1>1, <2>1, <2>2, <2>3 DEF WorldTypes
<1>9. \A a \in Agents, k \in ClientConns :
        Serving(a, k)' => Serving(a, k) /\ agent'[a].conn = agent[a].conn
  BY <1>1 DEF Serving
<1>10. Ends'  BY <1>1, <1>3, <1>7, <1>9, EndsKept
<1>11. Copying'  BY <1>2 DEF Copying
<1> QED  BY <1>4, <1>6, <1>7, <1>8, <1>10, <1>11 DEF Types

------------------------------------------------------------------------------
(* Connections that begin.                                                 *)

LEMMA ConnectInv ==
  ASSUME IInv, NEW k \in ClientConns, Connect(k)
  PROVE  Types' /\ Placed' /\ Copying' /\ Ends' /\ Traffic'
<1>1. HP!IInv /\ ClientTypes /\ Placed  BY DEF IInv, Types
<1>2. /\ client[k].pc = "pinned" /\ client' = [client EXCEPT ![k].pc = "connected"]
      /\ conn[k] = "none" /\ UNCHANGED <<dir, reg, copy, held, agent, world>>
      /\ ses' = [ses EXCEPT ![k] = [pc |-> "upgraded", network |-> client[k].at[1],
                                    name |-> client[k].at[2], agent |-> Nil]]
      /\ up' = [up EXCEPT ![k] = <<>>] /\ down' = [down EXCEPT ![k] = <<>>]
  BY DEF Connect, H!UpgradeClient, H!Accept, R!Fresh
<1>3. \A l \in ClientConns : /\ Sent(l) => Sent(l)' /\ l # k
                             /\ client'[l].pin = client[l].pin
                             /\ client'[l].pc = "session" => client[l].pc = "session"
  BY <1>1, <1>2 DEF Sent, ClientTypes
<1>4. \A l \in ClientConns : ses'[l].agent \in {ses[l].agent, Nil} /\ (l # k => ses'[l] = ses[l])
  BY <1>1, <1>2, HubShape
<1>5. Onward(AgentConns)
  <2>1. \A a \in Agents : agent[a].conn \in AgentConns \cup {Nil}
    BY DEF IInv, Types, AgentTypes
  <2>2. \A a \in Agents, l \in ClientConns : Serving(a, l) => Serving(a, l)'
    BY <1>2 DEF Serving
  <2> QED  BY <1>2, <1>3, <1>4, <2>1, <2>2 DEF Onward, H!Dir!Listed
<1>6. Fades  BY <1>2 DEF Fades, H!Conns
<1>7. WireTypes' /\ Traffic'  BY <1>5, <1>6, FadesKept
<1>8. AgentTypes' /\ WorldTypes' /\ Dialed'
  BY <1>2 DEF IInv, Types, AgentTypes, WorldTypes, Ends, Dialed, world
<1>9. ClientTypes' /\ Placed'  BY <1>1, <1>2 DEF ClientTypes, ClientState, Placed
<1>10. Ends'
  <2>1. \A a \in Agents, l \in ClientConns :
          Serving(a, l)' => Serving(a, l) /\ agent'[a].conn = agent[a].conn
    BY <1>2 DEF Serving
  <2> QED  BY <1>3, <1>5, <1>8, <2>1, EndsKept
<1>11. Copying'
  <2>1. \A w \in H!Ways : copy[k][w] = "none"
    BY <1>1, <1>2 DEF HP!IInv, HP!Sessions, HP!Ways, H!Ways
  <2> QED  BY <1>2, <1>4, <2>1 DEF IInv, Copying
<1> QED  BY <1>7, <1>8, <1>9, <1>10, <1>11 DEF Types

LEMMA DialInv ==
  ASSUME IInv, NEW a \in Agents, Dial(a)
  PROVE  Types' /\ Placed' /\ Copying' /\ Ends' /\ Traffic'
<1>1. HP!IInv /\ AgentTypes /\ Dialed  BY DEF IInv, Types, Ends
<1>2. PICK c \in AgentConns :
        /\ ~Attached(c) /\ conn[c] = "none"
        /\ agent' = [agent EXCEPT ![a].pc = "dialed", ![a].conn = c]
        /\ reg' = [reg EXCEPT ![c] = [pc |-> "upgraded", peer |-> PeerOf[a], prev |-> Nil]]
        /\ up' = [up EXCEPT ![c] = <<>>] /\ down' = [down EXCEPT ![c] = <<>>]
        /\ UNCHANGED <<dir, ses, copy>>
  BY DEF Dial, H!UpgradeAgent, H!Accept, R!Fresh
<1>3. UNCHANGED <<held, client, world>> /\ agent[a].pc = "dialing"  BY DEF Dial
<1>4. agent[a].conn = Nil /\ \A b \in Agents : agent[b].conn # c
  BY <1>1, <1>2, <1>3 DEF Dialed, Attached
<1>5. \A k \in ClientConns : ses[k].agent # c
  <2>1. reg[c].pc = "none"  BY <1>1, <1>2 DEF HP!IInv, HP!Handlers
  <2> QED  BY <1>1, <2>1 DEF HP!IInv, HP!Brokered
<1>6. /\ agent'[a].conn = c /\ agent'[a].pc = "dialed"
      /\ \A b \in Agents : b # a => agent'[b] = agent[b]
  BY <1>1, <1>2 DEF AgentTypes
<1>7. Onward(AgentConns \ {c})
  <2>1. \A b \in Agents : agent[b].conn \in (AgentConns \ {c}) \cup {Nil}
    BY <1>1, <1>4 DEF AgentTypes
  <2>2. \A d \in AgentConns \ {c} : reg'[d] = reg[d]  BY <1>1, <1>2, HubShape
  <2>3. \A k \in ClientConns : Sent(k) => Sent(k)' /\ client'[k].pin = client[k].pin
    BY <1>3 DEF Sent
  <2>4. ASSUME NEW b \in Agents, b # a
        PROVE  /\ agent'[b].conn = agent[b].conn
               /\ \A k \in ClientConns : Serving(b, k) => Serving(b, k)'
    BY <1>6, <2>4 DEF Serving
  <2> QED  BY <1>2, <1>5, <1>6, <2>1, <2>2, <2>3, <2>4 DEF Onward, H!Dir!Listed
<1>8. Fades  BY <1>2, <1>3 DEF Fades, H!Conns
<1>9. WireTypes' /\ \A w \in Legs, d \in H!Conns : At(w, d)' \in {At(w, d), Nil}
  BY <1>8, FadesTypes
<1>10. Traffic'
  <2>1. \A w \in Legs : At(w, c)' = Nil
    <3>1. up'[c] = <<>> /\ down'[c] = <<>>
      BY <1>2 DEF IInv, Types, WireTypes, H!Conns
    <3> QED  BY <3>1, ConnAssumption DEF At, First, Legs
  <2>2. \A d \in H!Conns : d # c => d \in ClientConns \cup (AgentConns \ {c})
    BY DEF H!Conns
  <2> QED  BY <1>7, <1>9, <2>1, <2>2, TrafficKept
<1>11. AgentTypes'  BY <1>1, <1>2 DEF AgentTypes, AgentState
<1>12. ClientTypes' /\ WorldTypes' /\ Placed' /\ Copying'
  BY <1>2, <1>3 DEF IInv, Types, ClientTypes, WorldTypes, Placed, Copying, world
<1>13. Dialed'
  BY <1>1, <1>4, <1>6, ConnAssumption DEF Dialed
<1>14. Ends'
  <2>1. \A b \in Agents, k \in ClientConns :
          Serving(b, k)' => Serving(b, k) /\ agent'[b].conn = agent[b].conn
    BY <1>6 DEF Serving
  <2> QED  BY <1>3, <1>7, <1>13, <2>1, EndsKept
<1> QED  BY <1>9, <1>10, <1>11, <1>12, <1>14 DEF Types

------------------------------------------------------------------------------
(* Messages that go on.                                                    *)

\* One message arrives at a place, which is the only one its handshake has.
LEMMA TrafficMoved ==
  ASSUME IInv, NEW C \in SUBSET AgentConns, Onward(C),
         NEW w \in Legs, NEW c \in H!Conns, NEW m \in Message,
         At(w, c)' = Nil \/ (At(w, c)' = m /\ Due(w, c, m)'),
         \A v \in Legs, d \in H!Conns : v # w \/ d # c =>
           \/ At(v, d)' = Nil
           \/ At(v, d)' = At(v, d) /\ d \in ClientConns \cup C /\ Owner(At(v, d)) # Owner(m)
  PROVE  Traffic'
<1>1. ASSUME NEW v \in Legs, NEW d \in H!Conns, NEW n, n = At(v, d)', n # Nil
      PROVE  Due(v, d, n)'
  <2>1. CASE v = w /\ d = c  BY <1>1, <2>1
  <2>2. CASE v # w \/ d # c
    <3>1. n = At(v, d) /\ d \in ClientConns \cup C  BY <1>1, <2>2
    <3>2. n \in Message  BY <1>1, <3>1, AtTyped DEF IInv, Types
    <3>3. Due(v, d, n)  BY <1>1, <3>1 DEF IInv, Traffic, Letters
    <3> QED  BY <3>1, <3>2, <3>3, DueKept
  <2> QED  BY <2>1, <2>2
<1>2. Letters'  BY <1>1 DEF Letters, Due, DueHello, DueAnswer, Sent, Given, Answered, Serving, Joined
<1>3. Single'
  <2> SUFFICES ASSUME NEW u \in Legs, NEW v \in Legs, NEW b \in H!Conns, NEW d \in H!Conns,
                      At(u, b)' # Nil, At(v, d)' # Nil, Owner(At(u, b)') = Owner(At(v, d)')
               PROVE  u = v /\ b = d
    BY DEF Single
  <2>1. CASE (u = w /\ b = c) \/ (v = w /\ d = c)  BY <2>1
  <2>2. CASE ~(u = w /\ b = c) /\ ~(v = w /\ d = c)
    <3>1. At(u, b)' = At(u, b) /\ At(v, d)' = At(v, d)  BY <2>2
    <3> QED  BY <3>1 DEF IInv, Traffic, Single
  <2> QED  BY <2>1, <2>2
<1> QED  BY <1>2, <1>3 DEF Traffic

LEMMA CopyReadInv ==
  ASSUME IInv, NEW k \in ClientConns, NEW w \in H!Ways, CopyMsgs(k, w), R!CopyRead(k, w)
  PROVE  Types' /\ Placed' /\ Copying' /\ Ends' /\ Traffic'
<1> DEFINE c == R!H!Src(k, w)
<1>1. /\ UNCHANGED <<dir, reg, ses, conn, agent, client, world>>
      /\ Onward(AgentConns) /\ ses[k].agent # Nil /\ Copying'
  BY CopierShape
<1>2. WireTypes /\ HP!IInv  BY DEF IInv, Types
<1>3. ses[k].agent \in AgentConns  BY <1>1, <1>2, HubShape
<1>4. c \in H!Conns  BY <1>3 DEF R!H!Src, H!Conns
<1>5. PICK m \in Message :
      /\ m # Nil /\ m = At("up", c)
      /\ up' = [up EXCEPT ![c] = <<>>] /\ held' = [held EXCEPT ![k][w] = m] /\ UNCHANGED down
  BY <1>2, <1>4, OnWire DEF R!CopyRead, WireTypes, At
<1>6. Due("up", c, m)  BY <1>4, <1>5 DEF IInv, Traffic, Letters, Legs
<1>7. Due(w, k, m)
  <2>1. CASE w = "toAgent"
    <3>1. c = k /\ k \notin AgentConns  BY <2>1, ConnAssumption DEF R!H!Src
    <3> QED  BY <1>5, <1>6, <2>1, <3>1 DEF Due, DueHello, DueAnswer, Message
  <2>2. CASE w = "toClient"
    <3>1. c = ses[k].agent /\ c \notin ClientConns  BY <1>3, <2>2, ConnAssumption DEF R!H!Src
    <3>2. m.kind = "answer" /\ Sent(m.to) /\ m.from = client[m.to].pin /\ m.to \in ClientConns
      BY <1>5, <1>6, <3>1 DEF Due, DueHello, Message, Owner
    <3>3. Given(m.to, c) /\ \A b \in Agents : agent[b].conn = c => Serving(b, m.to)
      BY <1>6, <3>1, <3>2 DEF Due, DueAnswer
    <3>4. m.to = k  BY <3>1, <3>3 DEF Given
    <3>5. Answered(k)  BY <3>1, <3>3, <3>4 DEF Answered, Given, Joined
    <3> QED  BY <2>2, <3>2, <3>4, <3>5 DEF Due, DueAnswer, Owner
  <2> QED  BY <2>1, <2>2 DEF H!Ways
<1>8. w \in Legs /\ k \in H!Conns /\ "up" \in Legs  BY DEF Legs, H!Conns
<1>9. Due(w, k, m)'  BY <1>1, <1>7, <1>8, DueKept
<1>10. WireTypes'
  BY <1>2, <1>5 DEF WireTypes, Wire
<1>11. At(w, k)' = m
  BY <1>2, <1>5 DEF At, WireTypes, H!Ways
<1>12. ASSUME NEW v \in Legs, NEW d \in H!Conns, v # w \/ d # k
       PROVE  \/ At(v, d)' = Nil
              \/ /\ At(v, d)' = At(v, d) /\ d \in ClientConns \cup AgentConns
                 /\ Owner(At(v, d)) # Owner(m)
  <2>1. CASE v = "up" /\ d = c
    BY <1>2, <1>4, <1>5, <2>1 DEF At, WireTypes, First
  <2>2. CASE v # "up" \/ d # c
    <3>1. At(v, d)' = At(v, d)
      BY <1>2, <1>4, <1>5, <1>12, <2>2 DEF At, WireTypes, Legs, H!Ways
    <3>2. At(v, d) # Nil => Owner(At(v, d)) # Owner(m)
      BY <1>4, <1>5, <1>8, <2>2 DEF IInv, Traffic, Single
    <3> QED  BY <3>1, <3>2 DEF H!Conns
  <2> QED  BY <2>1, <2>2
<1>13. Traffic'  BY <1>1, <1>8, <1>9, <1>11, <1>12, TrafficMoved
<1> QED  BY <1>1, <1>10, <1>13, HubEnds DEF Types

LEMMA CopyWriteInv ==
  ASSUME IInv, NEW k \in ClientConns, NEW w \in H!Ways, CopyMsgs(k, w), R!CopyWrite(k, w)
  PROVE  Types' /\ Placed' /\ Copying' /\ Ends' /\ Traffic'
<1>1. /\ UNCHANGED <<dir, reg, ses, conn, agent, client, world>>
      /\ Onward(AgentConns) /\ ses[k].agent # Nil /\ Copying'
  BY CopierShape
<1>2. WireTypes /\ HP!IInv /\ Copying  BY DEF IInv, Types
<1>3. ses[k].agent \in AgentConns  BY <1>1, <1>2, HubShape
<1>4. PICK c \in H!Conns : c = R!H!Dst(k, w)  BY <1>3 DEF R!H!Dst, H!Conns
<1>5. /\ held' = [held EXCEPT ![k][w] = Nil] /\ UNCHANGED up
      /\ down' = down \/ down' = [down EXCEPT ![c] = Append(@, held[k][w])]
      /\ copy[k][w] = "write"
  BY <1>4 DEF R!CopyWrite, R!H!CopyWrite, R!H!Copier
<1>6. CASE down' = down
  BY <1>5, <1>6, CopyFadesInv DEF Fades
<1>7. CASE down' = [down EXCEPT ![c] = Append(@, held[k][w])]
  <2>1. PICK m \in Message : m = held[k][w] /\ m # Nil
    BY <1>2, <1>5 DEF Copying, WireTypes
  <2>2. w \in Legs /\ k \in H!Conns /\ "down" \in Legs /\ w # "down" /\ m = At(w, k)
    BY <2>1 DEF Legs, H!Conns, At, H!Ways
  <2>3. Due(w, k, m)  BY <2>1, <2>2 DEF IInv, Traffic, Letters
  <2>4. Due("down", c, m) /\ (w = "toAgent" => Given(k, c) /\ Owner(m) = k)
                          /\ (w = "toClient" => c = k /\ Owner(m) = k)
    <3>1. CASE w = "toClient"
      <4>1. c = k  BY <1>4, <3>1 DEF R!H!Dst
      <4> QED  BY <2>3, <3>1, <4>1 DEF Due, DueHello, DueAnswer, Message, Owner
    <3>2. CASE w = "toAgent"
      <4>1. c = ses[k].agent  BY <1>4, <3>2 DEF R!H!Dst
      <4>2. m.kind = "hello" /\ m.from = k
        BY <2>3, <3>2 DEF Due, DueHello, DueAnswer, Message
      <4>3. /\ ses[k].pc # "upgraded" /\ reg[c].pc # "upgraded"
            /\ \A l \in ClientConns : ses[l].agent = c => l = k
        BY <1>1, <1>2, <1>3, <4>1 DEF HP!IInv, HP!Sessions, HP!Brokered
      <4>4. ~H!Dir!Listed(c)
        BY <1>2, <1>3, <4>1 DEF HP!IInv, HP!Filed, HP!At, H!Dir!Listed
      <4>5. Given(k, c)  BY <4>1, <4>3, <4>4 DEF Given
      <4> QED  BY <1>3, <2>3, <3>2, <4>1, <4>2, <4>5 DEF Due, DueHello, Owner
    <3> QED  BY <3>1, <3>2 DEF H!Ways
  <2>5. down[c] = <<>>
    <3> SUFFICES ASSUME down[c] # <<>> PROVE FALSE  OBVIOUS
    <3>1. PICK x \in Message : x # Nil /\ x = At("down", c)
      BY <1>2, <1>4, OnWire DEF WireTypes, At
    <3>2. Due("down", c, x)  BY <1>4, <2>2, <3>1 DEF IInv, Traffic, Letters
    <3>3. Owner(x) # k
      BY <1>4, <2>1, <2>2, <2>4, <3>1 DEF IInv, Traffic, Single, H!Ways
    <3>4. CASE w = "toClient"
      <4>1. c \notin AgentConns  BY <2>4, <3>4, ConnAssumption
      <4> QED  BY <2>4, <3>2, <3>3, <3>4, <4>1 DEF Due, DueHello, DueAnswer, Message, Owner
    <3>5. CASE w = "toAgent"
      <4>1. c = ses[k].agent /\ c \notin ClientConns
        BY <1>3, <1>4, <3>5, ConnAssumption DEF R!H!Dst
      <4>2. Given(Owner(x), c) /\ Owner(x) \in ClientConns
        BY <3>2, <4>1 DEF Due, DueHello, DueAnswer, Message, Owner
      <4> QED  BY <3>3, <4>1, <4>2 DEF Given
    <3> QED  BY <3>4, <3>5 DEF H!Ways
  <2>6. down' = [down EXCEPT ![c] = Append(<<>>, m)]
    BY <1>2, <1>4, <1>7, <2>1, <2>5 DEF WireTypes
  <2>7. WireTypes'
    BY <1>2, <1>5, <2>6, PutOn DEF WireTypes
  <2>8. At("down", c)' = m
    BY <1>2, <1>4, <2>6, PutOn DEF WireTypes, At
  <2>9. Due("down", c, m)'
    BY <1>1, <1>4, <2>2, <2>4, DueKept DEF H!Conns
  <2>10. ASSUME NEW v \in Legs, NEW d \in H!Conns, v # "down" \/ d # c
         PROVE  \/ At(v, d)' = Nil
                \/ /\ At(v, d)' = At(v, d) /\ d \in ClientConns \cup AgentConns
                   /\ Owner(At(v, d)) # Owner(m)
    <3>1. CASE v = w /\ d = k
      BY <1>2, <1>5, <2>2, <3>1 DEF At, WireTypes, H!Ways
    <3>2. CASE v # w \/ d # k
      <4>1. At(v, d)' = At(v, d)
        BY <1>2, <1>4, <1>5, <2>6, <2>10, <3>2 DEF At, WireTypes, Legs, H!Ways
      <4>2. At(v, d) # Nil => Owner(At(v, d)) # Owner(m)
        BY <2>1, <2>2, <3>2 DEF IInv, Traffic, Single
      <4> QED  BY <4>1, <4>2 DEF H!Conns
    <3> QED  BY <3>1, <3>2
  <2>11. Traffic'  BY <1>1, <1>4, <2>2, <2>8, <2>9, <2>10, TrafficMoved
  <2> QED  BY <1>1, <2>7, <2>11, HubEnds DEF Types
<1> QED  BY <1>5, <1>6, <1>7

LEMMA CopyMsgsInv ==
  ASSUME IInv, NEW k \in ClientConns, NEW w \in H!Ways, CopyMsgs(k, w)
  PROVE  Types' /\ Placed' /\ Copying' /\ Ends' /\ Traffic'
<1>1. CASE R!CopyReadFails(k, w)
  BY <1>1, CopyFadesInv DEF R!CopyReadFails, R!wires, Fades
<1>2. CASE R!CopyWriteFails(k, w)
  BY <1>2, CopyFadesInv DEF R!CopyWriteFails, Fades
<1> QED  BY <1>1, <1>2, CopyReadInv, CopyWriteInv DEF CopyMsgs, R!CopyMsgs

LEMMA SendHelloInv ==
  ASSUME IInv, NEW k \in ClientConns, SendHello(k)
  PROVE  Types' /\ Placed' /\ Copying' /\ Ends' /\ Traffic'
<1>1. WireTypes /\ ClientTypes /\ Placed  BY DEF IInv, Types
<1>2. /\ client[k].pc = "connected" /\ client' = [client EXCEPT ![k].pc = "waiting"]
      /\ UNCHANGED <<dir, reg, ses, copy, down, held, agent, world>>
      /\ up' = up \/ up' = [up EXCEPT ![k] = Append(@, Hello(k, client[k].pin))]
  BY DEF SendHello, R!Write, hub
<1>3. \A l \in ClientConns : /\ Sent(l) => Sent(l)' /\ l # k
                             /\ client'[l].pin = client[l].pin
                             /\ client'[l].pc = "session" => client[l].pc = "session"
  BY <1>1, <1>2 DEF Sent, ClientTypes
<1>4. Onward(AgentConns)
  <2>1. \A a \in Agents : agent[a].conn \in AgentConns \cup {Nil}
    BY DEF IInv, Types, AgentTypes
  <2>2. \A a \in Agents, l \in ClientConns : Serving(a, l) => Serving(a, l)'
    BY <1>2 DEF Serving
  <2> QED  BY <1>2, <1>3, <2>1, <2>2 DEF Onward, H!Dir!Listed
<1>5. AgentTypes' /\ WorldTypes' /\ Dialed' /\ Copying'
  BY <1>2 DEF IInv, Types, AgentTypes, WorldTypes, Ends, Dialed, Copying, world
<1>6. ClientTypes' /\ Placed'  BY <1>1, <1>2 DEF ClientTypes, ClientState, Placed
<1>7. Ends'
  <2>1. \A a \in Agents, l \in ClientConns :
          Serving(a, l)' => Serving(a, l) /\ agent'[a].conn = agent[a].conn
    BY <1>2 DEF Serving
  <2> QED  BY <1>3, <1>4, <1>5, <2>1, EndsKept
<1>8. CASE up' = up
  <2>1. Fades  BY <1>2, <1>8 DEF Fades
  <2> QED  BY <1>4, <1>5, <1>6, <1>7, <2>1, FadesKept DEF Types
<1>9. CASE up' = [up EXCEPT ![k] = Append(@, Hello(k, client[k].pin))]
  <2>1. PICK m \in Message : m = Hello(k, client[k].pin)
    BY <1>1, <1>2 DEF Placed, Hello, Message
  <2>2. m.kind = "hello" /\ m.from = k /\ m.to = client[k].pin /\ Owner(m) = k
    BY <2>1 DEF Hello, Owner
  <2>3. k \in H!Conns /\ k \notin AgentConns /\ "up" \in Legs
    BY ConnAssumption DEF H!Conns, Legs
  <2>4. \A v \in Legs, d \in H!Conns : At(v, d) # Nil => Owner(At(v, d)) # k
    BY <1>2 DEF IInv, Traffic, Letters, Due, Sent
  <2>5. up[k] = <<>>
    <3> SUFFICES ASSUME up[k] # <<>> PROVE FALSE  OBVIOUS
    <3>1. PICK x \in Message : x # Nil /\ x = At("up", k)
      BY <1>1, <2>3, OnWire DEF WireTypes, At
    <3>2. Due("up", k, x)  BY <2>3, <3>1 DEF IInv, Traffic, Letters
    <3>3. Owner(x) # k  BY <2>3, <2>4, <3>1
    <3> QED  BY <2>3, <3>2, <3>3 DEF Due, DueHello, DueAnswer, Message, Owner
  <2>6. up' = [up EXCEPT ![k] = Append(<<>>, m)]
    BY <1>1, <1>9, <2>1, <2>3, <2>5 DEF WireTypes
  <2>7. WireTypes'  BY <1>1, <1>2, <2>6, PutOn DEF WireTypes
  <2>8. At("up", k)' = m  BY <1>1, <2>3, <2>6, PutOn DEF WireTypes, At
  <2>9. Due("up", k, m)'
    <3>1. Sent(k)' /\ client'[k].pin = client[k].pin
      BY <1>1, <1>2 DEF Sent, ClientTypes
    <3> QED  BY <2>2, <3>1 DEF Due, DueHello
  <2>10. ASSUME NEW v \in Legs, NEW d \in H!Conns, v # "up" \/ d # k
         PROVE  \/ At(v, d)' = Nil
                \/ /\ At(v, d)' = At(v, d) /\ d \in ClientConns \cup AgentConns
                   /\ Owner(At(v, d)) # Owner(m)
    <3>1. At(v, d)' = At(v, d)
      BY <1>1, <1>2, <2>6, <2>10 DEF At, WireTypes
    <3> QED  BY <2>2, <2>4, <3>1 DEF H!Conns
  <2>11. Traffic'  BY <1>4, <2>3, <2>8, <2>9, <2>10, TrafficMoved
  <2> QED  BY <1>5, <1>6, <1>7, <2>7, <2>11 DEF Types
<1> QED  BY <1>2, <1>8, <1>9

LEMMA AcceptInv ==
  ASSUME IInv, NEW a \in Agents, Accept(a)
  PROVE  Types' /\ Placed' /\ Copying' /\ Ends' /\ Traffic'
<1>1. WireTypes /\ AgentTypes /\ Dialed  BY DEF IInv, Types, Ends
<1>2. agent[a].pc = "waiting" /\ down[agent[a].conn] # <<>>  BY DEF Accept, Received
<1>3. PICK c \in AgentConns : c = agent[a].conn /\ c \in H!Conns
  BY <1>1, <1>2 DEF AgentTypes, Dialed, H!Conns
<1>4. PICK x \in Message : /\ x # Nil /\ x = At("down", c) /\ x = Msg(a)
                           /\ Tail(down[c]) = <<>>
  BY <1>1, <1>2, <1>3, OnWire DEF WireTypes, At, Msg
<1>5. x.kind = "hello" /\ x.to = a  BY <1>4 DEF Accept, Genuine
<1>6. PICK k \in ClientConns : k = x.from /\ k = Owner(x)
  BY <1>4, <1>5 DEF Message, Owner
<1>7. /\ agent' = [agent EXCEPT ![a].pc = "serving", ![a].peer = k]
      /\ down' = [down EXCEPT ![c] = <<>>]
      /\ up' = up \/ up' = [up EXCEPT ![c] = Append(@, Answer(a, k))]
      /\ UNCHANGED <<dir, reg, ses, copy, held, client, world>>
  BY <1>1, <1>3, <1>4, <1>6 DEF Accept, R!Read, R!Write, hub, WireTypes
<1>8. c \notin ClientConns /\ "up" \in Legs /\ "down" \in Legs  BY ConnAssumption DEF Legs
<1>9. Sent(k) /\ client[k].pin = a /\ Given(k, c)
  <2>1. Due("down", c, x)  BY <1>3, <1>4, <1>8 DEF IInv, Traffic, Letters
  <2> QED  BY <1>5, <1>6, <2>1 DEF Due, DueHello
<1>10. /\ agent'[a].conn = c /\ agent'[a].pc = "serving" /\ agent'[a].peer = k
       /\ \A b \in Agents : agent'[b].conn = agent[b].conn /\ (b # a => agent'[b] = agent[b])
  BY <1>1, <1>3, <1>7 DEF AgentTypes
<1>11. Onward(AgentConns)
  <2>1. \A b \in Agents, l \in ClientConns : Serving(b, l) => Serving(b, l)'
    BY <1>2, <1>10 DEF Serving
  <2>2. \A l \in ClientConns : Sent(l) => Sent(l)' /\ client'[l].pin = client[l].pin
    BY <1>7 DEF Sent
  <2>3. \A b \in Agents : agent[b].conn \in AgentConns \cup {Nil}
    BY <1>1 DEF AgentTypes
  <2> QED  BY <1>7, <1>10, <2>1, <2>2, <2>3 DEF Onward, H!Dir!Listed
<1>12. AgentTypes'  BY <1>1, <1>7 DEF AgentTypes, AgentState
<1>13. ClientTypes' /\ WorldTypes' /\ Placed' /\ Copying'
  BY <1>7 DEF IInv, Types, ClientTypes, WorldTypes, Placed, Copying, world
<1>14. Dialed'
  BY <1>1, <1>2, <1>3, <1>10, ConnAssumption DEF Dialed
<1>15. Ends'
  <2>1. ASSUME NEW b \in Agents, NEW l \in ClientConns, Serving(b, l)'
        PROVE  Serving(b, l) \/ (Sent(l) /\ client[l].pin = b /\ Given(l, agent[b].conn))
    <3>1. CASE b = a
      <4>1. l = k  BY <1>10, <2>1, <3>1 DEF Serving
      <4>2. \A d : d = c => Given(k, d)  BY <1>9
      <4> QED  BY <1>3, <1>9, <3>1, <4>1, <4>2
    <3>2. CASE b # a  BY <1>10, <2>1, <3>2 DEF Serving
    <3> QED  BY <3>1, <3>2
  <2> QED  BY <1>7, <1>10, <1>11, <1>14, <2>1, EndsKept
<1>16. CASE up' = up
  <2>1. Fades  BY <1>3, <1>7, <1>16 DEF Fades
  <2> QED  BY <1>11, <1>12, <1>13, <1>15, <2>1, FadesKept DEF Types
<1>17. CASE up' = [up EXCEPT ![c] = Append(@, Answer(a, k))]
  <2>1. PICK m \in Message : m = Answer(a, k)  BY DEF Answer, Message
  <2>2. m.kind = "answer" /\ m.from = a /\ m.to = k /\ Owner(m) = k
    BY <2>1 DEF Answer, Owner
  <2>3. up[c] = <<>>
    <3> SUFFICES ASSUME up[c] # <<>> PROVE FALSE  OBVIOUS
    <3>1. PICK y \in Message : y # Nil /\ y = At("up", c)
      BY <1>1, <1>3, OnWire DEF WireTypes, At
    <3>2. Due("up", c, y)  BY <1>3, <1>8, <3>1 DEF IInv, Traffic, Letters
    <3>3. Serving(a, y.to)
      BY <1>3, <1>8, <3>2 DEF Due, DueHello, DueAnswer, Message
    <3> QED  BY <1>2, <3>3 DEF Serving
  <2>4. up' = [up EXCEPT ![c] = Append(<<>>, m)]
    BY <1>1, <1>3, <1>17, <2>1, <2>3 DEF WireTypes
  <2>5. WireTypes'
    <3>1. <<>> \in Wire  BY DEF Wire
    <3> QED  BY <1>1, <1>7, <2>4, <3>1, PutOn DEF WireTypes
  <2>6. At("up", c)' = m  BY <1>1, <1>3, <2>4, PutOn DEF WireTypes, At
  <2>7. Due("up", c, m)'
    <3>1. Sent(k)' /\ client'[k].pin = a  BY <1>7, <1>9 DEF Sent
    <3>2. Given(k, c)'  BY <1>9, <1>11, GivenKept
    <3>3. \A b \in Agents : agent'[b].conn = c => Serving(b, k)'
      BY <1>1, <1>3, <1>10, ConnAssumption DEF Dialed, Serving
    <3> QED  BY <2>2, <3>1, <3>2, <3>3 DEF Due, DueAnswer
  <2>8. ASSUME NEW v \in Legs, NEW d \in H!Conns, v # "up" \/ d # c
        PROVE  \/ At(v, d)' = Nil
               \/ /\ At(v, d)' = At(v, d) /\ d \in ClientConns \cup AgentConns
                  /\ Owner(At(v, d)) # Owner(m)
    <3>1. CASE v = "down" /\ d = c
      BY <1>1, <1>3, <1>7, <3>1 DEF At, WireTypes, First
    <3>2. CASE v # "down" \/ d # c
      <4>1. At(v, d)' = At(v, d)
        BY <1>1, <1>7, <2>4, <2>8, <3>2 DEF At, WireTypes
      <4>2. At(v, d) # Nil => Owner(At(v, d)) # Owner(m)
        BY <1>3, <1>4, <1>6, <1>8, <2>2, <3>2 DEF IInv, Traffic, Single
      <4> QED  BY <4>1, <4>2 DEF H!Conns
    <3> QED  BY <3>1, <3>2
  <2>9. Traffic'  BY <1>3, <1>8, <1>11, <2>6, <2>7, <2>8, TrafficMoved
  <2> QED  BY <1>12, <1>13, <1>15, <2>5, <2>9 DEF Types
<1> QED  BY <1>7, <1>16, <1>17

LEMMA ReadAnswerInv ==
  ASSUME IInv, NEW k \in ClientConns, ReadAnswer(k)
  PROVE  Types' /\ Placed' /\ Copying' /\ Ends' /\ Traffic'
<1>1. WireTypes /\ ClientTypes /\ Placed  BY DEF IInv, Types
<1>2. /\ client[k].pc = "waiting" /\ client' = [client EXCEPT ![k].pc = "session"]
      /\ UNCHANGED <<dir, reg, ses, copy, up, held, agent, world>>
      /\ down[k] # <<>> /\ Head(down[k]) = Answer(client[k].pin, k)
      /\ down' = [down EXCEPT ![k] = Tail(@)]
  BY DEF ReadAnswer, Valid, R!Read, hub
<1>3. k \in H!Conns /\ "down" \in Legs /\ k \notin AgentConns
  BY ConnAssumption DEF H!Conns, Legs
<1>4. PICK x \in Message : x # Nil /\ x = At("down", k) /\ x = Head(down[k]) /\ Tail(down[k]) = <<>>
  BY <1>1, <1>2, <1>3, OnWire DEF WireTypes, At
<1>5. x.kind = "answer" /\ x.to = k  BY <1>2, <1>4 DEF Answer
<1>6. Sent(k) /\ Answered(k)
  <2>1. Due("down", k, x)  BY <1>3, <1>4 DEF IInv, Traffic, Letters
  <2> QED  BY <1>2, <1>5, <2>1 DEF Due, DueAnswer, Sent
<1>7. \A l \in ClientConns :
        /\ Sent(l) => Sent(l)' /\ client'[l].pin = client[l].pin
        /\ client'[l].pc = "session" => client[l].pc = "session" \/ l = k
  BY <1>1, <1>2 DEF Sent, ClientTypes
<1>8. Onward(AgentConns)
  <2>1. \A a \in Agents : agent[a].conn \in AgentConns \cup {Nil}
    BY DEF IInv, Types, AgentTypes
  <2>2. \A a \in Agents, l \in ClientConns : Serving(a, l) => Serving(a, l)'
    BY <1>2 DEF Serving
  <2> QED  BY <1>2, <1>7, <2>1, <2>2 DEF Onward, H!Dir!Listed
<1>9. AgentTypes' /\ WorldTypes' /\ Dialed' /\ Copying'
  BY <1>2 DEF IInv, Types, AgentTypes, WorldTypes, Ends, Dialed, Copying, world
<1>10. ClientTypes' /\ Placed'  BY <1>1, <1>2 DEF ClientTypes, ClientState, Placed
<1>11. Ends'
  <2>1. \A a \in Agents, l \in ClientConns :
          Serving(a, l)' => Serving(a, l) /\ agent'[a].conn = agent[a].conn
    BY <1>2 DEF Serving
  <2> QED  BY <1>6, <1>7, <1>8, <1>9, <2>1, EndsKept
<1>12. Fades
  <2>1. down' = [down EXCEPT ![k] = <<>>]
    BY <1>1, <1>2, <1>3, <1>4 DEF WireTypes
  <2> QED  BY <1>2, <1>3, <2>1 DEF Fades
<1> QED  BY <1>8, <1>9, <1>10, <1>11, <1>12, FadesKept DEF Types

------------------------------------------------------------------------------
(* The whole.                                                              *)

\* Every step is one of the hub's, none of it, or its crash.
HubStep == HP!Next \/ (HubCrash /\ HP!Init')

LEMMA HubSteps ==
  ASSUME IInv, [Next]_vars
  PROVE  HubStep \/ UNCHANGED hub
<1>1. HP!Next \/ UNCHANGED hub => HubStep \/ UNCHANGED hub  BY DEF HubStep
<1>3. ASSUME NEW c \in AgentConns, HandleAgent(c) \/ Recycle(c) PROVE HubStep \/ UNCHANGED hub
  BY <1>1, <1>3, AgentHandler DEF HandleAgent, Recycle, HP!Next
<1>4. ASSUME NEW k \in ClientConns, HandleConnect(k) PROVE HubStep \/ UNCHANGED hub
  BY <1>1, <1>4, ClientHandler DEF HandleConnect, HP!Next
<1>5. ASSUME NEW k \in ClientConns, NEW w \in H!Ways, CopyMsgs(k, w) PROVE HubStep \/ UNCHANGED hub
  BY <1>1, <1>5, Copiers DEF CopyMsgs, HP!Next
<1>6. ASSUME NEW c \in H!Conns, RemoteGone(c) PROVE HubStep \/ UNCHANGED hub
  BY <1>1, <1>6, FarEnds DEF HP!Next
<1>7. ASSUME NEW a \in Agents, Dial(a) PROVE HubStep \/ UNCHANGED hub
  <2>1. PICK c \in AgentConns : H!UpgradeAgent(c, PeerOf[a])  BY <1>7 DEF Dial
  <2>2. PeerOf[a] \in HP!Dir!Peer /\ HP!UpgradeAgent(c, PeerOf[a])  BY <2>1, AgentUpgrade
  <2> QED  BY <1>1, <2>2 DEF HP!Next
<1>8. ASSUME NEW k \in ClientConns, Connect(k) PROVE HubStep \/ UNCHANGED hub
  <2>1. PICK n \in Networks, x \in Names : H!UpgradeClient(k, n, x)
    <3>1. client[k].at \in Networks \X Names
      BY <1>8 DEF IInv, Placed, Connect
    <3> QED  BY <1>8, <3>1 DEF Connect
  <2> QED  BY <1>1, <2>1, ClientUpgrade DEF HP!Next
<1>9. ASSUME HubCrash PROVE HubStep \/ UNCHANGED hub
  BY <1>9, CrashEmpties DEF HubStep
<1>10. ASSUME NEW k \in ClientConns,
              \/ ConnectFails(k) \/ SendHello(k) \/ ReadAnswer(k) \/ HandshakeFails(k)
              \/ SessionFails(k) \/ Leave(k)
              \/ \E n \in Networks, x \in Names :
                   Discover(k, n, x) \/ \E key \in Agents : Pin(k, n, x, key)
       PROVE  HubStep \/ UNCHANGED hub
  BY <1>1, <1>10 DEF ConnectFails, SendHello, ReadAnswer, HandshakeFails, SessionFails, Leave, Exit,
     Discover, Pin
<1>11. ASSUME NEW a \in Agents,
              \/ DialFails(a) \/ ReadAllowlist(a) \/ AllowlistUnreadable(a) \/ Accept(a)
              \/ Refuse(a) \/ ReadFails(a) \/ Wake(a) \/ ServeEnds(a) \/ AgentCrash(a)
       PROVE  HubStep \/ UNCHANGED hub
  BY <1>1, <1>11 DEF DialFails, ReadAllowlist, AllowlistUnreadable, Accept, Refuse, ReadFails, Wake,
     ServeEnds, AgentCrash, Return
<1>12. ASSUME HubStart \/ EditFile \/ UNCHANGED vars PROVE HubStep \/ UNCHANGED hub
  BY <1>1, <1>12 DEF HubStart, EditFile, vars
<1> QED
  BY <1>3, <1>4, <1>5, <1>6, <1>7, <1>8, <1>9, <1>10, <1>11, <1>12 DEF Next, CmdSSH, Serve

\* The hub's invariant holds through all of them.
LEMMA HubKept ==
  ASSUME IInv, [Next]_vars
  PROVE  HP!IInv'
<1>1. CASE HP!Next \/ UNCHANGED hub
  <2>1. [HP!Next]_(HP!vars)  BY <1>1 DEF hub, HP!vars
  <2> QED  BY <2>1, HubNext DEF IInv
<1>2. CASE HP!Init'  BY <1>2, HubInitLater
<1> QED  BY <1>1, <1>2, HubSteps DEF HubStep

LEMMA HubStarts == H!Init => HP!Init
BY DEF H!Init, H!Dir!Init, H!Audit!Init, H!Conns, H!Ways, H!NoAgent, H!NoSession,
   HP!Init, HP!Dir!Init, HP!Audit!Init, HP!Conns, HP!Ways, HP!NoAgent, HP!NoSession

LEMMA InitInv == Init => IInv
<1> SUFFICES ASSUME Init PROVE IInv  OBVIOUS
<1>1. /\ H!Init /\ R!Empty /\ hubUp = TRUE /\ enrolled \in Lists
      /\ agent = [a \in Agents |-> [Asleep EXCEPT !.pc = "dialing"]]
      /\ client = [k \in ClientConns |-> [pc |-> "idle", at |-> Nil, pin |-> Nil]]
      /\ faults = MaxFaults - MaxFaults /\ edits = MaxEdits - MaxEdits
  BY DEF Init, Start
<1>2. HP!IInv
  <2>1. HP!Init  BY <1>1, HubStarts
  <2> QED  BY <2>1, HubInit
<1>3. /\ \A c \in H!Conns : up[c] = <<>> /\ down[c] = <<>>
      /\ \A k \in ClientConns, w \in H!Ways : held[k][w] = Nil /\ copy[k][w] = "none"
      /\ WireTypes
  BY <1>1 DEF R!Empty, R!H!Conns, R!H!Ways, H!Init, H!Conns, H!Ways, WireTypes, Wire
<1>4. /\ \A a \in Agents : agent[a] = [pc |-> "dialing", conn |-> Nil, allowed |-> {}, peer |-> Nil]
      /\ AgentTypes
  BY <1>1 DEF Asleep, AgentTypes, AgentState
<1>5. ClientTypes /\ \A k \in ClientConns : client[k].pc = "idle"
  BY <1>1 DEF ClientTypes, ClientState
<1>6. WorldTypes
  <2>1. faults \in 0 .. MaxFaults /\ edits \in 0 .. MaxEdits  BY <1>1, BoundsAssumption
  <2> QED  BY <1>1, <2>1 DEF WorldTypes
<1>7. Placed /\ Copying  BY <1>3, <1>5 DEF Placed, Copying
<1>8. Ends  BY <1>4, <1>5 DEF Ends, Served, InSession, Dialed, Serving
<1>9. Traffic
  <2>1. \A w \in Legs, c \in H!Conns : At(w, c) = Nil  BY <1>3 DEF At, Legs, First
  <2> QED  BY <2>1 DEF Traffic, Letters, Single
<1> QED  BY <1>2, <1>3, <1>4, <1>5, <1>6, <1>7, <1>8, <1>9 DEF IInv, Types

LEMMA NextInv == IInv /\ [Next]_vars => IInv'
<1> SUFFICES ASSUME IInv, [Next]_vars PROVE Types' /\ Placed' /\ Copying' /\ Ends' /\ Traffic'
  BY HubKept DEF IInv
<1>1. CASE UNCHANGED vars
  <2>1. UNCHANGED <<hub, wires, agent, client, world>>  BY <1>1 DEF vars
  <2>2. AgentTypes' /\ ClientTypes' /\ WorldTypes' /\ Placed' /\ Dialed' /\ Fades
    BY <2>1 DEF IInv, Types, AgentTypes, ClientTypes, WorldTypes, Placed, Ends, Dialed, Fades, wires, world
  <2>3. \A k \in ClientConns : Sent(k) => Sent(k)' /\ client'[k].pin = client[k].pin
    BY <2>1 DEF Sent
  <2>4. \A a \in Agents : /\ agent'[a].conn = agent[a].conn
                          /\ \A k \in ClientConns : Serving(a, k)' <=> Serving(a, k)
    BY <2>1 DEF Serving
  <2> QED  BY <2>1, <2>2, <2>3, <2>4, ProgramSide DEF wires
<1>2. ASSUME NEW k \in ClientConns, CmdSSH(k)
      PROVE  Types' /\ Placed' /\ Copying' /\ Ends' /\ Traffic'
  BY <1>2, ConnectInv, SendHelloInv, ReadAnswerInv, ClientCalm DEF CmdSSH
<1>3. ASSUME NEW a \in Agents, Serve(a)
      PROVE  Types' /\ Placed' /\ Copying' /\ Ends' /\ Traffic'
  BY <1>3, DialInv, AcceptInv, AgentCalm DEF Serve
<1> QED
  BY <1>1, <1>2, <1>3, AgentHandlerInv, ClientHandlerInv, ClientCalm, CopyMsgsInv, RemoteGoneInv,
     AgentCalm, HubCrashInv, WorldInv DEF Next

\* Types: whatever the numbers of agents, clients, faults and edits, there is
\* never more than one handshake message on a hop of a connection.
THEOREM TypeCorrect == Spec => []TypeOK
<1>1. Spec => []IInv  BY InitInv, NextInv, PTL DEF Spec
<1>2. IInv => TypeOK  BY Conclusion
<1> QED  BY <1>1, <1>2, PTL

\* Agreement of the two ends of a session, through the hub's brokering, names
\* that change hands, connections that are used again, and crashes.
THEOREM EndsAgree == Spec => []Agreement
<1>1. Spec => []IInv  BY InitInv, NextInv, PTL DEF Spec
<1>2. IInv => Agreement  BY Conclusion
<1> QED  BY <1>1, <1>2, PTL

\* Refinement: in the whole network the hub is Hub, from its start on and again
\* after each crash; programs, wires and edits take no other step with it.
THEOREM RunsTheHub == Spec => HP!Init /\ [][HubStep]_hub
<1>1. Init => HP!Init  BY HubStarts DEF Init, Start
<1>2. IInv /\ [Next]_vars => [HubStep]_hub  BY HubSteps
<1> QED  BY <1>1, <1>2, InitInv, NextInv, PTL DEF Spec

\* So what was proved of the hub alone holds here, through crashes: nothing
\* leaks, nobody shares an agent, what is offered is open, clients reach whom
\* they asked for, and the log counts what is live.
THEOREM HubStaysSound ==
  Spec => [](HP!NoLeak /\ HP!OneOwner /\ HP!OfferedIsOpen /\ HP!Routed /\ HP!AuditIsLive)
<1>1. IInv => HP!NoLeak /\ HP!OneOwner /\ HP!OfferedIsOpen /\ HP!Routed /\ HP!AuditIsLive
  <2>1. HP!IInv => HP!NoLeak /\ HP!OneOwner /\ HP!OfferedIsOpen /\ HP!Routed /\ HP!AuditIsLive
    BY HubAssumed, HP!NoLeakInv, HP!OneOwnerInv, HP!OfferedIsOpenInv, HP!RoutedInv, HP!AuditIsLiveInv
       DEF IsFiniteSet, HP!IsFiniteSet
  <2> QED  BY <2>1 DEF IInv
<1> QED  BY <1>1, InitInv, NextInv, PTL DEF Spec
==============================================================================
