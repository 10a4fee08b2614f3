---------------------------- MODULE BrowserProofs -----------------------------
(***************************************************************************)
(* The browser client's safety, for any number of sessions, any capacities *)
(* and any bounds on what is typed and printed.                            *)
(***************************************************************************)
EXTENDS Browser, TLAPS

\* What is left of a queue when its first element is taken.
LEMMA TakeFirst ==
  ASSUME NEW S, NEW q \in Seq(S), q # <<>>
  PROVE  /\ Tail(q) \in Seq(S) /\ Head(q) \in S /\ Head(q) = q[1]
         /\ Len(q) \in Nat \ {0} /\ Len(Tail(q)) = Len(q) - 1
         /\ \A i \in 1 .. Len(q) - 1 : Tail(q)[i] = q[i + 1]
<1>1. Len(q) \in Nat \ {0} /\ Len(Tail(q)) = Len(q) - 1 OBVIOUS
<1>2. Tail(q) \in Seq(S) OBVIOUS
<1>3. Head(q) = q[1] /\ Head(q) \in S OBVIOUS
<1>4. \A i \in 1 .. Len(q) - 1 : Tail(q)[i] = q[i + 1] OBVIOUS
<1> QED BY <1>1, <1>2, <1>3, <1>4

\* A queue and what is added at its end.
LEMMA AddLast ==
  ASSUME NEW S, NEW q \in Seq(S), NEW x \in S
  PROVE  /\ Append(q, x) \in Seq(S) /\ Len(Append(q, x)) = Len(q) + 1 /\ Len(q) \in Nat
         /\ \A i \in 1 .. Len(q) + 1 : Append(q, x)[i] = IF i = Len(q) + 1 THEN x ELSE q[i]
OBVIOUS
LEMMA AddAll ==
  ASSUME NEW S, NEW q \in Seq(S), NEW t \in Seq(S)
  PROVE  /\ q \o t \in Seq(S) /\ Len(q \o t) = Len(q) + Len(t) /\ Len(q) \in Nat /\ Len(t) \in Nat
         /\ \A i \in 1 .. Len(q) + Len(t) :
              (q \o t)[i] = IF i <= Len(q) THEN q[i] ELSE t[i - Len(q)]
OBVIOUS

------------------------------------------------------------------------------
(* Types.                                                                  *)

\* The type invariant in parts.
PageTypes ==
  /\ current \in Sessions \cup {Nil} /\ js \in {"idle", "connect"} /\ hasty \in BOOLEAN
  /\ keys \in 0 .. MaxKeys
GoTypes ==
  /\ pc \in [Sessions -> {"unused", "rejected", "dialing", "handshake", "reading", "over"}]
  /\ openCh \in [Sessions -> {"empty", "ok", "error"}]
  /\ ws \in [Sessions -> {"none", "connecting", "open", "closed"}]
  /\ far \in [Sessions -> {"none", "hello", "serving"}]
Flags ==
  /\ writer \in [Sessions -> BOOLEAN]
  /\ closed \in [Sessions -> BOOLEAN]
  /\ hungUp \in [Sessions -> BOOLEAN]
KeyTypes ==
  /\ sendCh \in [Sessions -> Seq(1 .. MaxKeys)] /\ wire \in [Sessions -> Seq(1 .. MaxKeys)]
  /\ \A s \in Sessions : Len(sendCh[s]) <= SendCap
OutputTypes ==
  /\ in \in [Sessions -> Seq(0 .. MaxOut)] /\ screen \in [Sessions -> Seq(0 .. MaxOut)]
  /\ handler \in (Sessions \X (0 .. MaxOut)) \cup {Nil}
  /\ \A s \in Sessions : Len(in[s]) <= InCap
EventTypes ==
  /\ events \in [Sessions -> Seq(Tasks)] /\ out \in [Sessions -> 0 .. MaxOut]

LEMMA TypeParts ==
  TypeOK <=> PageTypes /\ GoTypes /\ Flags /\ KeyTypes /\ OutputTypes /\ EventTypes
BY DEF TypeOK, PageTypes, GoTypes, Flags, KeyTypes, OutputTypes, EventTypes

\* The steps, one by one.
LEMMA Steps ==
  ASSUME [Next]_vars
  PROVE  \/ UNCHANGED vars
         \/ Connect \/ NoPeer \/ Type \/ HandlerReturns
         \/ \E s \in Sessions :
              \/ NetsoConnect(s) \/ BadKey(s)
              \/ DialFails(s) \/ Dialed(s) \/ Connected(s) \/ HandshakeFails(s) \/ GivesUp(s)
              \/ Show(s) \/ ReaderEnds(s) \/ Write(s)
              \/ OnOpen(s) \/ OnMessage(s) \/ OnError(s) \/ OnCloseEvent(s)
              \/ Opens(s) \/ Refused(s) \/ Answers(s) \/ Prints(s) \/ FarEnds(s)
BY DEF Next, Goroutine, Callback

\* Each part is kept by every step.
LEMMA PageTyped == ASSUME TypeOK, [Next]_vars PROVE PageTypes'
<1>1. PageTypes /\ BoundsAssumption BY TypeParts, BoundsAssumption
<1>2. CASE Type BY <1>1, <1>2, BoundsAssumption DEF Type, PageTypes, ghosts
<1>3. CASE Connect BY <1>1, <1>3 DEF Connect, PageTypes
<1>4. CASE NoPeer BY <1>1, <1>4 DEF NoPeer, PageTypes
<1>5. CASE UNCHANGED page BY <1>1, <1>5 DEF PageTypes, page
<1>6. ASSUME NEW s \in Sessions, NetsoConnect(s) \/ BadKey(s) PROVE PageTypes'
  BY <1>1, <1>6 DEF NetsoConnect, BadKey, Calls, PageTypes
<1>7. ASSUME NEW s \in Sessions,
             DialFails(s) \/ HandshakeFails(s) \/ GivesUp(s) \/ ReaderEnds(s)
      PROVE PageTypes'
  BY <1>1, <1>7 DEF DialFails, HandshakeFails, GivesUp, ReaderEnds, Over, OnClose, PageTypes
<1> QED BY Steps, <1>2, <1>3, <1>4, <1>5, <1>6, <1>7
   DEF HandlerReturns, Dialed, Connected, Show, Write, OnOpen, OnMessage, OnError, OnCloseEvent,
      Task, Opens, Refused, Answers, Prints, FarEnds, Outside, vars

LEMMA KeysTyped == ASSUME TypeOK, [Next]_vars PROVE KeyTypes'
<1>1. KeyTypes /\ PageTypes  BY TypeParts
<1>2. CASE Type
  <2>1. current \in Sessions /\ keys + 1 \in 1 .. MaxKeys
    BY <1>1, <1>2, BoundsAssumption DEF Type, PageTypes
  <2>2. CASE UNCHANGED <<sendCh, wire>>  BY <1>1, <2>2 DEF KeyTypes
  <2>3. CASE sendCh' = [sendCh EXCEPT ![current] = Append(@, keys + 1)]
    <3>1. (Len(sendCh[current]) < SendCap /\ UNCHANGED wire) \/ UNCHANGED <<sendCh, wire>>
      BY <1>2 DEF Type, ghosts
    <3> QED BY <1>1, <2>1, <2>2, <2>3, <3>1, CapsAssumption DEF KeyTypes
  <2> QED BY <1>2, <2>2, <2>3 DEF Type, ghosts
<1>3. ASSUME NEW s \in Sessions, Write(s) PROVE KeyTypes'
  <2>1. /\ sendCh[s] # <<>> /\ sendCh' = [sendCh EXCEPT ![s] = Tail(@)]
        /\ \/ UNCHANGED wire
           \/ wire' = [wire EXCEPT ![s] = Append(@, Head(sendCh[s]))]
           \/ wire' = [wire EXCEPT ![s] = @]
    BY <1>3 DEF Write, Sent
  <2>2. /\ sendCh[s] \in Seq(1 .. MaxKeys) /\ wire[s] \in Seq(1 .. MaxKeys)
        /\ Len(sendCh[s]) <= SendCap
    BY <1>1 DEF KeyTypes
  <2>3. /\ Tail(sendCh[s]) \in Seq(1 .. MaxKeys) /\ Len(Tail(sendCh[s])) <= SendCap
        /\ Append(wire[s], Head(sendCh[s])) \in Seq(1 .. MaxKeys)
    <3>1. /\ Tail(sendCh[s]) \in Seq(1 .. MaxKeys) /\ Head(sendCh[s]) \in 1 .. MaxKeys
          /\ Len(sendCh[s]) \in Nat /\ Len(Tail(sendCh[s])) = Len(sendCh[s]) - 1
      BY <2>1, <2>2, TakeFirst
    <3> QED  BY <2>2, <3>1, AddLast, CapsAssumption
  <2>4. wire' \in [Sessions -> Seq(1 .. MaxKeys)]  BY <1>1, <2>1, <2>3 DEF KeyTypes
  <2>5. /\ sendCh' \in [Sessions -> Seq(1 .. MaxKeys)]
        /\ \A r \in Sessions : Len(sendCh'[r]) <= SendCap
    BY <1>1, <2>1, <2>3 DEF KeyTypes
  <2> QED  BY <2>4, <2>5 DEF KeyTypes
<1>4. CASE UNCHANGED <<sendCh, wire>>  BY <1>1, <1>4 DEF KeyTypes
<1> QED BY Steps, <1>2, <1>3, <1>4
   DEF Connect, NoPeer, HandlerReturns, NetsoConnect, BadKey, Calls, DialFails, Dialed, Connected,
      HandshakeFails, GivesUp, Show, ReaderEnds, OnOpen, OnMessage, OnError, OnCloseEvent, Task, Opens,
      Refused, Answers, Prints, FarEnds, Outside, vars, go, ghosts

LEMMA OutputTyped == ASSUME TypeOK, [Next]_vars PROVE OutputTypes'
<1>1. OutputTypes /\ EventTypes  BY TypeParts
<1>2. ASSUME NEW s \in Sessions, Show(s) PROVE OutputTypes'
  <2>1. /\ in[s] # <<>> /\ in' = [in EXCEPT ![s] = Tail(@)] /\ UNCHANGED handler
        /\ screen' = [screen EXCEPT ![s] = Append(@, Head(in[s]))]
    BY <1>2 DEF Show, ReadMsg
  <2>2. in[s] \in Seq(0 .. MaxOut) /\ Len(in[s]) <= InCap /\ screen[s] \in Seq(0 .. MaxOut)
    BY <1>1 DEF OutputTypes
  <2>3. /\ Tail(in[s]) \in Seq(0 .. MaxOut) /\ Len(Tail(in[s])) <= InCap
        /\ Append(screen[s], Head(in[s])) \in Seq(0 .. MaxOut)
    <3>1. /\ Tail(in[s]) \in Seq(0 .. MaxOut) /\ Head(in[s]) \in 0 .. MaxOut
          /\ Len(in[s]) \in Nat /\ Len(Tail(in[s])) = Len(in[s]) - 1
      BY <2>1, <2>2, TakeFirst
    <3> QED  BY <2>2, <3>1, AddLast, CapsAssumption
  <2> QED  BY <1>1, <2>1, <2>3 DEF OutputTypes
<1>3. ASSUME NEW s \in Sessions, Connected(s) \/ GivesUp(s) PROVE OutputTypes'
  <2>1. /\ UNCHANGED <<screen, handler>>
        /\ UNCHANGED in \/ (in[s] # <<>> /\ in' = [in EXCEPT ![s] = Tail(@)])
    BY <1>3 DEF Connected, GivesUp, ReadMsg, ghosts
  <2>2. CASE UNCHANGED in  BY <1>1, <2>1, <2>2 DEF OutputTypes
  <2>3. CASE in[s] # <<>> /\ in' = [in EXCEPT ![s] = Tail(@)]
    <3>1. in[s] \in Seq(0 .. MaxOut) /\ Len(in[s]) <= InCap  BY <1>1 DEF OutputTypes
    <3>2. /\ Tail(in[s]) \in Seq(0 .. MaxOut)
          /\ Len(in[s]) \in Nat /\ Len(Tail(in[s])) = Len(in[s]) - 1
      BY <2>3, <3>1, TakeFirst
    <3>3. Len(Tail(in[s])) <= InCap  BY <3>1, <3>2, CapsAssumption
    <3> QED  BY <1>1, <2>1, <2>3, <3>2, <3>3 DEF OutputTypes
  <2> QED  BY <2>1, <2>2, <2>3
<1>4. CASE HandlerReturns
  <2>1. handler' = Nil /\ UNCHANGED screen  BY <1>4 DEF HandlerReturns, ghosts
  <2>2. CASE UNCHANGED in  BY <1>1, <2>1, <2>2 DEF OutputTypes
  <2>3. CASE ~UNCHANGED in
    <3>1. PICK s \in Sessions, m \in 0 .. MaxOut :
            Len(in[s]) < InCap /\ in' = [in EXCEPT ![s] = Append(@, m)]
      BY <1>1, <1>4, <2>3 DEF HandlerReturns, OutputTypes
    <3>2. in[s] \in Seq(0 .. MaxOut)  BY <1>1 DEF OutputTypes
    <3>3. Append(in[s], m) \in Seq(0 .. MaxOut) /\ Len(Append(in[s], m)) <= InCap
      BY <3>1, <3>2, CapsAssumption
    <3> QED  BY <1>1, <2>1, <3>1, <3>3 DEF OutputTypes
  <2> QED  BY <2>2, <2>3
<1>5. ASSUME NEW s \in Sessions, OnMessage(s) PROVE OutputTypes'
  <2>1. events[s] \in Seq(Tasks) /\ events[s] # <<>> /\ Head(events[s])[1] = "msg"
     BY <1>1, <1>5 DEF OnMessage, Task, EventTypes
  <2>2. Head(events[s]) \in Tasks BY <2>1
  <2>3. Head(events[s])[2] \in 0 .. MaxOut BY <2>1, <2>2 DEF Tasks
  <2> QED BY <1>1, <1>5, <2>3 DEF OnMessage, Task, OutputTypes, ghosts
<1>6. CASE UNCHANGED <<in, screen, handler>>  BY <1>1, <1>6 DEF OutputTypes
<1> QED BY Steps, <1>2, <1>3, <1>4, <1>5, <1>6
   DEF Connect, NoPeer, Type, NetsoConnect, BadKey, Calls, DialFails, Dialed, HandshakeFails, GivesUp, ReadMsgFails,
      ReaderEnds, Write, OnOpen, OnError, OnCloseEvent, Task, Opens, Refused, Answers, Prints,
      FarEnds, Outside, vars, go, ghosts

LEMMA EventsTyped == ASSUME TypeOK, [Next]_vars PROVE EventTypes'
<1>1. EventTypes  BY TypeParts
<1>2. ASSUME NEW s \in Sessions, NEW t \in Seq(Tasks), Queue(s, t), UNCHANGED out PROVE EventTypes'
  BY <1>1, <1>2 DEF Queue, EventTypes
<1>3. ASSUME NEW s \in Sessions, Opens(s) \/ Refused(s) \/ Answers(s) \/ FarEnds(s) PROVE EventTypes'
  <2>1. <<"open">> \in Tasks /\ <<"error">> \in Tasks /\ <<"close">> \in Tasks
        /\ <<"msg", 0>> \in Tasks
    BY BoundsAssumption DEF Tasks
  <2>2. << <<"open">> >> \in Seq(Tasks) /\ << <<"error">>, <<"close">> >> \in Seq(Tasks)
        /\ << <<"close">> >> \in Seq(Tasks)   /\ << <<"msg", 0>> >> \in Seq(Tasks)
    BY <2>1
  <2> QED BY <1>2, <1>3, <2>2 DEF Opens, Refused, Answers, FarEnds
<1>4. ASSUME NEW s \in Sessions, Prints(s) PROVE EventTypes'
  <2>1. out[s] + 1 \in 0 .. MaxOut /\ out' = [out EXCEPT ![s] = @ + 1]
    BY <1>1, <1>4, BoundsAssumption DEF Prints, EventTypes
  <2>2. <<"msg", out[s] + 1>> \in Tasks BY <2>1 DEF Tasks
  <2>3. << <<"msg", out[s] + 1>> >> \in Seq(Tasks) BY <2>2
  <2> QED BY <1>1, <1>4, <2>1, <2>3 DEF Prints, Queue, EventTypes
<1>5. ASSUME NEW s \in Sessions, NEW k, Task(s, k) PROVE EventTypes'
  BY <1>1, <1>5 DEF Task, EventTypes
<1>6. CASE UNCHANGED <<events, out>>  BY <1>1, <1>6 DEF EventTypes
<1> QED BY Steps, <1>3, <1>4, <1>5, <1>6
   DEF Connect, NoPeer, Type, HandlerReturns, NetsoConnect, BadKey, Calls, DialFails, Dialed, Connected,
      HandshakeFails, GivesUp, Show, ReaderEnds, Write, OnOpen, OnMessage, OnError, OnCloseEvent, vars,
      world

LEMMA GoTyped == ASSUME TypeOK, [Next]_vars PROVE GoTypes'
<1>1. GoTypes  BY TypeParts
<1>2. CASE UNCHANGED <<pc, openCh, ws, far>>  BY <1>1, <1>2 DEF GoTypes
<1>3. CASE Connect  BY <1>1, <1>3 DEF Connect, CloseConn, GoTypes
<1>4. ASSUME NEW s \in Sessions,
         \/ NetsoConnect(s) \/ BadKey(s) \/ DialFails(s) \/ Dialed(s) \/ Connected(s)
         \/ HandshakeFails(s) \/ GivesUp(s) \/ ReaderEnds(s)
      PROVE GoTypes'
   BY <1>1, <1>4 DEF GoTypes, NetsoConnect, BadKey, Calls, DialFails, Dialed, Connected, HandshakeFails, GivesUp,
      ReaderEnds, CloseConn, Over, world
<1>5. ASSUME NEW s \in Sessions,
              \/ OnOpen(s) \/ OnMessage(s) \/ OnError(s) \/ OnCloseEvent(s)
      PROVE GoTypes'
   BY <1>1, <1>5 DEF GoTypes, OnOpen, OnMessage, OnError, OnCloseEvent, Task, Signal, CloseConn
<1>6. ASSUME NEW s \in Sessions,
              \/ Opens(s) \/ Refused(s) \/ Answers(s) \/ Prints(s) \/ FarEnds(s)
      PROVE GoTypes'
   BY <1>1, <1>6 DEF GoTypes, Opens, Refused, Answers, Prints, FarEnds, Outside, go
<1> QED
  BY Steps, <1>2, <1>3, <1>4, <1>5, <1>6 DEF NoPeer, Type, HandlerReturns, Show, Write, vars,
     go, world

LEMMA FlagsTyped == ASSUME TypeOK, [Next]_vars PROVE Flags'
<1>1. Flags BY TypeParts
<1>2. hungUp' \in [Sessions -> BOOLEAN]
  <2>1. CASE Connect BY <1>1, <2>1 DEF Connect, Flags
  <2>2. CASE UNCHANGED hungUp BY <1>1, <2>2 DEF Flags
  <2>3. ASSUME NEW s \in Sessions, GivesUp(s) PROVE hungUp' \in [Sessions -> BOOLEAN]
     BY <1>1, <2>3 DEF GivesUp, Flags
  <2> QED
    BY Steps, <2>1, <2>2, <2>3 DEF NoPeer, Type, HandlerReturns, NetsoConnect, BadKey, Calls, DialFails, Dialed,
       Connected, HandshakeFails, GivesUp, Show, ReaderEnds, Write, OnOpen, OnMessage, OnError,
       OnCloseEvent, Task, Opens, Refused, Answers, Prints, FarEnds, Outside, vars, ghosts
<1>3. closed' \in [Sessions -> BOOLEAN]
  <2>1. ASSUME NEW s \in Sessions, CloseConn(s) PROVE closed' \in [Sessions -> BOOLEAN]
     BY <1>1, <2>1 DEF CloseConn, Flags
  <2>2. CASE UNCHANGED closed BY <1>1, <2>2 DEF Flags
  <2>3. CASE Connect
    <3>1. (current \in Sessions /\ CloseConn(current)) \/ UNCHANGED closed
      BY <2>3, TypeParts DEF Connect, PageTypes
    <3> QED BY <3>1, <2>1, <2>2
  <2> QED
    BY Steps, <2>1, <2>2, <2>3 DEF NoPeer, Type, HandlerReturns, NetsoConnect, BadKey, Calls, DialFails,
       Dialed, Connected, HandshakeFails, GivesUp, Show, ReaderEnds, Write, OnOpen, OnMessage, OnError,
       OnCloseEvent, Opens, Refused, Answers, Prints, FarEnds, Outside, vars, go
<1>4. writer' \in [Sessions -> BOOLEAN]
  <2>1. ASSUME NEW s \in Sessions, Connected(s) \/ Write(s) PROVE writer' \in [Sessions -> BOOLEAN]
     BY <1>1, <2>1 DEF Connected, Write, Flags
  <2>2. CASE UNCHANGED writer BY <1>1, <2>2 DEF Flags
  <2> QED
    BY Steps, <2>1, <2>2 DEF Connect, NoPeer, Type, HandlerReturns, NetsoConnect, BadKey, Calls, DialFails,
       Dialed, HandshakeFails, GivesUp, Show, ReaderEnds, OnOpen, OnMessage, OnError, OnCloseEvent, Task,
       Opens, Refused, Answers, Prints, FarEnds, Outside, vars, go
<1> QED BY <1>2, <1>3, <1>4 DEF Flags

LEMMA TypesInit == Init => TypeOK
<1> SUFFICES ASSUME Init PROVE TypeOK  OBVIOUS
<1>1. PageTypes
  <2>1. current = Nil /\ js = "idle" /\ hasty = FALSE /\ keys = 0  BY DEF Init
  <2>2. 0 \in 0 .. MaxKeys  BY BoundsAssumption
  <2> QED  BY <2>1, <2>2 DEF PageTypes
<1>2. GoTypes  BY DEF Init, GoTypes
<1>3. Flags  BY DEF Init, Flags
<1>4. KeyTypes
  <2>1. <<>> \in Seq(1 .. MaxKeys) /\ Len(<<>>) = 0  OBVIOUS
  <2> QED  BY <2>1, CapsAssumption DEF Init, KeyTypes
<1>5. OutputTypes
  <2>1. <<>> \in Seq(0 .. MaxOut) /\ Len(<<>>) = 0  OBVIOUS
  <2> QED  BY <2>1, CapsAssumption DEF Init, OutputTypes
<1>6. EventTypes
  <2>1. <<>> \in Seq(Tasks) /\ 0 \in 0 .. MaxOut  BY BoundsAssumption
  <2> QED  BY <2>1 DEF Init, EventTypes
<1> QED  BY <1>1, <1>2, <1>3, <1>4, <1>5, <1>6, TypeParts

LEMMA TypesKept == TypeOK /\ [Next]_vars => TypeOK'
<1>1. TypeOK /\ [Next]_vars =>
        PageTypes' /\ GoTypes' /\ Flags' /\ KeyTypes' /\ OutputTypes' /\ EventTypes'
  BY PageTyped, GoTyped, FlagsTyped, KeysTyped, OutputTyped, EventsTyped
<1> QED  BY <1>1, TypeParts, PTL

\* The browser client keeps to its types; its queues never overflow.
THEOREM TypeCorrect == Spec => []TypeOK
BY TypesInit, TypesKept, PTL DEF Spec
------------------------------------------------------------------------------
(* Who holds the page, and in what order keys are sent.                    *)

Alive(s) == pc[s] \in {"dialing", "handshake", "reading"}

\* The types this needs.
Types ==
  /\ current \in Sessions \cup {Nil} /\ hasty \in BOOLEAN /\ keys \in Nat
  /\ pc \in [Sessions -> {"unused", "rejected", "dialing", "handshake", "reading", "over"}]
  /\ writer \in [Sessions -> BOOLEAN] /\ closed \in [Sessions -> BOOLEAN]
  /\ sendCh \in [Sessions -> Seq(Nat)] /\ wire \in [Sessions -> Seq(Nat)]

\* The session the page holds has not ended, or never began; unless the user
\* was hasty nobody else is alive, and on the way to another it is being closed.
Held ==
  /\ current # Nil => Alive(current) \/ pc[current] = "rejected"
  /\ ~hasty => \A s \in Sessions : Alive(s) => s = current
  /\ ~hasty /\ js = "connect" /\ current # Nil /\ Alive(current) =>
       pc[current] = "reading" /\ closed[current]

\* Who reads has somebody who writes, as long as the connection is open.
Written == \A s \in Sessions : pc[s] = "reading" => writer[s] \/ closed[s]

\* The keys a session has sent and those it is to send are in the order they
\* were typed, and no other session's.
InOrder ==
  \A s \in Sessions :
    /\ \A i, j \in DOMAIN wire[s] : i < j => wire[s][i] < wire[s][j]
    /\ \A i, j \in DOMAIN sendCh[s] : i < j => sendCh[s][i] < sendCh[s][j]
    /\ \A i \in DOMAIN wire[s], j \in DOMAIN sendCh[s] : wire[s][i] < sendCh[s][j]
Typed ==
  \A s \in Sessions :
    /\ \A i \in DOMAIN wire[s] : wire[s][i] <= keys
    /\ \A i \in DOMAIN sendCh[s] : sendCh[s][i] <= keys
Apart ==
  \A s, r \in Sessions : s # r =>
    /\ \A i \in DOMAIN wire[s], j \in DOMAIN wire[r] : wire[s][i] # wire[r][j]
    /\ \A i \in DOMAIN wire[s], j \in DOMAIN sendCh[r] : wire[s][i] # sendCh[r][j]
    /\ \A i \in DOMAIN sendCh[s], j \in DOMAIN sendCh[r] : sendCh[s][i] # sendCh[r][j]
Lines == InOrder /\ Typed /\ Apart

IInv == Types /\ Held /\ Written /\ Lines

LEMMA InitInv == Init => IInv
<1> SUFFICES ASSUME Init PROVE IInv  OBVIOUS
<1>1. Types
  <2>1. <<>> \in Seq(Nat)  OBVIOUS
  <2>2. sendCh \in [Sessions -> Seq(Nat)] /\ wire \in [Sessions -> Seq(Nat)]  BY <2>1 DEF Init
  <2>3. writer \in [Sessions -> BOOLEAN] /\ closed \in [Sessions -> BOOLEAN]  BY DEF Init
  <2>4. pc \in [Sessions -> {"unused", "rejected", "dialing", "handshake", "reading", "over"}]  BY DEF Init
  <2>5. current \in Sessions \cup {Nil} /\ hasty \in BOOLEAN /\ keys \in Nat  BY DEF Init
  <2> QED  BY <2>2, <2>3, <2>4, <2>5 DEF Types
<1>2. Held /\ Written  BY DEF Init, Held, Written, Alive
<1>3. Lines  BY DEF Init, Lines, InOrder, Typed, Apart
<1> QED  BY <1>1, <1>2, <1>3 DEF IInv

\* A step that leaves the keys alone leaves their order alone.
LEMMA LinesFrame == Lines /\ UNCHANGED <<keys, sendCh, wire>> => Lines'
  BY DEF Lines, InOrder, Typed, Apart

\* Closing a connection, and only that.
LEMMA CloseConnType ==
  ASSUME Types, NEW s \in Sessions, CloseConn(s)
  PROVE  /\ closed' \in [Sessions -> BOOLEAN] /\ closed'[s]
         /\ \A r \in Sessions : closed[r] => closed'[r]
  BY DEF Types, CloseConn

\* What the browser and the network do changes at most what is closed.
LEMMA QuietInv ==
  ASSUME IInv, UNCHANGED <<page, pc, writer, sendCh, wire>>,
         closed' \in [Sessions -> BOOLEAN], \A r \in Sessions : closed[r] => closed'[r]
  PROVE  IInv'
<1>1. Types'  BY DEF IInv, Types, page
<1>2. Held' /\ Written'  BY DEF IInv, Types, Held, Written, Alive, page
<1>3. Lines'  BY LinesFrame DEF IInv, page
<1> QED  BY <1>1, <1>2, <1>3 DEF IInv

LEMMA CallbackInv ==
  ASSUME IInv, NEW s \in Sessions, Callback(s) \/ HandlerReturns \/ Show(s)
  PROVE  IInv'
<1>1. UNCHANGED <<page, pc, writer, sendCh, wire>>
  BY DEF Callback, OnOpen, OnMessage, OnError, OnCloseEvent, Task, HandlerReturns, Show, ghosts
<1>2. CloseConn(s) \/ UNCHANGED closed
  BY DEF Callback, OnOpen, OnMessage, OnError, OnCloseEvent, HandlerReturns, Show
<1>3. closed' \in [Sessions -> BOOLEAN] /\ \A r \in Sessions : closed[r] => closed'[r]
  BY <1>2, CloseConnType DEF IInv, Types
<1> QED  BY <1>1, <1>3, QuietInv

LEMMA OutsideInv ==
  ASSUME IInv, NEW s \in Sessions,
         Opens(s) \/ Refused(s) \/ Answers(s) \/ Prints(s) \/ FarEnds(s)
  PROVE  IInv'
<1>1. Outside  BY DEF Opens, Refused, Answers, Prints, FarEnds
<1>2. UNCHANGED <<page, pc, writer, sendCh, wire, closed>>  BY <1>1 DEF Outside, go, ghosts
<1> QED  BY <1>2, QuietInv DEF IInv, Types

LEMMA ConnectInv == ASSUME IInv, Connect PROVE IInv'
<1>1. /\ js' = "connect" /\ UNCHANGED <<current, keys, pc, writer, sendCh, wire>>
      /\ hasty' = (hasty \/ (current # Nil /\ pc[current] \in {"dialing", "handshake"}))
      /\ IF current # Nil /\ pc[current] = "reading" THEN CloseConn(current) ELSE UNCHANGED closed
  BY DEF Connect
<1>2. /\ closed' \in [Sessions -> BOOLEAN]
      /\ \A r \in Sessions : closed[r] => closed'[r]
      /\ current # Nil /\ pc[current] = "reading" => closed'[current]
  BY <1>1, CloseConnType DEF IInv, Types
<1>3. hasty' \in BOOLEAN  BY <1>1 DEF IInv, Types
<1>4. Types'  BY <1>1, <1>2, <1>3 DEF IInv, Types
<1>5. Held'  BY <1>1, <1>2 DEF IInv, Types, Held, Alive
<1>6. Written'  BY <1>1, <1>2 DEF IInv, Written
<1>7. Lines'  BY <1>1, LinesFrame DEF IInv
<1> QED  BY <1>4, <1>5, <1>6, <1>7 DEF IInv

\* When the page can run again, the session it was closing has ended.
LEMMA AllOver ==
  ASSUME IInv, GoIdle, js = "connect", ~hasty
  PROVE  \A s \in Sessions : ~Alive(s)
<1> SUFFICES ASSUME NEW s \in Sessions, Alive(s) PROVE FALSE  OBVIOUS
<1>1. s = current /\ s # Nil  BY SessionsAssumption DEF IInv, Held
<1>2. pc[s] = "reading" /\ closed[s]  BY <1>1 DEF IInv, Held
<1> QED  BY <1>2 DEF GoIdle, Blocked

\* The page gets an object, of a session that dials or of none.
LEMMA CallsInv == ASSUME IInv, NEW s \in Sessions, NetsoConnect(s) \/ BadKey(s) PROVE IInv'
<1>1. /\ GoIdle /\ js = "connect" /\ js' = "idle" /\ pc[s] = "unused" /\ current' = s
      /\ pc' = [pc EXCEPT ![s] = "dialing"] \/ pc' = [pc EXCEPT ![s] = "rejected"]
      /\ UNCHANGED <<hasty, keys, writer, sendCh, closed, wire>>
  BY DEF NetsoConnect, BadKey, Calls, ghosts
<1>2. pc'[s] \in {"dialing", "rejected"} /\ \A r \in Sessions : r # s => pc'[r] = pc[r]
  BY <1>1 DEF IInv, Types
<1>3. Types'  BY <1>1 DEF IInv, Types
<1>4. Held'
  <2>1. ~hasty => \A r \in Sessions : ~Alive(r)  BY <1>1, AllOver
  <2> QED  BY <1>1, <1>2, <2>1 DEF Held, Alive
<1>5. Written'  BY <1>1, <1>2 DEF IInv, Written
<1>6. Lines'  BY <1>1, LinesFrame DEF IInv
<1> QED  BY <1>3, <1>4, <1>5, <1>6 DEF IInv

LEMMA NoPeerInv == ASSUME IInv, NoPeer PROVE IInv'
<1>1. /\ GoIdle /\ js = "connect" /\ js' = "idle" /\ current' = Nil
      /\ UNCHANGED <<hasty, keys, pc, writer, sendCh, closed, wire>>
  BY DEF NoPeer, go, ghosts
<1>2. Types'  BY <1>1 DEF IInv, Types
<1>3. Held'
  <2>1. ~hasty => \A r \in Sessions : ~Alive(r)  BY <1>1, AllOver
  <2> QED  BY <1>1, <2>1 DEF Held, Alive
<1>4. Written' /\ Lines'  BY <1>1, LinesFrame DEF IInv, Written
<1> QED  BY <1>2, <1>3, <1>4 DEF IInv

\* A key typed is the last of its session's queue, and later than all before.
LEMMA TypeInv == ASSUME IInv, Type PROVE IInv'
<1>1. /\ current # Nil /\ keys' = keys + 1
      /\ UNCHANGED <<current, js, hasty, pc, writer, closed, wire>>
      /\ sendCh' = sendCh \/ sendCh' = [sendCh EXCEPT ![current] = Append(@, keys + 1)]
  BY DEF Type, ghosts
<1>2. current \in Sessions /\ keys \in Nat /\ sendCh \in [Sessions -> Seq(Nat)]
      /\ wire \in [Sessions -> Seq(Nat)]
  BY <1>1 DEF IInv, Types
<1>3. Held' /\ Written'  BY <1>1 DEF IInv, Held, Written, Alive
<1>4. CASE sendCh' = sendCh
  <2>1. Types'  BY <1>1, <1>4 DEF IInv, Types
  <2>2. Lines'  BY <1>1, <1>2, <1>4 DEF IInv, Lines, InOrder, Typed, Apart
  <2> QED  BY <1>3, <2>1, <2>2 DEF IInv
<1>5. CASE sendCh' = [sendCh EXCEPT ![current] = Append(@, keys + 1)]
  <2>1. sendCh[current] \in Seq(Nat) /\ keys + 1 \in Nat  BY <1>2
  <2>2. Append(sendCh[current], keys + 1) \in Seq(Nat)  BY <2>1
  <2>3. sendCh' \in [Sessions -> Seq(Nat)]  BY <1>2, <1>5, <2>2
  <2>4. Types'  BY <1>1, <2>3 DEF IInv, Types
  <2>5. \A s \in Sessions : \A i \in DOMAIN sendCh'[s] :
          (i \in DOMAIN sendCh[s] /\ sendCh'[s][i] = sendCh[s][i])
          \/ (s = current /\ i = Len(sendCh[s]) + 1 /\ sendCh'[s][i] = keys + 1)
    BY <1>2, <1>5, <2>1
  <2>6. \A s \in Sessions : /\ \A i \in DOMAIN sendCh[s] : i \in Nat /\ i <= Len(sendCh[s])
                                                          /\ sendCh[s][i] \in Nat
                            /\ Len(sendCh[s]) \in Nat
                            /\ \A i \in DOMAIN wire[s] : wire[s][i] \in Nat
    BY <1>2
  <2>7. keys' = keys + 1 /\ keys \in Nat /\ UNCHANGED wire  BY <1>1, <1>2
  <2>8. /\ \A s \in Sessions : \A i, j \in DOMAIN sendCh[s] : i < j => sendCh[s][i] < sendCh[s][j]
        /\ \A s \in Sessions : \A i \in DOMAIN sendCh[s] : sendCh[s][i] < keys + 1
        /\ \A s \in Sessions : \A i \in DOMAIN wire[s] : wire[s][i] < keys + 1
    BY <2>6, <2>7 DEF IInv, Lines, InOrder, Typed
  <2>9. InOrder'
    <3>1. \A s \in Sessions : \A i, j \in DOMAIN sendCh'[s] : i < j => sendCh'[s][i] < sendCh'[s][j]
      BY <2>5, <2>6, <2>8
    <3>2. \A s \in Sessions : \A i \in DOMAIN wire[s], j \in DOMAIN sendCh'[s] :
            wire[s][i] < sendCh'[s][j]
      BY <2>5, <2>8 DEF IInv, Lines, InOrder
    <3> QED  BY <3>1, <3>2, <2>7 DEF IInv, Lines, InOrder
  <2>10. Typed'
    <3>1. \A s \in Sessions : \A i \in DOMAIN sendCh'[s] : sendCh'[s][i] <= keys + 1
      BY <2>5, <2>6, <2>7 DEF IInv, Lines, Typed
    <3>2. \A s \in Sessions : \A i \in DOMAIN wire[s] : wire[s][i] <= keys + 1
      BY <2>6, <2>7 DEF IInv, Lines, Typed
    <3> QED  BY <3>1, <3>2, <2>7 DEF Typed
  <2>11. Apart'
    <3>1. \A s \in Sessions : /\ \A i \in DOMAIN sendCh[s] : sendCh[s][i] # keys + 1
                              /\ \A i \in DOMAIN wire[s] : wire[s][i] # keys + 1
      BY <2>6, <2>7, <2>8
    <3>2. \A s, r \in Sessions : s # r =>
            /\ \A i \in DOMAIN wire[s], j \in DOMAIN sendCh'[r] : wire[s][i] # sendCh'[r][j]
            /\ \A i \in DOMAIN sendCh'[s], j \in DOMAIN sendCh'[r] : sendCh'[s][i] # sendCh'[r][j]
      BY <2>5, <3>1 DEF IInv, Lines, Apart
    <3> QED  BY <3>2, <2>7 DEF IInv, Lines, Apart
  <2> QED  BY <1>3, <2>4, <2>9, <2>10, <2>11 DEF IInv, Lines
<1> QED  BY <1>1, <1>4, <1>5

\* An attempt gets further.
LEMMA DialedInv == ASSUME IInv, NEW s \in Sessions, Dialed(s) PROVE IInv'
<1>1. /\ pc[s] = "dialing" /\ pc' = [pc EXCEPT ![s] = "handshake"]
      /\ UNCHANGED <<page, writer, sendCh, closed, wire>>
  BY DEF Dialed, ghosts
<1>2. pc'[s] = "handshake" /\ \A r \in Sessions : r # s => pc'[r] = pc[r]
  BY <1>1 DEF IInv, Types
<1>3. Types'  BY <1>1 DEF IInv, Types, page
<1>4. Held'  BY <1>1, <1>2 DEF IInv, Types, Held, Alive, page
<1>5. Written'  BY <1>1, <1>2 DEF IInv, Written
<1>6. Lines'  BY <1>1, LinesFrame DEF IInv, page
<1> QED  BY <1>3, <1>4, <1>5, <1>6 DEF IInv

LEMMA ConnectedInv == ASSUME IInv, NEW s \in Sessions, Connected(s) PROVE IInv'
<1>1. /\ pc[s] = "handshake" /\ pc' = [pc EXCEPT ![s] = "reading"]
      /\ writer' = [writer EXCEPT ![s] = TRUE]
      /\ UNCHANGED <<page, sendCh, closed, wire>>
  BY DEF Connected, ghosts
<1>2. /\ pc'[s] = "reading" /\ writer'[s]
      /\ \A r \in Sessions : r # s => pc'[r] = pc[r] /\ writer'[r] = writer[r]
  BY <1>1 DEF IInv, Types
<1>3. Types'  BY <1>1 DEF IInv, Types, page
<1>4. Held'  BY <1>1, <1>2 DEF IInv, Types, Held, Alive, page
<1>5. Written'  BY <1>1, <1>2 DEF IInv, Written
<1>6. Lines'  BY <1>1, LinesFrame DEF IInv, page
<1> QED  BY <1>3, <1>4, <1>5, <1>6 DEF IInv

\* A session that ends leaves the page with none.
LEMMA OverInv ==
  ASSUME IInv, NEW s \in Sessions,
         DialFails(s) \/ HandshakeFails(s) \/ GivesUp(s) \/ ReaderEnds(s)
  PROVE  IInv'
<1>1. /\ Alive(s) /\ pc' = [pc EXCEPT ![s] = "over"] /\ current' = Nil
      /\ UNCHANGED <<js, hasty, keys, writer, sendCh, wire>>
  BY DEF DialFails, HandshakeFails, GivesUp, ReaderEnds, Over, OnClose, Alive, ghosts
<1>2. CloseConn(s) \/ UNCHANGED closed  BY DEF DialFails, HandshakeFails, GivesUp, ReaderEnds
<1>3. closed' \in [Sessions -> BOOLEAN] /\ \A r \in Sessions : closed[r] => closed'[r]
  BY <1>2, CloseConnType DEF IInv, Types
<1>4. pc'[s] = "over" /\ \A r \in Sessions : r # s => pc'[r] = pc[r]
  BY <1>1 DEF IInv, Types
<1>5. Types'  BY <1>1, <1>3 DEF IInv, Types
<1>6. Held'
  <2>1. ~hasty => \A r \in Sessions : Alive(r) => r = s  BY <1>1 DEF IInv, Held
  <2>2. ~hasty => \A r \in Sessions : ~Alive(r)'  BY <1>4, <2>1 DEF Alive
  <2> QED  BY <1>1, <2>2 DEF Held
<1>7. Written'  BY <1>1, <1>3, <1>4 DEF IInv, Written
<1>8. Lines'  BY <1>1, LinesFrame DEF IInv
<1> QED  BY <1>5, <1>6, <1>7, <1>8 DEF IInv

\* The first of the queue goes to the wire, or is lost.
LEMMA WriteInv == ASSUME IInv, NEW s \in Sessions, Write(s) PROVE IInv'
<1>1. /\ sendCh[s] # <<>> /\ sendCh' = [sendCh EXCEPT ![s] = Tail(@)]
      /\ UNCHANGED <<page, pc, closed>>
      /\ \/ closed[s] /\ writer' = [writer EXCEPT ![s] = FALSE]
         \/ UNCHANGED writer
      /\ \/ UNCHANGED wire
         \/ wire' = [wire EXCEPT ![s] = Append(@, Head(sendCh[s]))]
         \/ wire' = [wire EXCEPT ![s] = @]
  BY DEF Write, Sent
<1>2. /\ sendCh \in [Sessions -> Seq(Nat)] /\ wire \in [Sessions -> Seq(Nat)]
      /\ writer \in [Sessions -> BOOLEAN]
  BY DEF IInv, Types
<1>3. sendCh[s] \in Seq(Nat) /\ wire[s] \in Seq(Nat)  BY <1>2
<1>4. Tail(sendCh[s]) \in Seq(Nat) /\ Head(sendCh[s]) \in Nat /\ Len(sendCh[s]) \in Nat \ {0}
      /\ Append(wire[s], Head(sendCh[s])) \in Seq(Nat)
  BY <1>1, <1>3
<1>5. sendCh' \in [Sessions -> Seq(Nat)]  BY <1>1, <1>2, <1>4
<1>6. wire' \in [Sessions -> Seq(Nat)]  BY <1>1, <1>2, <1>4
<1>7. writer' \in [Sessions -> BOOLEAN]  BY <1>1, <1>2
<1>8. Types'  BY <1>1, <1>5, <1>6, <1>7 DEF IInv, Types, page
<1>9. Held'  BY <1>1 DEF IInv, Held, Alive, page
<1>10. Written'
  <2>1. \A r \in Sessions : writer[r] => writer'[r] \/ closed[r]  BY <1>1, <1>2
  <2> QED  BY <1>1, <2>1 DEF IInv, Written
<1>11. \A r \in Sessions : \A i \in DOMAIN sendCh'[r] :
         \/ r # s /\ i \in DOMAIN sendCh[r] /\ sendCh'[r][i] = sendCh[r][i]
         \/ r = s /\ i \in Nat \ {0} /\ i + 1 \in DOMAIN sendCh[r] /\ sendCh'[r][i] = sendCh[r][i + 1]
  BY <1>1, <1>2, <1>3, <1>4
<1>12. \A r \in Sessions : \A i \in DOMAIN wire'[r] :
         \/ i \in DOMAIN wire[r] /\ wire'[r][i] = wire[r][i]
         \/ r = s /\ i = Len(wire[r]) + 1 /\ wire'[r][i] = sendCh[r][1]
  <2>1. CASE wire' = wire \/ wire' = [wire EXCEPT ![s] = @]  BY <1>2, <2>1
  <2>2. CASE wire' = [wire EXCEPT ![s] = Append(@, Head(sendCh[s]))]
    <3>1. /\ wire'[s] = Append(wire[s], sendCh[s][1])
          /\ \A r \in Sessions : r # s => wire'[r] = wire[r]
      BY <1>2, <1>3, <2>2
    <3>2. \A i \in DOMAIN wire'[s] :
            \/ i \in DOMAIN wire[s] /\ wire'[s][i] = wire[s][i]
            \/ i = Len(wire[s]) + 1 /\ wire'[s][i] = sendCh[s][1]
      BY <1>3, <1>4, <3>1
    <3> QED  BY <3>1, <3>2
  <2> QED  BY <1>1, <2>1, <2>2
<1>13. \A r \in Sessions : /\ \A i \in DOMAIN sendCh[r] : i \in Nat /\ sendCh[r][i] \in Nat
                           /\ \A i \in DOMAIN wire[r] : i \in Nat /\ i <= Len(wire[r])
                                                        /\ wire[r][i] \in Nat
                           /\ Len(wire[r]) \in Nat
  BY <1>2
<1>14. 1 \in DOMAIN sendCh[s]  BY <1>1, <1>3, <1>4
<1>15. InOrder'
  <2>1. \A r \in Sessions : \A i, j \in DOMAIN wire'[r] : i < j => wire'[r][i] < wire'[r][j]
    BY <1>12, <1>13, <1>14 DEF IInv, Lines, InOrder
  <2>2. \A r \in Sessions : \A i, j \in DOMAIN sendCh'[r] : i < j => sendCh'[r][i] < sendCh'[r][j]
    BY <1>11, <1>13 DEF IInv, Lines, InOrder
  <2>3. \A r \in Sessions : \A i \in DOMAIN wire'[r], j \in DOMAIN sendCh'[r] :
          wire'[r][i] < sendCh'[r][j]
    BY <1>11, <1>12, <1>13, <1>14 DEF IInv, Lines, InOrder
  <2> QED  BY <2>1, <2>2, <2>3 DEF InOrder
<1>16. Typed'  BY <1>1, <1>11, <1>12, <1>14 DEF IInv, Lines, Typed, page
<1>17. Apart'  BY <1>11, <1>12, <1>14 DEF IInv, Lines, Apart
<1> QED  BY <1>8, <1>9, <1>10, <1>15, <1>16, <1>17 DEF IInv, Lines

LEMMA Inductive == IInv /\ [Next]_vars => IInv'
<1> SUFFICES ASSUME IInv, [Next]_vars PROVE IInv'  OBVIOUS
<1>1. CASE UNCHANGED vars
  <2>1. UNCHANGED <<page, pc, writer, sendCh, wire, closed>>  BY <1>1 DEF vars, go, ghosts
  <2> QED  BY <2>1, QuietInv DEF IInv, Types
<1>2. CASE Connect \/ NoPeer \/ Type  BY <1>2, ConnectInv, NoPeerInv, TypeInv
<1>3. CASE HandlerReturns
  <2>1. UNCHANGED <<page, pc, writer, sendCh, wire, closed>>  BY <1>3 DEF HandlerReturns, ghosts
  <2> QED  BY <2>1, QuietInv DEF IInv, Types
<1>4. ASSUME NEW s \in Sessions,
             \/ NetsoConnect(s) \/ BadKey(s) \/ Goroutine(s) \/ Callback(s)
             \/ Opens(s) \/ Refused(s) \/ Answers(s) \/ Prints(s) \/ FarEnds(s)
      PROVE  IInv'
  <2>1. CASE NetsoConnect(s) \/ BadKey(s)  BY <2>1, CallsInv
  <2>2. CASE Goroutine(s)
    BY <2>2, OverInv, DialedInv, ConnectedInv, CallbackInv, WriteInv DEF Goroutine
  <2>3. CASE Callback(s)  BY <2>3, CallbackInv
  <2>4. CASE Opens(s) \/ Refused(s) \/ Answers(s) \/ Prints(s) \/ FarEnds(s)  BY <2>4, OutsideInv
  <2> QED  BY <1>4, <2>1, <2>2, <2>3, <2>4
<1> QED  BY <1>1, <1>2, <1>3, <1>4 DEF Next

\* The page, its queues and its wires keep IInv, however sessions overlap.
THEOREM Invariant == Spec => []IInv
<1>1. IInv /\ [Next]_vars => IInv'  BY Inductive
<1> QED  BY <1>1, InitInv, PTL DEF Spec

\* Keys stay in order and reach one agent each, however sessions overlap.
THEOREM KeysStayInOrder == Spec => []KeysInOrder
<1>1. IInv => KeysInOrder  BY DEF IInv, Lines, InOrder, Apart, KeysInOrder
<1> QED  BY <1>1, Invariant, PTL

\* A connected session finds room for every key.
THEOREM NoKeyDropped == Spec => []KeptOnceConnected
<1>1. IInv => KeptOnceConnected  BY DEF IInv, Written, KeptOnceConnected, GoIdle, Blocked
<1> QED  BY <1>1, Invariant, PTL

\* The page holds the one session that is alive, short of a hasty click; and
\* never one that was dialled and has ended.
THEOREM PageHoldsTheSession == Spec => []OneSession
<1>1. IInv => OneSession  BY DEF IInv, Types, Held, Alive, OneSession
<1> QED  BY <1>1, Invariant, PTL

------------------------------------------------------------------------------
(* What becomes of what an agent sends.                                    *)

Talking(s) == pc[s] \in {"handshake", "reading"}
Holding(s) == handler # Nil /\ handler[1] = s

\* The message the session reads next, the one its websocket delivers next,
\* the last one sent: message 0 ends the handshake, the shell's follow.
ToRead(s) == IF pc[s] = "reading" THEN Len(screen[s]) + 1 ELSE 0
ToCome(s) == ToRead(s) + Len(in[s]) + (IF Holding(s) THEN 1 ELSE 0)
LastSent(s) == IF far[s] = "serving" THEN out[s] ELSE -1

IsEnd(task) == task[1] \in {"error", "close"}

\* Nothing is sent before there is a connection.
Fresh(s) == in[s] = <<>> /\ screen[s] = <<>> /\ far[s] = "none" /\ out[s] = 0
Before(s) ==
  pc[s] \in {"unused", "rejected"} =>
    Fresh(s) /\ ~closed[s] /\ ws[s] = "none" /\ events[s] = <<>> /\ openCh[s] = "empty"
Dialing(s) ==
  pc[s] = "dialing" =>
    /\ Fresh(s)
    /\ openCh[s] = "empty" =>
         /\ ~closed[s]
         /\ \/ ws[s] = "connecting" /\ events[s] = <<>>
            \/ /\ ws[s] \in {"open", "closed"} /\ events[s] # <<>>
               /\ events[s][1][1] \in {"open", "error"}
               /\ \A i \in DOMAIN events[s] : i > 1 => IsEnd(events[s][i])
               /\ ws[s] = "open" => Len(events[s]) = 1
    /\ openCh[s] = "ok" =>
         /\ ~closed[s] /\ ws[s] \in {"open", "closed"}
         /\ \A i \in DOMAIN events[s] : IsEnd(events[s][i])
         /\ ws[s] = "open" => events[s] = <<>>

\* What was read, what is queued and what is on its way follow each other; a
\* connection is closed after all of it, unless the user closed it.
Queued(s) ==
  Talking(s) =>
    /\ pc[s] = "handshake" => screen[s] = <<>>
    /\ \A i \in DOMAIN in[s] : in[s][i] = ToRead(s) + i - 1
    /\ Holding(s) => handler[2] = ToRead(s) + Len(in[s])
Coming(s) ==
  Talking(s) /\ ~closed[s] =>
    /\ ws[s] \in {"open", "closed"}
    /\ ToCome(s) - 1 <= LastSent(s) /\ LastSent(s) <= ToCome(s) - 1 + Len(events[s])
    /\ ws[s] = "open" => LastSent(s) = ToCome(s) - 1 + Len(events[s])
    /\ \A i \in DOMAIN events[s] :
         IF ToCome(s) + i - 1 <= LastSent(s) THEN events[s][i] = <<"msg", ToCome(s) + i - 1>>
                                             ELSE IsEnd(events[s][i])
Gone(s) ==
  /\ closed[s] => ws[s] = "closed"
  /\ Talking(s) /\ closed[s] /\ ~hungUp[s] => in[s] = <<>> /\ ToRead(s) - 1 = LastSent(s)
  /\ pc[s] = "over" => closed[s] /\ (hungUp[s] \/ Len(screen[s]) = out[s])
Rest(s) ==
  /\ \A i \in DOMAIN screen[s] : screen[s][i] = i
  /\ far[s] # "serving" => out[s] = 0
  /\ Holding(s) => IF closed[s] THEN pc[s] = "over" /\ hungUp[s] ELSE Talking(s)
Local(s) == Before(s) /\ Dialing(s) /\ Queued(s) /\ Coming(s) /\ Gone(s) /\ Rest(s)
Chain == \A s \in Sessions : Local(s)

LEMMA ChainScreen == ASSUME Chain PROVE ScreenWhole
BY DEF Chain, Local, Gone, Rest, ScreenWhole

LEMMA ChainInit == Init => Chain
<1> SUFFICES ASSUME Init, NEW s \in Sessions PROVE Local(s)
  BY DEF Chain
<1> QED
  BY DEF Init, Local, Before, Fresh, Dialing, Queued, Coming, Gone, Rest, Talking, Holding

\* A step leaves the other sessions alone.
Same(r) ==
  /\ pc'[r] = pc[r] /\ openCh'[r] = openCh[r] /\ in'[r] = in[r] /\ closed'[r] = closed[r]
  /\ ws'[r] = ws[r] /\ events'[r] = events[r] /\ far'[r] = far[r] /\ out'[r] = out[r]
  /\ screen'[r] = screen[r] /\ hungUp'[r] = hungUp[r]
SameHandler(r) == IF Holding(r) THEN handler' = handler ELSE ~Holding(r)'

LEMMA LocalFrame ==
  ASSUME NEW r \in Sessions, Local(r), Same(r), SameHandler(r)
  PROVE  Local(r)'
<1>1. (Holding(r)' <=> Holding(r)) /\ (Holding(r) => handler' = handler)
  BY DEF SameHandler, Holding
<1>2. ToRead(r)' = ToRead(r) /\ ToCome(r)' = ToCome(r) /\ LastSent(r)' = LastSent(r)
      /\ (Talking(r)' <=> Talking(r)) /\ (Fresh(r)' <=> Fresh(r))
  BY <1>1 DEF Same, ToRead, ToCome, LastSent, Talking, Fresh
<1> QED
  BY <1>1, <1>2 DEF Same, Local, Before, Dialing, Queued, Coming, Gone, Rest, IsEnd

LEMMA ChainFrame ==
  ASSUME Chain, NEW s \in Sessions, Local(s)', UNCHANGED handler,
         \A r \in Sessions : r # s => Same(r)
  PROVE  Chain'
<1>1. \A r \in Sessions : SameHandler(r)  BY DEF SameHandler, Holding
<1> QED  BY <1>1, LocalFrame DEF Chain

\* The facts of a state in which the page can run.
LEMMA IdleFacts ==
  ASSUME GoIdle
  PROVE  /\ handler = Nil
         /\ \A s \in Sessions : /\ ~Holding(s)
                                /\ pc[s] = "dialing" => openCh[s] = "empty"
                                /\ Talking(s) => in[s] = <<>> /\ ~closed[s]
BY DEF GoIdle, Blocked, Holding, Talking

LEMMA Untouched ==
  ASSUME Chain, UNCHANGED <<pc, openCh, in, closed, handler, ws, events, far, out, screen, hungUp>>
  PROVE  Chain'
<1>1. \A r \in Sessions : Same(r) /\ SameHandler(r)  BY DEF Same, SameHandler, Holding
<1> QED  BY <1>1, LocalFrame DEF Chain

LEMMA ChainConnect == ASSUME TypeOK, Chain, Connect PROVE Chain'
<1>1. CASE current # Nil /\ pc[current] = "reading"
  <2>1. PICK s \in Sessions : s = current  BY <1>1, TypeParts DEF PageTypes
  <2>2. /\ closed'[s] = TRUE /\ ws'[s] = "closed" /\ hungUp'[s] = TRUE
        /\ UNCHANGED <<pc, openCh, in, handler, events, far, out, screen>>
        /\ \A r \in Sessions : r # s => Same(r)
    BY <1>1, <2>1, TypeParts DEF Connect, CloseConn, GoTypes, Flags, Same
  <2>3. ~Holding(s) /\ in[s] = <<>> /\ pc[s] = "reading" /\ Local(s)
    BY <1>1, <2>1, IdleFacts DEF Talking, Chain, Connect
  <2>4. Local(s)'
    BY <2>2, <2>3 DEF Local, Before, Dialing, Queued, Coming, Gone, Rest, Talking, ToRead, Holding
  <2> QED  BY <2>2, <2>4, ChainFrame
<1>2. CASE ~(current # Nil /\ pc[current] = "reading")
  <2>1. UNCHANGED <<pc, openCh, in, closed, handler, ws, events, far, out, screen, hungUp>>
    BY <1>2 DEF Connect
  <2> QED  BY <2>1, Untouched
<1> QED  BY <1>1, <1>2

LEMMA ChainCalls ==
  ASSUME TypeOK, Chain, NEW s \in Sessions, NetsoConnect(s) \/ BadKey(s) PROVE Chain'
<1>1. /\ pc[s] = "unused"
      /\ \/ pc'[s] = "dialing" /\ ws'[s] = "connecting"
         \/ pc'[s] = "rejected" /\ ws'[s] = ws[s]
      /\ UNCHANGED <<openCh, in, closed, handler, events, far, out, screen, hungUp>>
      /\ \A r \in Sessions : r # s => Same(r)
  BY TypeParts DEF NetsoConnect, BadKey, Calls, GoTypes, Same, ghosts
<1>2. Local(s)  BY DEF Chain
<1>3. Local(s)'
  BY <1>1, <1>2 DEF Local, Before, Fresh, Dialing, Queued, Coming, Gone, Rest, Talking, Holding
<1> QED  BY <1>1, <1>3, ChainFrame

LEMMA ChainDialFails ==
  ASSUME TypeOK, Chain, NEW s \in Sessions, DialFails(s) PROVE Chain'
<1>1. /\ pc[s] = "dialing" /\ pc'[s] = "over" /\ closed'[s] = TRUE /\ ws'[s] = "closed"
      /\ UNCHANGED <<openCh, in, handler, events, far, out, screen, hungUp>>
      /\ \A r \in Sessions : r # s => Same(r)
  BY TypeParts DEF DialFails, Over, CloseConn, GoTypes, Flags, Same, ghosts
<1>2. Local(s)  BY DEF Chain
<1>3. Local(s)'
  BY <1>1, <1>2 DEF Local, Before, Fresh, Dialing, Queued, Coming, Gone, Rest, Talking, Holding
<1> QED  BY <1>1, <1>3, ChainFrame

\* A session given up: a message may still be in the handler's hands.
LEMMA ChainGivesUp ==
  ASSUME TypeOK, Chain, NEW s \in Sessions, GivesUp(s) PROVE Chain'
<1>1. /\ (pc[s] = "dialing" /\ openCh[s] = "ok") \/ (pc[s] = "handshake" /\ in[s] # <<>>)
      /\ pc'[s] = "over" /\ closed'[s] = TRUE /\ ws'[s] = "closed" /\ hungUp'[s] = TRUE
      /\ UNCHANGED <<openCh, handler, events, far, out, screen>>
      /\ \A r \in Sessions : r # s => Same(r)
  BY TypeParts DEF GivesUp, ReadMsg, Over, CloseConn, GoTypes, Flags, OutputTypes, Same
<1>2. Local(s)  BY DEF Chain
<1>3. Local(s)'
  BY <1>1, <1>2 DEF Local, Before, Fresh, Dialing, Queued, Coming, Gone, Rest, Talking, Holding
<1> QED  BY <1>1, <1>3, ChainFrame

LEMMA ChainDialed ==
  ASSUME TypeOK, Chain, NEW s \in Sessions, Dialed(s) PROVE Chain'
<1>1. /\ pc[s] = "dialing" /\ openCh[s] = "ok" /\ pc'[s] = "handshake"
      /\ far'[s] = IF ws[s] = "open" THEN "hello" ELSE far[s]
      /\ UNCHANGED <<openCh, in, closed, handler, ws, events, out, screen, hungUp>>
      /\ \A r \in Sessions : r # s => Same(r)
  BY TypeParts DEF Dialed, GoTypes, Same, ghosts
<1>2. Local(s) /\ events[s] \in Seq(Tasks)  BY TypeParts DEF Chain, EventTypes
<1>3. ~Holding(s) /\ Fresh(s) /\ ~closed[s] BY <1>1, <1>2 DEF Local, Rest, Talking, Dialing
<1>4. ToRead(s)' = 0 /\ ToCome(s)' = 0 /\ LastSent(s)' = -1
  BY <1>1, <1>3 DEF ToRead, ToCome, LastSent, Holding, Fresh
<1>5. Coming(s)'
  BY <1>1, <1>2, <1>3, <1>4 DEF Local, Coming, Dialing, IsEnd
<1>6. Before(s)' /\ Dialing(s)' /\ Queued(s)' /\ Gone(s)' /\ Rest(s)'
  BY <1>1, <1>2, <1>3 DEF Local, Before, Fresh, Dialing, Queued, Gone, Rest, Talking, Holding
<1> QED  BY <1>1, <1>5, <1>6, ChainFrame DEF Local

LEMMA ChainConnected ==
  ASSUME TypeOK, Chain, NEW s \in Sessions, Connected(s) PROVE Chain'
<1>1. /\ pc[s] = "handshake" /\ pc'[s] = "reading" /\ in[s] # <<>> /\ in'[s] = Tail(in[s])
      /\ UNCHANGED <<openCh, closed, handler, ws, events, far, out, screen, hungUp>>
      /\ \A r \in Sessions : r # s => Same(r)
  BY TypeParts DEF Connected, ReadMsg, GoTypes, OutputTypes, Same, world, ghosts
<1>2. Local(s) /\ in[s] \in Seq(0 .. MaxOut) /\ screen[s] = <<>>
  BY <1>1, TypeParts DEF Chain, OutputTypes, Local, Queued, Talking
<1>3. /\ Len(in[s]) \in Nat \ {0} /\ Len(in'[s]) = Len(in[s]) - 1
      /\ \A i \in 1 .. Len(in[s]) - 1 : in'[s][i] = in[s][i + 1]
      /\ in'[s] \in Seq(0 .. MaxOut)
  BY <1>1, <1>2, TakeFirst
<1>4. /\ ToRead(s) = 0 /\ ToRead(s)' = 1 /\ ToCome(s)' = ToCome(s) /\ LastSent(s)' = LastSent(s)
      /\ (Holding(s)' <=> Holding(s))
  <2>1. (Holding(s)' <=> Holding(s)) /\ LastSent(s)' = LastSent(s)
    BY <1>1 DEF LastSent, Holding
  <2>2. ToRead(s) = 0 /\ ToRead(s)' = 1  BY <1>1, <1>2 DEF ToRead
  <2>3. ToCome(s)' = 1 + (Len(in[s]) - 1) + (IF Holding(s) THEN 1 ELSE 0)
    BY <1>3, <2>1, <2>2 DEF ToCome
  <2>4. ToCome(s) = 0 + Len(in[s]) + (IF Holding(s) THEN 1 ELSE 0)  BY <2>2 DEF ToCome
  <2>5. ToCome(s)' = ToCome(s)  BY <1>3, <2>3, <2>4
  <2> QED  BY <2>1, <2>2, <2>5
<1>5. Coming(s)'  BY <1>1, <1>2, <1>4 DEF Local, Coming, Talking, IsEnd
<1>6. Queued(s)'
  <2>1. \A i \in DOMAIN in'[s] : in'[s][i] = 1 + i - 1
    BY <1>1, <1>2, <1>3, <1>4 DEF Local, Queued, Talking
  <2> QED  BY <1>1, <1>2, <1>3, <1>4, <2>1 DEF Local, Queued, Talking
<1>7. Before(s)' /\ Dialing(s)' /\ Gone(s)' /\ Rest(s)'
  BY <1>1, <1>2, <1>4 DEF Local, Before, Dialing, Gone, Rest, Talking
<1> QED  BY <1>1, <1>5, <1>6, <1>7, ChainFrame DEF Local

LEMMA ChainHandshakeFails ==
  ASSUME TypeOK, Chain, NEW s \in Sessions, HandshakeFails(s) \/ ReaderEnds(s) PROVE Chain'
<1>1. /\ Talking(s) /\ closed[s] /\ pc'[s] = "over" /\ closed'[s] = TRUE /\ ws'[s] = "closed"
      /\ UNCHANGED <<openCh, in, handler, events, far, out, screen, hungUp>>
      /\ \A r \in Sessions : r # s => Same(r)
  <2>1. CASE HandshakeFails(s)
    BY <2>1, TypeParts DEF HandshakeFails, ReadMsgFails, Over, CloseConn, GoTypes, Flags, Same,
       Talking, ghosts
  <2>2. CASE ReaderEnds(s)
    <3>1. ws[s] = "closed"  BY <2>2 DEF ReaderEnds, ReadMsgFails, Chain, Local, Gone
    <3> QED
      BY <2>2, <3>1, TypeParts DEF ReaderEnds, ReadMsgFails, Over, GoTypes, Flags, Same,
         Talking, world, ghosts
  <2> QED  BY <2>1, <2>2
<1>2. Local(s)  BY DEF Chain
<1>3. hungUp[s] \/ Len(screen[s]) = out[s]
  <2>1. hungUp[s] \/ ToRead(s) - 1 = LastSent(s)  BY <1>1, <1>2 DEF Local, Gone
  <2>2. screen[s] \in Seq(0 .. MaxOut) /\ out[s] \in Nat
    BY TypeParts, BoundsAssumption DEF OutputTypes, EventTypes
  <2>3. CASE pc[s] = "handshake"
    <3>1. ToRead(s) = 0 /\ screen[s] = <<>>  BY <1>2, <2>3 DEF Local, Queued, Talking, ToRead
    <3>2. hungUp[s] \/ LastSent(s) = -1  BY <2>1, <2>2, <3>1 DEF LastSent
    <3>3. hungUp[s] \/ out[s] = 0  BY <1>2, <2>2, <3>2 DEF Local, Rest, LastSent
    <3> QED  BY <3>1, <3>3
  <2>4. CASE pc[s] = "reading"
    <3>1. ToRead(s) = Len(screen[s]) + 1 /\ Len(screen[s]) \in Nat  BY <2>2, <2>4 DEF ToRead
    <3>2. hungUp[s] \/ LastSent(s) = Len(screen[s])  BY <2>1, <3>1
    <3> QED  BY <2>2, <3>1, <3>2 DEF LastSent
  <2> QED  BY <1>1, <2>3, <2>4 DEF Talking
<1>4. ~Holding(s)  BY <1>1, <1>2 DEF Local, Rest, Talking
<1>5. Local(s)'
  BY <1>1, <1>2, <1>3, <1>4 DEF Local, Before, Dialing, Queued, Coming, Gone, Rest, Talking, Holding
<1> QED  BY <1>1, <1>5, ChainFrame

\* Where a message is counted.
LEMMA MovesOn ==
  ASSUME NEW a \in Nat, NEW b \in Nat, NEW h \in {0, 1}
  PROVE  (a + 1) + (b - 1) = a + b /\ (a + 1) + (b - 1) + h = a + b + h
OBVIOUS

LEMMA ChainShow == ASSUME TypeOK, Chain, NEW s \in Sessions, Show(s) PROVE Chain'
<1>1. /\ pc[s] = "reading" /\ in[s] # <<>> /\ in'[s] = Tail(in[s])
      /\ screen'[s] = Append(screen[s], Head(in[s]))
      /\ UNCHANGED <<pc, openCh, closed, handler, ws, events, far, out, hungUp>>
      /\ \A r \in Sessions : r # s => Same(r)
  BY TypeParts DEF Show, ReadMsg, OutputTypes, Same, world
<1>2. Local(s) /\ in[s] \in Seq(0 .. MaxOut) /\ screen[s] \in Seq(0 .. MaxOut)
  BY TypeParts DEF Chain, OutputTypes
<1>3. /\ Len(in[s]) \in Nat \ {0} /\ Len(in'[s]) = Len(in[s]) - 1 /\ Head(in[s]) = in[s][1]
      /\ \A i \in 1 .. Len(in[s]) - 1 : in'[s][i] = in[s][i + 1]
      /\ in'[s] \in Seq(0 .. MaxOut) /\ Head(in[s]) \in 0 .. MaxOut
  BY <1>1, <1>2, TakeFirst
<1>4. /\ Len(screen'[s]) = Len(screen[s]) + 1 /\ Len(screen[s]) \in Nat
      /\ \A i \in 1 .. Len(screen[s]) + 1 :
           screen'[s][i] = IF i = Len(screen[s]) + 1 THEN Head(in[s]) ELSE screen[s][i]
      /\ screen'[s] \in Seq(0 .. MaxOut)
  BY <1>1, <1>2, <1>3, AddLast
<1>5. /\ ToRead(s) = Len(screen[s]) + 1 /\ ToRead(s)' = ToRead(s) + 1 /\ ToRead(s) \in Nat
      /\ ToCome(s)' = ToCome(s) /\ LastSent(s)' = LastSent(s)
      /\ (Holding(s)' <=> Holding(s)) /\ Talking(s)
  <2>1. (Holding(s)' <=> Holding(s)) /\ LastSent(s)' = LastSent(s) /\ Talking(s)
    BY <1>1 DEF LastSent, Holding, Talking
  <2>2. ToRead(s) = Len(screen[s]) + 1 /\ ToRead(s)' = Len(screen[s]) + 1 + 1
    BY <1>1, <1>4 DEF ToRead
  <2>3. PICK a \in Nat : a = Len(screen[s]) + 1  BY <1>4
  <2>4. PICK b \in Nat : b = Len(in[s])  BY <1>3
  <2>5. PICK h \in {0, 1} : h = IF Holding(s) THEN 1 ELSE 0  OBVIOUS
  <2>6. Len(in'[s]) = b - 1  BY <1>3, <2>4
  <2>7. ToCome(s)' = (a + 1) + (b - 1) + h
    BY <2>1, <2>2, <2>3, <2>5, <2>6 DEF ToCome
  <2>8. ToCome(s) = a + b + h  BY <2>2, <2>3, <2>4, <2>5 DEF ToCome
  <2>9. ToCome(s)' = ToCome(s)  BY <2>7, <2>8, MovesOn
  <2> QED  BY <1>4, <2>1, <2>2, <2>9
<1>6. Coming(s)'  BY <1>1, <1>2, <1>5 DEF Local, Coming, Talking, IsEnd
<1>7. \A i \in 1 .. Len(in[s]) : in[s][i] = ToRead(s) + i - 1
  BY <1>2, <1>5 DEF Local, Queued
<1>8. Queued(s)'
  <2>1. \A i \in 1 .. Len(in[s]) - 1 : in'[s][i] = ToRead(s) + (i + 1) - 1
    <3>1. \A i \in 1 .. Len(in[s]) - 1 : i + 1 \in 1 .. Len(in[s])  BY <1>3
    <3> QED  BY <1>3, <1>7, <3>1
  <2>2. \A i \in DOMAIN in'[s] : i \in 1 .. Len(in[s]) - 1 /\ i \in Int  BY <1>3
  <2>3. PICK k \in Nat : k = ToRead(s) /\ ToRead(s)' = k + 1  BY <1>5
  <2>4. \A i \in DOMAIN in'[s] : in'[s][i] = ToRead(s)' + i - 1
    <3>1. \A i \in DOMAIN in'[s] : in'[s][i] = k + (i + 1) - 1  BY <2>1, <2>2, <2>3
    <3>2. \A i \in Int : k + (i + 1) - 1 = (k + 1) + i - 1  OBVIOUS
    <3> QED  BY <2>2, <2>3, <3>1, <3>2
  <2>5. Holding(s)' => handler'[2] = ToRead(s)' + Len(in'[s])
    <3>1. Holding(s) => handler[2] = k + Len(in[s])  BY <1>2, <1>5, <2>3 DEF Local, Queued
    <3>2. Len(in[s]) \in Nat  BY <1>3
    <3>3. (k + 1) + (Len(in[s]) - 1) = k + Len(in[s])  BY <3>2, MovesOn
    <3> QED  BY <1>1, <1>3, <1>5, <2>3, <3>1, <3>3
  <2>6. pc'[s] # "handshake"  BY <1>1
  <2> QED  BY <2>4, <2>5, <2>6 DEF Queued
<1>9. Rest(s)'
  <2>1. \A i \in DOMAIN screen'[s] : screen'[s][i] = i
    <3>1. Head(in[s]) = Len(screen[s]) + 1  BY <1>3, <1>4, <1>5, <1>7
    <3>2. \A i \in 1 .. Len(screen[s]) : screen[s][i] = i  BY <1>2 DEF Local, Rest
    <3>3. DOMAIN screen'[s] = 1 .. Len(screen[s]) + 1  BY <1>4
    <3>4. \A i \in 1 .. Len(screen[s]) + 1 :
            i = Len(screen[s]) + 1 \/ i \in 1 .. Len(screen[s])
      BY <1>4
    <3> QED  BY <1>4, <3>1, <3>2, <3>3, <3>4
  <2> QED  BY <1>1, <1>2, <1>5, <2>1 DEF Local, Rest, Talking
<1>10. Before(s)' /\ Dialing(s)' /\ Gone(s)'
  BY <1>1, <1>2, <1>5 DEF Local, Before, Dialing, Gone, Talking
<1> QED  BY <1>1, <1>6, <1>8, <1>9, <1>10, ChainFrame DEF Local

\* A task of a session's websocket, taken from the front of its queue.
LEMMA TaskFacts ==
  ASSUME TypeOK, NEW s \in Sessions, NEW kind, Task(s, kind)
  PROVE  /\ GoIdle /\ events[s] # <<>> /\ events[s][1][1] = kind /\ events[s][1] \in Tasks
         /\ Head(events[s]) = events[s][1]
         /\ Len(events[s]) \in Nat \ {0} /\ Len(events'[s]) = Len(events[s]) - 1
         /\ events'[s] \in Seq(Tasks)
         /\ \A i \in 1 .. Len(events[s]) - 1 : events'[s][i] = events[s][i + 1]
         /\ \A r \in Sessions : r # s => events'[r] = events[r]
         /\ UNCHANGED <<pc, in, far, out, screen, hungUp>>
<1>1. /\ GoIdle /\ events[s] # <<>> /\ Head(events[s])[1] = kind
      /\ events' = [events EXCEPT ![s] = Tail(@)]
      /\ UNCHANGED <<pc, in, far, out, screen, hungUp>>
  BY DEF Task, ghosts
<1>2. events \in [Sessions -> Seq(Tasks)]  BY TypeParts DEF EventTypes
<1>3. events'[s] = Tail(events[s]) /\ \A r \in Sessions : r # s => events'[r] = events[r]
  BY <1>1, <1>2
<1> QED  BY <1>1, <1>2, <1>3, TakeFirst

\* The first task of a session that dials is never a message or a close; that
\* of one that talks is the next message or, after them all, an end.
LEMMA FirstTask ==
  ASSUME TypeOK, Chain, NEW s \in Sessions, GoIdle, events[s] # <<>>
  PROVE  /\ pc[s] \notin {"unused", "rejected"}
         /\ pc[s] = "dialing" => events[s][1][1] \in {"open", "error"} /\ openCh[s] = "empty"
         /\ Talking(s) =>
              /\ in[s] = <<>> /\ ~closed[s] /\ ToCome(s) = ToRead(s)
              /\ IF ToRead(s) <= LastSent(s) THEN events[s][1] = <<"msg", ToRead(s)>>
                 ELSE IsEnd(events[s][1]) /\ LastSent(s) = ToRead(s) - 1
<1>1. Local(s) /\ events[s] \in Seq(Tasks) /\ out[s] \in Nat /\ screen[s] \in Seq(0 .. MaxOut)
  BY TypeParts, BoundsAssumption DEF Chain, EventTypes, OutputTypes
<1>2. 1 \in DOMAIN events[s]  BY <1>1
<1>3. pc[s] \notin {"unused", "rejected"}  BY <1>1 DEF Local, Before
<1>4. pc[s] = "dialing" => events[s][1][1] \in {"open", "error"} /\ openCh[s] = "empty"
  BY <1>1, IdleFacts DEF Local, Dialing
<1>5. ASSUME Talking(s)
      PROVE  /\ in[s] = <<>> /\ ~closed[s] /\ ToCome(s) = ToRead(s)
             /\ IF ToRead(s) <= LastSent(s) THEN events[s][1] = <<"msg", ToRead(s)>>
                ELSE IsEnd(events[s][1]) /\ LastSent(s) = ToRead(s) - 1
  <2>1. in[s] = <<>> /\ ~closed[s] /\ ~Holding(s)  BY <1>5, IdleFacts
  <2>2. ToRead(s) \in Nat /\ LastSent(s) \in Int  BY <1>1 DEF ToRead, LastSent
  <2>3. ToCome(s) = ToRead(s)  BY <2>1, <2>2 DEF ToCome
  <2>4. /\ IF ToCome(s) + 1 - 1 <= LastSent(s) THEN events[s][1] = <<"msg", ToCome(s) + 1 - 1>>
                                               ELSE IsEnd(events[s][1])
        /\ ToCome(s) - 1 <= LastSent(s)
    BY <1>1, <1>2, <1>5, <2>1 DEF Local, Coming
  <2>5. PICK k \in Nat, l \in Int : k = ToRead(s) /\ l = LastSent(s)  BY <2>2
  <2>6. k + 1 - 1 = k /\ (~(k <= l) /\ k - 1 <= l => l = k - 1)  OBVIOUS
  <2> QED  BY <2>1, <2>3, <2>4, <2>5, <2>6
<1> QED  BY <1>3, <1>4, <1>5

LEMMA ChainOnOpen == ASSUME TypeOK, Chain, NEW s \in Sessions, OnOpen(s) PROVE Chain'
<1>1. /\ Task(s, "open") /\ UNCHANGED <<closed, handler, ws>>
      /\ openCh'[s] = IF openCh[s] = "empty" THEN "ok" ELSE openCh[s]
      /\ \A r \in Sessions : r # s => openCh'[r] = openCh[r]
  BY TypeParts DEF OnOpen, Signal, GoTypes
<1>2. Local(s)  BY DEF Chain
<1>3. \A r \in Sessions : r # s => Same(r)  BY <1>1, TaskFacts DEF Same
<1>4. pc[s] \in {"dialing", "over"}
  <2>1. ~Talking(s)
    BY <1>1, TaskFacts, FirstTask DEF IsEnd
  <2> QED  BY <1>1, <2>1, TaskFacts, FirstTask, TypeParts DEF GoTypes, Talking
<1>5. Dialing(s)'
  <2>1. CASE pc[s] = "dialing"
    <3>1. /\ openCh[s] = "empty" /\ events[s] # <<>> /\ Len(events[s]) \in Nat
          /\ \A i \in 1 .. Len(events[s]) - 1 : i + 1 \in DOMAIN events[s] /\ i + 1 > 1
      BY <1>1, <2>1, TaskFacts, FirstTask, TypeParts DEF EventTypes
    <3>2. \A i \in 1 .. Len(events[s]) - 1 : IsEnd(events[s][i + 1])
      BY <1>2, <2>1, <3>1 DEF Local, Dialing
    <3>3. DOMAIN events'[s] = 1 .. Len(events[s]) - 1  BY <1>1, TaskFacts
    <3>4. \A i \in DOMAIN events'[s] : IsEnd(events[s][i])'
      BY <1>1, <3>2, <3>3, TaskFacts DEF IsEnd
    <3>5. Len(events[s]) = 1 => events'[s] = <<>>  BY <1>1, <3>3, TaskFacts
    <3> QED
      BY <1>1, <1>2, <2>1, <3>1, <3>4, <3>5, TaskFacts DEF Local, Dialing, Fresh
  <2>2. CASE pc[s] = "over"  BY <1>1, <2>2, TaskFacts DEF Dialing
  <2> QED  BY <1>4, <2>1, <2>2
<1>6. Before(s)' /\ Queued(s)' /\ Coming(s)'
  BY <1>1, <1>4, TaskFacts DEF Before, Queued, Coming, Talking
<1>7. Gone(s)' /\ Rest(s)'
  BY <1>1, <1>2, <1>4, TaskFacts DEF Local, Gone, Rest, Talking, Holding
<1> QED  BY <1>1, <1>3, <1>5, <1>6, <1>7, ChainFrame DEF Local

\* A session whose connection its websocket ends: all it was sent is read.
LEMMA ChainEnds ==
  ASSUME TypeOK, Chain, NEW s \in Sessions, OnError(s) \/ OnCloseEvent(s)
  PROVE  Chain'
<1>1. /\ Task(s, "error") \/ Task(s, "close")
      /\ closed'[s] = TRUE /\ ws'[s] = "closed" /\ UNCHANGED handler
      /\ \A r \in Sessions : r # s => closed'[r] = closed[r] /\ ws'[r] = ws[r]
      /\ \A r \in Sessions : r # s => openCh'[r] = openCh[r]
      /\ OnError(s) /\ ~closed[s] /\ openCh[s] = "empty" => openCh'[s] = "error"
      /\ OnError(s) => Task(s, "error")
      /\ OnCloseEvent(s) => Task(s, "close")
  BY TypeParts DEF OnError, OnCloseEvent, Signal, CloseConn, GoTypes, Flags
<1>2. Local(s) /\ GoIdle /\ events[s] # <<>>  BY <1>1, TaskFacts DEF Chain
<1>3. \A r \in Sessions : r # s => Same(r)  BY <1>1, TaskFacts DEF Same
<1>4. pc[s] \notin {"unused", "rejected"}  BY <1>2, FirstTask
<1>5. Dialing(s)'
  <2>1. CASE pc[s] = "dialing"
    <3>1. Task(s, "error") /\ openCh[s] = "empty"
      <4>1. events[s][1][1] \in {"open", "error"} /\ openCh[s] = "empty"
        BY <1>2, <2>1, FirstTask
      <4>2. ~Task(s, "close")  BY <4>1, TaskFacts
      <4> QED  BY <1>1, <4>1, <4>2
    <3>2. ~closed[s] /\ Fresh(s)  BY <1>2, <2>1, <3>1 DEF Local, Dialing
    <3>3. ~Task(s, "close")
      <4>1. Task(s, "close") => events[s][1][1] = "close"  BY TaskFacts
      <4>2. events[s][1][1] = "error"  BY <3>1, TaskFacts
      <4> QED  BY <4>1, <4>2
    <3>4. openCh'[s] = "error"  BY <1>1, <3>1, <3>2, <3>3
    <3> QED  BY <1>1, <3>1, <3>2, <3>4, TaskFacts DEF Dialing, Fresh
  <2>2. CASE pc[s] # "dialing"  BY <1>1, <2>2, TaskFacts DEF Dialing
  <2> QED  BY <2>1, <2>2
<1>6. Queued(s)'
  BY <1>1, <1>2, TaskFacts, IdleFacts DEF Local, Queued, Talking, ToRead, Holding
<1>7. Gone(s)'
  <2>1. ASSUME Talking(s) PROVE in[s] = <<>> /\ ToRead(s) - 1 = LastSent(s)
    <3>1. IsEnd(events[s][1])  BY <1>1, TaskFacts DEF IsEnd
    <3>2. ~(ToRead(s) <= LastSent(s))
      <4>1. events[s][1] # <<"msg", ToRead(s)>>  BY <3>1 DEF IsEnd
      <4> QED  BY <1>2, <2>1, <4>1, FirstTask
    <3> QED  BY <1>2, <2>1, <3>2, FirstTask
  <2> QED
    BY <1>1, <1>2, <2>1, TaskFacts DEF Local, Gone, Talking, ToRead, LastSent
<1>8. Before(s)' /\ Coming(s)' /\ Rest(s)'
  BY <1>1, <1>2, <1>4, TaskFacts, IdleFacts DEF Local, Before, Coming, Rest, Holding
<1> QED  BY <1>1, <1>3, <1>5, <1>6, <1>7, <1>8, ChainFrame DEF Local

\* The next message goes to the handler, or past a connection that is closed.
LEMMA ChainOnMessage == ASSUME TypeOK, Chain, NEW s \in Sessions, OnMessage(s) PROVE Chain'
<1>1. /\ Task(s, "msg") /\ UNCHANGED <<openCh, closed, ws>>
      /\ handler' = IF closed[s] THEN Nil ELSE <<s, Head(events[s])[2]>>
  BY DEF OnMessage
<1>2. Local(s) /\ GoIdle /\ events[s] # <<>> /\ handler = Nil /\ ~Holding(s)
  BY <1>1, TaskFacts, IdleFacts DEF Chain
<1>3. \A r \in Sessions : r # s => Same(r)  BY <1>1, TaskFacts DEF Same
<1>4. \A r \in Sessions : r # s => SameHandler(r)
  <2>1. handler' = Nil \/ handler'[1] = s  BY <1>1
  <2> QED  BY <1>2, <2>1 DEF SameHandler, Holding
<1>5. Local(s)'
  <2>1. CASE Talking(s)
    <3>1. /\ in[s] = <<>> /\ ~closed[s] /\ ToCome(s) = ToRead(s)
          /\ ToRead(s) <= LastSent(s) /\ events[s][1] = <<"msg", ToRead(s)>>
      <4>1. ~IsEnd(events[s][1])  BY <1>1, TaskFacts DEF IsEnd
      <4> QED  BY <1>2, <2>1, <4>1, FirstTask
    <3>2. PICK k \in Nat, l \in Int : k = ToRead(s) /\ l = LastSent(s)
      <4>1. screen[s] \in Seq(0 .. MaxOut) /\ out[s] \in Nat
        BY TypeParts, BoundsAssumption DEF OutputTypes, EventTypes
      <4> QED  BY <4>1 DEF ToRead, LastSent
    <3>3. handler' = <<s, k>>  BY <1>1, <3>1, <3>2, TaskFacts
    <3>4. handler' # Nil
      <4>1. <<s, k>> \in Sessions \X Nat  OBVIOUS
      <4> QED  BY <3>3, <4>1, SessionsAssumption
    <3>5. Holding(s)' /\ handler'[2] = k  BY <3>3, <3>4 DEF Holding
    <3>6. ToRead(s)' = k /\ LastSent(s)' = l /\ (Talking(s)' <=> Talking(s))
      BY <1>1, <3>2, TaskFacts DEF ToRead, LastSent, Talking
    <3>7. in'[s] = <<>> /\ Len(in'[s]) = 0  BY <1>1, <3>1, TaskFacts
    <3>8. ToCome(s)' = k + 1  BY <3>5, <3>6, <3>7 DEF ToCome
    <3>9. Queued(s)'
      BY <1>1, <1>2, <2>1, <3>5, <3>6, <3>7, TaskFacts DEF Local, Queued, Talking
    <3>10. Coming(s)'
      <4>1. /\ ws[s] \in {"open", "closed"}
            /\ k - 1 <= l /\ l <= k - 1 + Len(events[s])
            /\ ws[s] = "open" => l = k - 1 + Len(events[s])
            /\ \A i \in DOMAIN events[s] :
                 IF k + i - 1 <= l THEN events[s][i] = <<"msg", k + i - 1>>
                                   ELSE IsEnd(events[s][i])
        BY <1>2, <2>1, <3>1, <3>2 DEF Local, Coming
      <4>2. PICK n \in Nat \ {0} : n = Len(events[s]) /\ Len(events'[s]) = n - 1
        BY <1>1, TaskFacts
      <4>3. k + 1 - 1 <= l /\ l <= k + 1 - 1 + (n - 1)  BY <3>1, <3>2, <4>1, <4>2
      <4>4. ws[s] = "open" => l = k + 1 - 1 + (n - 1)  BY <4>1, <4>2
      <4>5. /\ \A i \in DOMAIN events'[s] : i \in Nat /\ i + 1 \in DOMAIN events[s]
                                            /\ events'[s][i] = events[s][i + 1]
        <5>1. events[s] \in Seq(Tasks) /\ events'[s] \in Seq(Tasks)
          BY <1>1, TaskFacts, TypeParts DEF EventTypes
        <5>2. DOMAIN events[s] = 1 .. n /\ DOMAIN events'[s] = 1 .. n - 1  BY <4>2, <5>1
        <5>3. \A i \in 1 .. n - 1 : events'[s][i] = events[s][i + 1]  BY <1>1, <4>2, TaskFacts
        <5>4. \A i \in 1 .. n - 1 : i \in Nat /\ i + 1 \in 1 .. n  BY <4>2
        <5> QED  BY <5>2, <5>3, <5>4
      <4>6. \A i \in DOMAIN events'[s] :
              IF k + 1 + i - 1 <= l THEN events'[s][i] = <<"msg", k + 1 + i - 1>>
                                    ELSE IsEnd(events'[s][i])
        <5>1. \A i \in Nat : k + (i + 1) - 1 = k + 1 + i - 1  OBVIOUS
        <5> QED  BY <4>1, <4>5, <5>1
      <4> QED
        BY <1>1, <3>6, <3>8, <4>1, <4>2, <4>3, <4>4, <4>6 DEF Coming, IsEnd
    <3>11. Gone(s)' /\ Rest(s)'
      BY <1>1, <1>2, <2>1, <3>1, TaskFacts DEF Local, Gone, Rest, Talking
    <3>12. Before(s)' /\ Dialing(s)'
      BY <1>1, <2>1, TaskFacts DEF Before, Dialing, Talking
    <3> QED  BY <3>9, <3>10, <3>11, <3>12 DEF Local
  <2>2. CASE ~Talking(s)
    <3>1. pc[s] = "over"
      <4>1. pc[s] \notin {"unused", "rejected"}  BY <1>2, FirstTask
      <4>2. pc[s] # "dialing"
        <5>1. events[s][1][1] = "msg"  BY <1>1, TaskFacts
        <5> QED  BY <1>2, <5>1, FirstTask
      <4> QED  BY <2>2, <4>1, <4>2, TypeParts DEF GoTypes, Talking
    <3>2. handler' = Nil  BY <1>1, <1>2, <3>1 DEF Local, Gone
    <3> QED
      BY <1>1, <1>2, <3>1, <3>2, TaskFacts
      DEF Local, Before, Dialing, Queued, Coming, Gone, Rest, Talking, Holding
  <2> QED  BY <2>1, <2>2
<1> QED  BY <1>3, <1>4, <1>5, LocalFrame DEF Chain

\* The handler delivers: a connection is closed under it only when its session
\* is given up, and then nobody reads what it delivers.
LEMMA ChainTooLate ==
  ASSUME TypeOK, Chain, HandlerReturns, NEW s \in Sessions, handler[1] = s, closed[s]
  PROVE  Chain'
<1>1. /\ handler # Nil /\ handler' = Nil
      /\ UNCHANGED <<pc, openCh, closed, ws, events, far, out, screen, hungUp>>
      /\ \A r \in Sessions : r # s => in'[r] = in[r]
  BY TypeParts DEF HandlerReturns, OutputTypes, world, ghosts
<1>2. Local(s) /\ pc[s] = "over"  BY <1>1 DEF Chain, Local, Rest, Holding
<1>3. Local(s)'
  BY <1>1, <1>2 DEF Local, Before, Dialing, Queued, Coming, Gone, Rest, Talking, Holding
<1>4. \A r \in Sessions : r # s => Same(r) /\ SameHandler(r)
  BY <1>1 DEF Same, SameHandler, Holding
<1> QED  BY <1>3, <1>4, LocalFrame DEF Chain

LEMMA ChainHandler ==
  ASSUME TypeOK, Chain, HandlerReturns, ~closed[handler[1]]
  PROVE  Chain'
<1>1. PICK s \in Sessions, m \in 0 .. MaxOut : handler = <<s, m>> /\ handler # Nil
  BY TypeParts DEF HandlerReturns, OutputTypes
<1>2. /\ Local(s) /\ Holding(s) /\ in[s] \in Seq(0 .. MaxOut) /\ screen[s] \in Seq(0 .. MaxOut)
      /\ in \in [Sessions -> Seq(0 .. MaxOut)]
  BY <1>1, TypeParts DEF Chain, Holding, OutputTypes
<1>3. Talking(s) /\ ~closed[s]  BY <1>1, <1>2 DEF Local, Rest
<1>4. /\ handler' = Nil /\ in' = [in EXCEPT ![s] = Append(@, m)]
      /\ UNCHANGED <<pc, openCh, closed, ws, events, far, out, screen, hungUp>>
  BY <1>1, <1>3 DEF HandlerReturns, world, ghosts
<1>5. in'[s] = Append(in[s], m) /\ \A r \in Sessions : r # s => in'[r] = in[r]
  BY <1>2, <1>4
<1>6. PICK k \in Nat, n \in Nat : k = ToRead(s) /\ n = Len(in[s])
  BY <1>2 DEF ToRead
<1>7. m = k + n /\ \A i \in 1 .. n : in[s][i] = k + i - 1
  <2>1. handler[2] = ToRead(s) + Len(in[s]) /\ \A i \in DOMAIN in[s] : in[s][i] = ToRead(s) + i - 1
    BY <1>2, <1>3 DEF Local, Queued
  <2>2. handler[2] = m /\ DOMAIN in[s] = 1 .. n  BY <1>1, <1>2, <1>6
  <2> QED  BY <1>6, <2>1, <2>2
<1>8. Len(in'[s]) = n + 1 /\ \A i \in 1 .. n + 1 : in'[s][i] = IF i = n + 1 THEN m ELSE in[s][i]
  BY <1>2, <1>5, <1>6, AddLast
<1>9. in'[s] \in Seq(0 .. MaxOut)  BY <1>2, <1>5, AddLast
<1>10. ~Holding(s)' /\ ToRead(s)' = k /\ LastSent(s)' = LastSent(s) /\ (Talking(s)' <=> Talking(s))
  BY <1>4, <1>6 DEF Holding, ToRead, LastSent, Talking
<1>11. ToCome(s)' = ToCome(s)
  <2>1. ToCome(s)' = k + (n + 1) + 0  BY <1>8, <1>10 DEF ToCome
  <2>2. ToCome(s) = k + n + 1  BY <1>2, <1>6 DEF ToCome
  <2> QED  BY <2>1, <2>2
<1>12. Queued(s)'
  <2>1. \A i \in 1 .. n + 1 : in'[s][i] = k + i - 1
    <3>1. \A i \in 1 .. n + 1 : i \in 1 .. n \/ (i = n + 1 /\ k + i - 1 = k + n)  OBVIOUS
    <3>2. n + 1 \notin 1 .. n  OBVIOUS
    <3> QED  BY <1>7, <1>8, <3>1, <3>2
  <2>2. DOMAIN in'[s] = 1 .. n + 1  BY <1>8, <1>9
  <2> QED  BY <1>2, <1>3, <1>4, <1>10, <2>1, <2>2 DEF Local, Queued, Talking
<1>13. Coming(s)'  BY <1>2, <1>3, <1>4, <1>10, <1>11 DEF Local, Coming, IsEnd
<1>14. Gone(s)' /\ Rest(s)'  BY <1>2, <1>3, <1>4, <1>10 DEF Local, Gone, Rest, Talking
<1>15. Before(s)' /\ Dialing(s)'  BY <1>3, <1>4 DEF Before, Dialing, Talking
<1>16. Local(s)'  BY <1>12, <1>13, <1>14, <1>15 DEF Local
<1>17. \A r \in Sessions : r # s => Same(r) /\ SameHandler(r)
  BY <1>1, <1>4, <1>5 DEF Same, SameHandler, Holding
<1> QED  BY <1>16, <1>17, LocalFrame DEF Chain

\* What the network adds to a queue of tasks.
LEMMA QueueFacts ==
  ASSUME TypeOK, NEW s \in Sessions, NEW t \in Seq(Tasks), Queue(s, t), Outside
  PROVE  /\ Len(events[s]) \in Nat /\ Len(t) \in Nat
         /\ Len(events'[s]) = Len(events[s]) + Len(t) /\ events'[s] \in Seq(Tasks)
         /\ \A i \in 1 .. Len(events[s]) + Len(t) :
              events'[s][i] = IF i <= Len(events[s]) THEN events[s][i] ELSE t[i - Len(events[s])]
         /\ \A r \in Sessions : r # s => events'[r] = events[r]
         /\ UNCHANGED <<pc, openCh, in, closed, handler, screen, hungUp>>
<1>1. events \in [Sessions -> Seq(Tasks)]  BY TypeParts DEF EventTypes
<1>2. events'[s] = events[s] \o t /\ \A r \in Sessions : r # s => events'[r] = events[r]
  BY <1>1 DEF Queue
<1>3. UNCHANGED <<pc, openCh, in, closed, handler, screen, hungUp>>  BY DEF Outside, go, ghosts
<1> QED  BY <1>1, <1>2, <1>3, AddAll

\* The tasks the network queues.
LEMMA TaskLists ==
  /\ << <<"open">> >> \in Seq(Tasks) /\ Len(<< <<"open">> >>) = 1
  /\ << <<"close">> >> \in Seq(Tasks) /\ Len(<< <<"close">> >>) = 1
  /\ << <<"error">>, <<"close">> >> \in Seq(Tasks) /\ Len(<< <<"error">>, <<"close">> >>) = 2
  /\ \A m \in 0 .. MaxOut : << <<"msg", m>> >> \in Seq(Tasks) /\ Len(<< <<"msg", m>> >>) = 1
<1>1. /\ <<"open">> \in Tasks /\ <<"error">> \in Tasks /\ <<"close">> \in Tasks
      /\ \A m \in 0 .. MaxOut : <<"msg", m>> \in Tasks
  BY DEF Tasks
<1> QED  BY <1>1

LEMMA ChainOpens ==
  ASSUME TypeOK, Chain, NEW s \in Sessions, Opens(s) \/ Refused(s) PROVE Chain'
<1>1. PICK t \in {<< <<"open">> >>, << <<"error">>, <<"close">> >>} :
        /\ Queue(s, t) /\ Outside /\ ws[s] = "connecting"
        /\ ws'[s] = IF t = << <<"open">> >> THEN "open" ELSE "closed"
        /\ UNCHANGED <<far, out>> /\ \A r \in Sessions : r # s => ws'[r] = ws[r]
        /\ ws'[s] = "open" => Len(t) = 1
  <2>1. CASE Opens(s)
    <3> WITNESS << <<"open">> >> \in {<< <<"open">> >>, << <<"error">>, <<"close">> >>}
    <3> QED  BY <2>1, TypeParts, TaskLists DEF Opens, GoTypes
  <2>2. CASE Refused(s)
    <3> WITNESS << <<"error">>, <<"close">> >> \in {<< <<"open">> >>, << <<"error">>, <<"close">> >>}
    <3>1. << <<"error">>, <<"close">> >> # << <<"open">> >>  BY TaskLists
    <3> QED  BY <2>2, <3>1, TypeParts DEF Refused, GoTypes
  <2> QED  BY <2>1, <2>2
<1>2. t \in Seq(Tasks) /\ Len(t) \in {1, 2} /\ t[1][1] \in {"open", "error"}
      /\ \A i \in DOMAIN t : i > 1 => IsEnd(t[i])
  <2>1. CASE t = << <<"open">> >>
    <3>1. t[1] = <<"open">> /\ DOMAIN t = 1 .. 1  BY <2>1
    <3> QED  BY <2>1, <3>1, TaskLists
  <2>2. CASE t = << <<"error">>, <<"close">> >>
    <3>1. t[1] = <<"error">> /\ t[2] = <<"close">> /\ DOMAIN t = 1 .. 2  BY <2>2
    <3> QED  BY <2>2, <3>1, TaskLists DEF IsEnd
  <2> QED  BY <2>1, <2>2
<1>3. Local(s)  BY DEF Chain
<1>4. \A r \in Sessions : r # s => Same(r)  BY <1>1, <1>2, QueueFacts DEF Same
<1>5. UNCHANGED <<pc, openCh, in, closed, handler, screen, hungUp>>  BY <1>1, <1>2, QueueFacts
<1>6. pc[s] = "dialing" /\ openCh[s] # "ok" /\ ~closed[s]
  <2>1. ~Talking(s)  BY <1>1, <1>3 DEF Local, Coming, Gone
  <2>2. pc[s] \notin {"unused", "rejected", "over"}  BY <1>1, <1>3 DEF Local, Before, Gone
  <2>3. pc[s] = "dialing"  BY <2>1, <2>2, TypeParts DEF GoTypes, Talking
  <2>4. openCh[s] # "ok" /\ ~closed[s]  BY <1>1, <1>3, <2>3 DEF Local, Dialing, Gone
  <2> QED  BY <2>3, <2>4
<1>7. Dialing(s)'
  <2>1. CASE openCh[s] = "empty"
    <3>1. events[s] = <<>> /\ ~closed[s] /\ Fresh(s)  BY <1>1, <1>3, <1>6, <2>1 DEF Local, Dialing
    <3>2. events'[s] = t
      <4>1. events'[s] = events[s] \o t
        BY <1>1, TypeParts DEF Queue, EventTypes
      <4> QED  BY <1>2, <3>1, <4>1
    <3>3. t # <<>>  BY <1>2
    <3> QED
      BY <1>1, <1>2, <1>5, <2>1, <3>1, <3>2, <3>3 DEF Dialing, Fresh, IsEnd
  <2>2. CASE openCh[s] = "error"
    BY <1>1, <1>3, <1>5, <1>6, <2>2 DEF Local, Dialing, Fresh
  <2> QED  BY <1>6, <2>1, <2>2, TypeParts DEF GoTypes
<1>8. Before(s)' /\ Queued(s)' /\ Coming(s)'
  BY <1>5, <1>6 DEF Before, Queued, Coming, Talking
<1>9. Gone(s)' /\ Rest(s)'
  BY <1>1, <1>3, <1>5, <1>6 DEF Local, Gone, Rest, Talking, Holding
<1> QED  BY <1>4, <1>5, <1>7, <1>8, <1>9, ChainFrame DEF Local

\* Whoever still talks over an open websocket has all there is before it.
LEMMA OpenFacts ==
  ASSUME TypeOK, Chain, NEW s \in Sessions, ws[s] = "open"
  PROVE  /\ Local(s) /\ ~closed[s] /\ pc[s] \in {"dialing", "handshake", "reading"}
         /\ pc[s] = "dialing" => far[s] = "none"
         /\ Talking(s) => LastSent(s) = ToCome(s) - 1 + Len(events[s])
         /\ ToCome(s) \in Nat /\ LastSent(s) \in Int
<1>1. Local(s) /\ screen[s] \in Seq(0 .. MaxOut) /\ in[s] \in Seq(0 .. MaxOut) /\ out[s] \in Nat
  BY TypeParts, BoundsAssumption DEF Chain, OutputTypes, EventTypes
<1>2. ~closed[s]  BY <1>1 DEF Local, Gone
<1>3. pc[s] \notin {"unused", "rejected", "over"}  BY <1>1, <1>2 DEF Local, Before, Gone
<1>4. pc[s] \in {"dialing", "handshake", "reading"}  BY <1>3, TypeParts DEF GoTypes
<1>5. pc[s] = "dialing" => far[s] = "none"  BY <1>1 DEF Local, Dialing, Fresh
<1>6. Talking(s) => LastSent(s) = ToCome(s) - 1 + Len(events[s])
  BY <1>1, <1>2 DEF Local, Coming
<1>7. ToRead(s) \in Nat /\ LastSent(s) \in Int  BY <1>1 DEF ToRead, LastSent
<1>8. PICK h \in {0, 1} : h = IF Holding(s) THEN 1 ELSE 0  OBVIOUS
<1>9. ToCome(s) \in Nat
  <2>1. Len(in[s]) \in Nat  BY <1>1
  <2> QED  BY <1>7, <1>8, <2>1 DEF ToCome
<1> QED  BY <1>1, <1>2, <1>4, <1>5, <1>6, <1>7, <1>9

\* The agent sends the next message.
LEMMA ChainSends ==
  ASSUME TypeOK, Chain, NEW s \in Sessions, Answers(s) \/ Prints(s) PROVE Chain'
<1>1. PICK m \in 0 .. MaxOut :
        /\ Queue(s, << <<"msg", m>> >>) /\ Outside /\ UNCHANGED ws /\ ws[s] = "open"
        /\ far[s] # "none" /\ far'[s] = "serving" /\ out'[s] = m
        /\ LastSent(s) = m - 1
        /\ \A r \in Sessions : r # s => far'[r] = far[r] /\ out'[r] = out[r]
  <2>1. CASE Answers(s)
    <3>1. out[s] = 0  BY <2>1 DEF Answers, Chain, Local, Rest
    <3>2. 0 \in 0 .. MaxOut /\ LastSent(s) = 0 - 1
      BY <2>1, BoundsAssumption DEF Answers, LastSent
    <3> QED  BY <2>1, <3>1, <3>2, TypeParts DEF Answers, GoTypes
  <2>2. CASE Prints(s)
    <3>1. out[s] + 1 \in 0 .. MaxOut /\ LastSent(s) = (out[s] + 1) - 1
      BY <2>2, TypeParts, BoundsAssumption DEF Prints, EventTypes, LastSent
    <3> QED  BY <2>2, <3>1, TypeParts DEF Prints, EventTypes
  <2> QED  BY <2>1, <2>2
<1> DEFINE t == << <<"msg", m>> >>
<1>2. t \in Seq(Tasks) /\ Len(t) = 1 /\ t[1] = <<"msg", m>>  BY TaskLists
<1> HIDE DEF t
<1>3. /\ Local(s) /\ ~closed[s] /\ Talking(s) /\ LastSent(s) = ToCome(s) - 1 + Len(events[s])
      /\ ToCome(s) \in Nat
  BY <1>1, OpenFacts DEF Talking
<1>4. /\ Len(events[s]) \in Nat /\ Len(events'[s]) = Len(events[s]) + 1 /\ events'[s] \in Seq(Tasks)
      /\ \A i \in 1 .. Len(events[s]) + 1 :
           events'[s][i] = IF i <= Len(events[s]) THEN events[s][i] ELSE t[i - Len(events[s])]
      /\ \A r \in Sessions : r # s => events'[r] = events[r]
      /\ UNCHANGED <<pc, openCh, in, closed, handler, screen, hungUp>>
  BY <1>1, <1>2, QueueFacts DEF t
<1>5. \A r \in Sessions : r # s => Same(r)  BY <1>1, <1>4 DEF Same
<1>6. /\ ToRead(s)' = ToRead(s) /\ ToCome(s)' = ToCome(s) /\ (Holding(s)' <=> Holding(s))
      /\ (Talking(s)' <=> Talking(s)) /\ LastSent(s)' = m
  BY <1>1, <1>4 DEF ToRead, ToCome, Holding, Talking, LastSent
<1>7. Coming(s)'
  <2>1. PICK k \in Nat, n \in Nat : k = ToCome(s) /\ n = Len(events[s])  BY <1>3, <1>4
  <2>2. m = k + n /\ m - 1 = k - 1 + n  BY <1>1, <1>3, <2>1
  <2>3. ws[s] \in {"open", "closed"}  BY <1>1
  <2>4. k - 1 <= m /\ m = k - 1 + (n + 1)  BY <2>2
  <2>5. \A i \in 1 .. n : events[s][i] = <<"msg", k + i - 1>>
    <3>1. \A i \in DOMAIN events[s] :
            IF k + i - 1 <= m - 1 THEN events[s][i] = <<"msg", k + i - 1>> ELSE IsEnd(events[s][i])
      BY <1>1, <1>3, <2>1 DEF Local, Coming
    <3>2. DOMAIN events[s] = 1 .. n  BY <2>1, TypeParts DEF EventTypes
    <3>3. \A i \in 1 .. n : k + i - 1 <= m - 1  BY <2>2
    <3> QED  BY <3>1, <3>2, <3>3
  <2>6. \A i \in 1 .. n + 1 : events'[s][i] = <<"msg", k + i - 1>>
    <3>1. events'[s][n + 1] = <<"msg", m>>
      <4>1. n + 1 \in 1 .. n + 1 /\ ~(n + 1 <= n) /\ (n + 1) - n = 1  OBVIOUS
      <4> QED  BY <1>2, <1>4, <2>1, <4>1
    <3>2. k + (n + 1) - 1 = m  BY <2>2
    <3>3. \A i \in 1 .. n : i \in 1 .. n + 1 /\ i <= n  OBVIOUS
    <3>4. \A i \in 1 .. n : events'[s][i] = <<"msg", k + i - 1>>  BY <1>4, <2>1, <2>5, <3>3
    <3>5. \A i \in 1 .. n + 1 : i = n + 1 \/ i \in 1 .. n  OBVIOUS
    <3> QED  BY <3>1, <3>2, <3>4, <3>5
  <2>7. DOMAIN events'[s] = 1 .. n + 1 /\ Len(events'[s]) = n + 1  BY <1>4, <2>1
  <2>8. \A i \in 1 .. n + 1 : k + i - 1 <= m  BY <2>2
  <2>9. \A i \in DOMAIN events'[s] :
          IF k + i - 1 <= m THEN events'[s][i] = <<"msg", k + i - 1>> ELSE IsEnd(events'[s][i])
    BY <2>6, <2>7, <2>8
  <2>10. ToCome(s)' = k /\ LastSent(s)' = m /\ k - 1 <= m /\ m <= k - 1 + (n + 1)
    BY <1>6, <2>1, <2>4
  <2>11. ws'[s] = "open" /\ Len(events'[s]) = n + 1  BY <1>1, <2>7
  <2> QED  BY <2>4, <2>9, <2>10, <2>11 DEF Coming, IsEnd
<1>8. Queued(s)'  BY <1>3, <1>4, <1>6 DEF Local, Queued
<1>9. Gone(s)' /\ Rest(s)'
  BY <1>1, <1>3, <1>4, <1>6 DEF Local, Gone, Rest, Talking
<1>10. Before(s)' /\ Dialing(s)'  BY <1>3, <1>4 DEF Before, Dialing, Talking
<1> QED  BY <1>4, <1>5, <1>7, <1>8, <1>9, <1>10, ChainFrame DEF Local

\* The far end closes after the last message.
LEMMA ChainFarEnds == ASSUME TypeOK, Chain, NEW s \in Sessions, FarEnds(s) PROVE Chain'
<1>1. PICK t \in {<< <<"close">> >>, << <<"error">>, <<"close">> >>} :
        /\ Queue(s, t) /\ Outside /\ ws[s] = "open" /\ ws'[s] = "closed"
        /\ UNCHANGED <<far, out>> /\ \A r \in Sessions : r # s => ws'[r] = ws[r]
  BY TypeParts DEF FarEnds, GoTypes
<1>2. t \in Seq(Tasks) /\ Len(t) \in Nat /\ \A i \in 1 .. Len(t) : IsEnd(t[i])
  <2>1. CASE t = << <<"close">> >>
    <3>1. t[1] = <<"close">> /\ Len(t) = 1  BY <2>1
    <3> QED  BY <2>1, <3>1, TaskLists DEF IsEnd
  <2>2. CASE t = << <<"error">>, <<"close">> >>
    <3>1. t[1] = <<"error">> /\ t[2] = <<"close">> /\ Len(t) = 2  BY <2>2
    <3> QED  BY <2>2, <3>1, TaskLists DEF IsEnd
  <2> QED  BY <2>1, <2>2
<1>3. /\ Local(s) /\ ~closed[s] /\ pc[s] \in {"dialing", "handshake", "reading"}
      /\ Talking(s) => LastSent(s) = ToCome(s) - 1 + Len(events[s])
      /\ ToCome(s) \in Nat /\ LastSent(s) \in Int
  BY <1>1, OpenFacts
<1>4. PICK n \in Nat, d \in Nat :
        /\ n = Len(events[s]) /\ d = Len(t) /\ Len(events'[s]) = n + d /\ events'[s] \in Seq(Tasks)
        /\ \A i \in 1 .. n + d : events'[s][i] = IF i <= n THEN events[s][i] ELSE t[i - n]
        /\ \A r \in Sessions : r # s => events'[r] = events[r]
        /\ UNCHANGED <<pc, openCh, in, closed, handler, screen, hungUp>>
  BY <1>1, <1>2, QueueFacts
<1>5. \A r \in Sessions : r # s => Same(r)  BY <1>1, <1>4 DEF Same
<1>6. /\ ToRead(s)' = ToRead(s) /\ ToCome(s)' = ToCome(s) /\ (Holding(s)' <=> Holding(s))
      /\ (Talking(s)' <=> Talking(s)) /\ LastSent(s)' = LastSent(s)
  BY <1>1, <1>4 DEF ToRead, ToCome, Holding, Talking, LastSent
<1>7. \A i \in 1 .. n + d : \/ i \in 1 .. n /\ events'[s][i] = events[s][i]
                            \/ i > n /\ IsEnd(events'[s][i])
  <2>1. \A i \in 1 .. n + d : \/ i \in 1 .. n /\ i <= n
                              \/ i > n /\ ~(i <= n) /\ i - n \in 1 .. d
    OBVIOUS
  <2> QED  BY <1>2, <1>4, <2>1
<1>8. DOMAIN events'[s] = 1 .. n + d /\ DOMAIN events[s] = 1 .. n
  BY <1>4, TypeParts DEF EventTypes
<1>9. Coming(s)'
  <2>1. SUFFICES ASSUME Talking(s) PROVE Coming(s)'  BY <1>6 DEF Coming
  <2>2. PICK k \in Nat, l \in Int : k = ToCome(s) /\ l = LastSent(s) /\ l = k - 1 + n
    BY <1>3, <1>4, <2>1
  <2>3. k - 1 <= l /\ l <= k - 1 + (n + d)  BY <2>2
  <2>4. \A i \in 1 .. n :
          IF k + i - 1 <= l THEN events[s][i] = <<"msg", k + i - 1>> ELSE IsEnd(events[s][i])
    BY <1>3, <1>8, <2>1, <2>2 DEF Local, Coming
  <2>5. \A i \in 1 .. n + d : i > n => ~(k + i - 1 <= l)  BY <2>2
  <2>6. \A i \in 1 .. n + d :
          IF k + i - 1 <= l THEN events'[s][i] = <<"msg", k + i - 1>> ELSE IsEnd(events'[s][i])
    BY <1>7, <2>4, <2>5
  <2>7. \A i \in DOMAIN events'[s] :
          IF k + i - 1 <= l THEN events'[s][i] = <<"msg", k + i - 1>> ELSE IsEnd(events'[s][i])
    BY <1>8, <2>6
  <2>8. ToCome(s)' = k /\ LastSent(s)' = l  BY <1>6, <2>2
  <2>9. ws'[s] = "closed" /\ Len(events'[s]) = n + d  BY <1>1, <1>4
  <2> QED  BY <2>3, <2>7, <2>8, <2>9 DEF Coming, IsEnd
<1>10. Dialing(s)'
  <2>1. CASE pc[s] = "dialing" /\ openCh[s] = "empty"
    <3>1. n = 1 /\ events[s][1][1] \in {"open", "error"} /\ Fresh(s)
      BY <1>1, <1>3, <1>4, <2>1 DEF Local, Dialing
    <3>2. /\ events'[s][1][1] \in {"open", "error"} /\ events'[s] # <<>>
          /\ \A i \in DOMAIN events'[s] : i > 1 => IsEnd(events'[s][i])
      BY <1>4, <1>7, <1>8, <3>1
    <3> QED  BY <1>1, <1>3, <1>4, <2>1, <3>1, <3>2 DEF Dialing, Fresh, IsEnd
  <2>2. CASE pc[s] = "dialing" /\ openCh[s] = "ok"
    <3>1. n = 0 /\ Fresh(s)  BY <1>1, <1>3, <1>4, <2>2 DEF Local, Dialing
    <3>2. \A i \in DOMAIN events'[s] : IsEnd(events'[s][i])  BY <1>7, <1>8, <3>1
    <3> QED  BY <1>1, <1>3, <1>4, <2>2, <3>1, <3>2 DEF Dialing, Fresh, IsEnd
  <2>3. CASE pc[s] = "dialing" /\ openCh[s] = "error"
    BY <1>1, <1>3, <1>4, <2>3 DEF Local, Dialing, Fresh
  <2>4. CASE pc[s] # "dialing"  BY <1>4, <2>4 DEF Dialing
  <2> QED  BY <2>1, <2>2, <2>3, <2>4, TypeParts DEF GoTypes
<1>11. Queued(s)'  BY <1>3, <1>4, <1>6 DEF Local, Queued
<1>12. Gone(s)' /\ Rest(s)'  BY <1>1, <1>3, <1>4, <1>6 DEF Local, Gone, Rest, Talking
<1>13. Before(s)'  BY <1>3, <1>4 DEF Before
<1> QED  BY <1>4, <1>5, <1>9, <1>10, <1>11, <1>12, <1>13, ChainFrame DEF Local

LEMMA ChainKept == TypeOK /\ Chain /\ [Next]_vars => Chain'
<1> SUFFICES ASSUME TypeOK, Chain, [Next]_vars PROVE Chain'  OBVIOUS
<1>1. CASE UNCHANGED <<pc, openCh, in, closed, handler, ws, events, far, out, screen, hungUp>>
  BY <1>1, Untouched
<1>2. CASE Connect  BY <1>2, ChainConnect
<1>5. CASE HandlerReturns
  <2>1. handler[1] \in Sessions  BY <1>5, TypeParts DEF HandlerReturns, OutputTypes
  <2> QED  BY <1>5, <2>1, ChainHandler, ChainTooLate
<1>3. ASSUME NEW s \in Sessions,
             \/ NetsoConnect(s) \/ BadKey(s) \/ DialFails(s) \/ Dialed(s) \/ Connected(s)
             \/ HandshakeFails(s) \/ GivesUp(s) \/ Show(s) \/ ReaderEnds(s)
      PROVE  Chain'
  BY <1>3, ChainCalls, ChainDialFails, ChainDialed, ChainConnected, ChainHandshakeFails,
     ChainGivesUp, ChainShow
<1>4. ASSUME NEW s \in Sessions,
             \/ OnOpen(s) \/ OnMessage(s) \/ OnError(s) \/ OnCloseEvent(s)
             \/ Opens(s) \/ Refused(s) \/ Answers(s) \/ Prints(s) \/ FarEnds(s)
      PROVE  Chain'
  BY <1>4, ChainOnOpen, ChainOnMessage, ChainEnds, ChainOpens, ChainSends, ChainFarEnds
<1> QED
  BY Steps, <1>1, <1>2, <1>3, <1>4, <1>5 DEF NoPeer, Type, Write, vars, go, world, ghosts

\* Nothing an agent printed is lost, doubled or out of order, up to the moment
\* its session ends, unless the user ended it.
THEOREM NothingShownIsLost == Spec => []ScreenWhole
<1>1. Chain => ScreenWhole  BY ChainScreen
<1> QED  BY <1>1, TypesInit, TypesKept, ChainInit, ChainKept, PTL DEF Spec
==============================================================================
