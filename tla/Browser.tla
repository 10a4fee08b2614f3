------------------------------- MODULE Browser -------------------------------
(***************************************************************************)
(* The browser client: web/main.js, cmd/netso-wasm, and the JSConn of      *)
(* internal/transport.  The page and the Go program share one thread.  A   *)
(* JavaScript task (a click, a key, a websocket event) that calls into Go  *)
(* gets control back only when every goroutine is blocked, so a task       *)
(* starts only while GoIdle; a Go callback that blocks stops the page.     *)
(*                                                                         *)
(* A session is one call of netsoConnect: its JSConn, its goroutines, and  *)
(* the hub and agent behind its websocket.  What agents print and users    *)
(* type is numbered.  The key of a peer is what its agent told the hub,    *)
(* which checks nothing: it may be one that does not decode.               *)
(***************************************************************************)
EXTENDS Integers, Sequences, FiniteSets

CONSTANTS Sessions,  \* 1 .. n: the calls of netsoConnect
          InCap,     \* capacity of JSConn.in (32)
          SendCap,   \* capacity of sendCh (32)
          MaxOut,    \* bound on the messages of an agent, per session
          MaxKeys,   \* bound on what the user types
          Nil

ASSUME CapsAssumption == InCap \in Nat \ {0} /\ SendCap \in Nat \ {0}
ASSUME BoundsAssumption == MaxOut \in Nat /\ MaxKeys \in Nat
ASSUME SessionsAssumption ==
  Sessions \subseteq Nat /\ Nil \notin Sessions /\ Nil \notin Sessions \X Nat

VARIABLES
  current,  \* main.js: the variable session
  js,       \* "connect" between the two calls into Go of main.js's connect()
  hasty,    \* ghost: Connect was clicked during an attempt to connect
  keys,     \* keys typed so far
  pc,       \* per session: its first goroutine, then its reader
  writer,   \* is its loop over sendCh running?
  sendCh,
  openCh,   \* what DialWS waits for
  in,       \* JSConn.in
  closed,   \* JSConn.closed; its callbacks are released
  handler,  \* the onMessage callback at its select: <<session, message>>
  ws,       \* the browser's websocket
  events,   \* the tasks the browser has queued for it
  far,      \* the hub and the agent behind it
  out,      \* messages that agent has sent
  screen,   \* ghost: what the terminal has shown of the session
  wire,     \* ghost: the keys the websocket has carried
  hungUp    \* ghost: this side closed the session

page == <<current, js, hasty, keys>>
go == <<pc, writer, sendCh, openCh, in, closed, handler>>
world == <<ws, events, far, out>>
ghosts == <<screen, wire, hungUp>>
vars == <<page, go, world, ghosts>>

Init ==
  /\ current = Nil /\ js = "idle" /\ hasty = FALSE /\ keys = 0
  /\ pc = [s \in Sessions |-> "unused"]
  /\ writer = [s \in Sessions |-> FALSE]
  /\ sendCh = [s \in Sessions |-> <<>>]
  /\ openCh = [s \in Sessions |-> "empty"]
  /\ in = [s \in Sessions |-> <<>>]
  /\ closed = [s \in Sessions |-> FALSE]
  /\ handler = Nil
  /\ ws = [s \in Sessions |-> "none"]
  /\ events = [s \in Sessions |-> <<>>]
  /\ far = [s \in Sessions |-> "none"]
  /\ out = [s \in Sessions |-> 0]
  /\ screen = [s \in Sessions |-> <<>>]
  /\ wire = [s \in Sessions |-> <<>>]
  /\ hungUp = [s \in Sessions |-> FALSE]

\* Every goroutine is blocked.
Blocked(s) ==
  /\ pc[s] = "dialing" => openCh[s] = "empty"
  /\ pc[s] \in {"handshake", "reading"} => in[s] = <<>> /\ ~closed[s]
  /\ writer[s] => sendCh[s] = <<>>
GoIdle == handler = Nil /\ \A s \in Sessions : Blocked(s)

\* JSConn.Close: the channel, the websocket, the callbacks.
CloseConn(s) ==
  /\ closed' = [closed EXCEPT ![s] = TRUE]
  /\ ws' = [ws EXCEPT ![s] = "closed"]

------------------------------------------------------------------------------
(* The page.                                                               *)

\* Connect: session.close() does something only once the handshake is done.
\* Mutant: the old session is not closed.
ConnectKeepsOld ==
  /\ GoIdle /\ js = "idle" /\ js' = "connect"
  /\ UNCHANGED <<current, hasty, keys, go, world, ghosts>>
Connect ==
  /\ GoIdle /\ js = "idle" /\ js' = "connect"
  /\ hasty' = (hasty \/ (current # Nil /\ pc[current] \in {"dialing", "handshake"}))
  /\ IF current # Nil /\ pc[current] = "reading"
     THEN CloseConn(current) /\ hungUp' = [hungUp EXCEPT ![current] = TRUE]
     ELSE UNCHANGED <<closed, ws, hungUp>>
  /\ UNCHANGED <<current, keys, pc, writer, sendCh, openCh, in, handler,
                 events, far, out, screen, wire>>

\* Then it calls netsoConnect and holds the object that this returns, once the
\* new goroutine is blocked or gone; whatever that did to the page comes first.
Calls(s) ==
  /\ GoIdle /\ js = "connect" /\ js' = "idle"
  /\ pc[s] = "unused" /\ \A r \in Sessions : r < s => pc[r] # "unused"
  /\ current' = s
  /\ UNCHANGED <<hasty, keys, writer, sendCh, openCh, in, closed, handler,
                 events, far, out, ghosts>>

\* The goroutine gets as far as DialWS.
NetsoConnect(s) ==
  /\ Calls(s)
  /\ pc' = [pc EXCEPT ![s] = "dialing"]
  /\ ws' = [ws EXCEPT ![s] = "connecting"]

\* The key does not decode: the goroutine calls onClose and returns, and the
\* page then holds the object of an attempt that was never made.
BadKey(s) == Calls(s) /\ pc' = [pc EXCEPT ![s] = "rejected"] /\ UNCHANGED ws

\* connect() may also find no peer selected.
NoPeer ==
  /\ GoIdle /\ js = "connect" /\ js' = "idle"
  /\ current' = Nil
  /\ UNCHANGED <<hasty, keys, go, world, ghosts>>

\* obj.send: what does not fit is dropped.  Mutant: it is queued all the same.
TypeUnbounded ==
  /\ GoIdle /\ js = "idle" /\ current # Nil
  /\ keys < MaxKeys /\ keys' = keys + 1
  /\ sendCh' = [sendCh EXCEPT ![current] = Append(@, keys + 1)]
  /\ UNCHANGED <<current, js, hasty, pc, writer, openCh, in, closed, handler, world, ghosts>>
Type ==
  /\ GoIdle /\ js = "idle" /\ current # Nil
  /\ keys < MaxKeys /\ keys' = keys + 1
  /\ IF Len(sendCh[current]) < SendCap
     THEN sendCh' = [sendCh EXCEPT ![current] = Append(@, keys + 1)]
     ELSE UNCHANGED sendCh
  /\ UNCHANGED <<current, js, hasty, pc, writer, openCh, in, closed, handler, world, ghosts>>

\* onClose sets the page's one variable, whichever session calls it.
OnClose == current' = Nil

------------------------------------------------------------------------------
(* The callbacks of the websocket; released ones do nothing.               *)

Task(s, kind) ==
  /\ GoIdle /\ js = "idle"
  /\ events[s] # <<>> /\ Head(events[s])[1] = kind
  /\ events' = [events EXCEPT ![s] = Tail(@)]
  /\ UNCHANGED <<page, pc, writer, sendCh, in, far, out, ghosts>>

Signal(s, x) == openCh' = [openCh EXCEPT ![s] = IF @ = "empty" THEN x ELSE @]

OnOpen(s) == Task(s, "open") /\ Signal(s, "ok") /\ UNCHANGED <<closed, handler, ws>>

OnMessage(s) ==
  /\ Task(s, "msg")
  /\ handler' = IF closed[s] THEN Nil ELSE <<s, Head(events[s])[2]>>
  /\ UNCHANGED <<openCh, closed, ws>>

\* Mutant: DialWS is not told.
OnErrorCloses(s) == Task(s, "error") /\ CloseConn(s) /\ UNCHANGED <<openCh, handler>>
OnError(s) ==
  /\ Task(s, "error") /\ CloseConn(s)
  /\ IF closed[s] THEN UNCHANGED openCh ELSE Signal(s, "error")
  /\ UNCHANGED handler

OnCloseEvent(s) == Task(s, "close") /\ CloseConn(s) /\ UNCHANGED <<openCh, handler>>

\* onMessage blocks, and the page with it, until there is room or the close.
HandlerReturns ==
  /\ handler # Nil
  /\ LET s == handler[1]
     IN  \/ Len(in[s]) < InCap /\ in' = [in EXCEPT ![s] = Append(@, handler[2])]
         \/ closed[s] /\ UNCHANGED in
  /\ handler' = Nil
  /\ UNCHANGED <<page, pc, writer, sendCh, openCh, closed, world, ghosts>>

------------------------------------------------------------------------------
(* The goroutines of a session.                                            *)

\* A session is over: the status, onClose.
Over(s) == pc' = [pc EXCEPT ![s] = "over"] /\ OnClose /\ UNCHANGED <<js, hasty, keys>>

DialFails(s) ==
  /\ pc[s] = "dialing" /\ openCh[s] = "error"
  /\ Over(s) /\ CloseConn(s)
  /\ UNCHANGED <<writer, sendCh, openCh, in, handler, events, far, out, ghosts>>

\* DialWS returns, a key is made, the handshake's first message is sent.
Dialed(s) ==
  /\ pc[s] = "dialing" /\ openCh[s] = "ok"
  /\ pc' = [pc EXCEPT ![s] = "handshake"]
  /\ far' = [far EXCEPT ![s] = IF ws[s] = "open" THEN "hello" ELSE @]
  /\ UNCHANGED <<page, writer, sendCh, openCh, in, closed, handler, ws, events, out, ghosts>>

\* JSConn.ReadMsg: a select between what is queued and the close.
ReadMsg(s) == in[s] # <<>> /\ in' = [in EXCEPT ![s] = Tail(@)]
ReadMsgFails(s) == closed[s] /\ UNCHANGED in

Connected(s) ==
  /\ pc[s] = "handshake" /\ ReadMsg(s)
  /\ pc' = [pc EXCEPT ![s] = "reading"]
  /\ writer' = [writer EXCEPT ![s] = TRUE]
  /\ UNCHANGED <<page, sendCh, openCh, closed, handler, world, ghosts>>

HandshakeFails(s) ==
  /\ pc[s] = "handshake" /\ ReadMsgFails(s)
  /\ Over(s) /\ CloseConn(s)
  /\ UNCHANGED <<writer, sendCh, openCh, handler, events, far, out, ghosts>>

\* No key could be made, or what was read is not the answer of the peer pinned.
GivesUp(s) ==
  /\ \/ pc[s] = "dialing" /\ openCh[s] = "ok" /\ UNCHANGED in
     \/ pc[s] = "handshake" /\ ReadMsg(s)
  /\ Over(s) /\ CloseConn(s) /\ hungUp' = [hungUp EXCEPT ![s] = TRUE]
  /\ UNCHANGED <<writer, sendCh, openCh, handler, events, far, out, screen, wire>>

Show(s) ==
  /\ pc[s] = "reading" /\ ReadMsg(s)
  /\ screen' = [screen EXCEPT ![s] = Append(@, Head(in[s]))]
  /\ UNCHANGED <<page, pc, writer, sendCh, openCh, closed, handler, world, wire, hungUp>>

ReaderEnds(s) ==
  /\ pc[s] = "reading" /\ ReadMsgFails(s)
  /\ Over(s)
  /\ UNCHANGED <<writer, sendCh, openCh, closed, handler, world, ghosts>>

\* WriteMsg fails only once the JSConn is closed; a websocket that is closing
\* drops what it is given.  Mutants: it is then closed at once; the loop ends
\* with its first key; the queue is shared by all sessions.
Sent(s) == wire' = [wire EXCEPT ![s] = IF ws[s] = "open" THEN Append(@, Head(sendCh[s])) ELSE @]
WriteEager(s) ==
  /\ writer[s] /\ sendCh[s] # <<>> /\ sendCh' = [sendCh EXCEPT ![s] = Tail(@)]
  /\ writer' = [writer EXCEPT ![s] = ws[s] = "open"]
  /\ closed' = [closed EXCEPT ![s] = ws[s] # "open"]
  /\ Sent(s)
  /\ UNCHANGED <<page, pc, openCh, in, handler, world, screen, hungUp>>
WriteOnce(s) ==
  /\ writer[s] /\ sendCh[s] # <<>> /\ sendCh' = [sendCh EXCEPT ![s] = Tail(@)]
  /\ writer' = [writer EXCEPT ![s] = FALSE]
  /\ Sent(s)
  /\ UNCHANGED <<page, pc, openCh, in, closed, handler, world, screen, hungUp>>
WriteShared(s) ==
  \E q \in Sessions :
    /\ writer[s] /\ sendCh[q] # <<>> /\ sendCh' = [sendCh EXCEPT ![q] = Tail(@)]
    /\ wire' = [wire EXCEPT ![s] = Append(@, Head(sendCh[q]))]
    /\ UNCHANGED <<page, pc, writer, openCh, in, closed, handler, world, screen, hungUp>>
Write(s) ==
  /\ writer[s] /\ sendCh[s] # <<>> /\ sendCh' = [sendCh EXCEPT ![s] = Tail(@)]
  /\ IF closed[s]
     THEN writer' = [writer EXCEPT ![s] = FALSE] /\ UNCHANGED wire
     ELSE Sent(s) /\ UNCHANGED writer
  /\ UNCHANGED <<page, pc, openCh, in, closed, handler, world, screen, hungUp>>

------------------------------------------------------------------------------
(* The network, the hub, the agent.                                        *)

Outside == UNCHANGED <<page, go, ghosts>>
Queue(s, tasks) == events' = [events EXCEPT ![s] = @ \o tasks]

Opens(s) ==
  /\ ws[s] = "connecting" /\ ws' = [ws EXCEPT ![s] = "open"]
  /\ Queue(s, << <<"open">> >>) /\ UNCHANGED <<far, out>> /\ Outside
Refused(s) ==
  /\ ws[s] = "connecting" /\ ws' = [ws EXCEPT ![s] = "closed"]
  /\ Queue(s, << <<"error">>, <<"close">> >>) /\ UNCHANGED <<far, out>> /\ Outside

\* The handshake's second message is message 0, what follows is the shell's.
Answers(s) ==
  /\ far[s] = "hello" /\ ws[s] = "open"
  /\ far' = [far EXCEPT ![s] = "serving"]
  /\ Queue(s, << <<"msg", 0>> >>) /\ UNCHANGED <<ws, out>> /\ Outside
Prints(s) ==
  /\ far[s] = "serving" /\ ws[s] = "open" /\ out[s] < MaxOut
  /\ out' = [out EXCEPT ![s] = @ + 1]
  /\ Queue(s, << <<"msg", out[s] + 1>> >>) /\ UNCHANGED <<ws, far>> /\ Outside

\* The hub or the network ends it, cleanly or not, after what was sent.
FarEnds(s) ==
  /\ ws[s] = "open" /\ ws' = [ws EXCEPT ![s] = "closed"]
  /\ \E tasks \in {<< <<"close">> >>, << <<"error">>, <<"close">> >>} : Queue(s, tasks)
  /\ UNCHANGED <<far, out>> /\ Outside

Goroutine(s) ==
  \/ DialFails(s) \/ Dialed(s) \/ Connected(s) \/ HandshakeFails(s) \/ GivesUp(s)
  \/ Show(s) \/ ReaderEnds(s) \/ Write(s)
Callback(s) == OnOpen(s) \/ OnMessage(s) \/ OnError(s) \/ OnCloseEvent(s)

Next ==
  \/ Connect \/ NoPeer \/ Type \/ HandlerReturns
  \/ \E s \in Sessions :
       \/ NetsoConnect(s) \/ BadKey(s) \/ Goroutine(s) \/ Callback(s)
       \/ Opens(s) \/ Refused(s) \/ Answers(s) \/ Prints(s) \/ FarEnds(s)

\* Go runs what it can, the browser every task it queued; a websocket opens or fails; a hello
\* is answered or the connection ends.  Nobody need click, type or print.
Fairness ==
  /\ WF_vars(HandlerReturns)
  /\ \A s \in Sessions : /\ WF_vars(Goroutine(s)) /\ SF_vars(Callback(s))
                         /\ WF_vars(Opens(s) \/ Refused(s))
                         /\ WF_vars(pc[s] = "handshake" /\ (Answers(s) \/ FarEnds(s)))
  /\ WF_vars(NoPeer)

Spec == Init /\ [][Next]_vars
FairSpec == Spec /\ Fairness

------------------------------------------------------------------------------
Tasks == {<<"open">>, <<"error">>, <<"close">>} \cup ({"msg"} \X (0 .. MaxOut))

\* Types; the queues keep to their capacities.
TypeOK ==
  /\ current \in Sessions \cup {Nil} /\ js \in {"idle", "connect"} /\ hasty \in BOOLEAN
  /\ keys \in 0 .. MaxKeys
  /\ pc \in [Sessions -> {"unused", "rejected", "dialing", "handshake", "reading", "over"}]
  /\ {writer, closed, hungUp} \subseteq [Sessions -> BOOLEAN]
  /\ {sendCh, wire} \subseteq [Sessions -> Seq(1 .. MaxKeys)]
  /\ {in, screen} \subseteq [Sessions -> Seq(0 .. MaxOut)]
  /\ openCh \in [Sessions -> {"empty", "ok", "error"}]
  /\ handler \in (Sessions \X (0 .. MaxOut)) \cup {Nil}
  /\ ws \in [Sessions -> {"none", "connecting", "open", "closed"}]
  /\ events \in [Sessions -> Seq(Tasks)]
  /\ far \in [Sessions -> {"none", "hello", "serving"}]
  /\ out \in [Sessions -> 0 .. MaxOut]
  /\ \A s \in Sessions : Len(sendCh[s]) <= SendCap /\ Len(in[s]) <= InCap

\* The terminal shows what a session's agent printed, in order; and all of it,
\* up to where the far end closed, unless this side hung up: the select of
\* ReadMsg never prefers the close to a message that came before it.
ScreenWhole ==
  \A s \in Sessions :
    /\ \A i \in DOMAIN screen[s] : screen[s][i] = i
    /\ pc[s] = "over" /\ ~hungUp[s] => Len(screen[s]) = out[s]

\* What a session's agent is sent was typed in that order, and no key reaches
\* two agents, however sessions overlap.
KeysInOrder ==
  \A s, r \in Sessions : \A i \in DOMAIN wire[s], j \in DOMAIN wire[r] :
    /\ s = r /\ i < j => wire[s][i] < wire[r][j]
    /\ s # r => wire[s][i] # wire[r][j]

\* Keys are dropped for want of room only before the handshake is done: once a
\* session is connected, its queue is empty whenever the page can run, so that
\* obj.send always finds room, until the session is over.
KeptOnceConnected ==
  \A s \in Sessions : GoIdle /\ pc[s] = "reading" => sendCh[s] = <<>>

\* What the user sees and what the user types to are one session, as long as
\* nobody clicks Connect during an attempt: between two clicks the page holds
\* the one session that is alive, if any, and no session that was dialled and
\* has ended.  (After such a click an older session's onClose may clear the
\* newer one.  With a key that does not decode, the page holds an object that
\* never was a session: what is typed to it goes nowhere until the next click.)
OneSession ==
  js = "idle" /\ GoIdle =>
    /\ current # Nil => pc[current] # "over"
    /\ ~hasty => \A s \in Sessions : pc[s] \in {"dialing", "handshake", "reading"} => s = current

\* The page always comes to rest again: no callback stops it for good, every
\* attempt has ended connected or in an error, and every session whose
\* websocket is closed is over.
Settled(s) == pc[s] \in {"unused", "rejected", "over"} \/ (pc[s] = "reading" /\ ws[s] = "open")
Settles == []<>(handler = Nil /\ \A s \in Sessions : Settled(s))
==============================================================================
