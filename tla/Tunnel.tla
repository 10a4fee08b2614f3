-------------------------------- MODULE Tunnel -------------------------------
(***************************************************************************)
(* One established session, end to end: the client's loops, the hub's      *)
(* relay, the agent's loop and pump, the shell on its PTY.                 *)
(*                                                                         *)
(* It starts where Netso leaves off, when both ends have finished the      *)
(* handshake.  Every hop is a queue; what is typed and what the shell      *)
(* prints are numbered pieces.  A websocket closed in order delivers what  *)
(* was sent before; one that is reset (closed with data unread, or written *)
(* to after its far end closed) may lose it.                               *)
(***************************************************************************)
EXTENDS Integers, Sequences, FiniteSets

CONSTANTS Agent, Client,   \* the two websockets
          Network, Name, Key, Nil,
          Modes,           \* of cmdSSH: "exec", "interactive"
          MaxIn, MaxOut,   \* bounds on what is typed and printed, for TLC
          PtyCap           \* pieces the kernel queues on each side of the PTY

ASSUME EndsAssumption == Agent # Client
ASSUME NilAssumption ==
  Nil \notin {Agent, Client, Network, Name, "eof"} \cup Nat
    \cup [peer : [network : {Network}, name : {Name}, pubkey : {Key}], conn : {Agent}]
ASSUME BoundsAssumption == MaxIn \in Nat \ {0} /\ MaxOut \in Nat /\ PtyCap \in Nat

VARIABLES dir, entries, started, ended, active, conn, remote, reg, ses, copy,
          up, down, held,
          reset,      \* websockets that were reset
          mode,       \* does the client run one command or a terminal?
          running,    \* is the client's process there?
          ending,     \* how it ended: Nil, "eof", "failed" or "left"
          typing,     \* may its input still be sent?
          typed, displayed,
          loop, inbuf,        \* serve's own loop, and what it has read
          pump, outbuf,       \* serve's output goroutine, and what it has read
          open,               \* has the agent not closed its websocket?
          ptyOpen, ptyIn, ptyOut, shellUp,
          consumed, printed   \* what the shell has read and written

attached == (IF running THEN {Client} ELSE {}) \cup (IF open THEN {Agent} ELSE {})

H == INSTANCE Hub WITH Networks <- {Network}, Names <- {Name}, Keys <- {Key},
                       AgentConns <- {Agent}, ClientConns <- {Client}, MaxEntries <- 1
R == INSTANCE Relay WITH Networks <- {Network}, Names <- {Name}, Keys <- {Key},
                         AgentConns <- {Agent}, ClientConns <- {Client}, MaxEntries <- 1

hub == <<dir, entries, started, ended, active, conn, remote, reg, ses, copy>>
wires == <<up, down, held>>
client == <<mode, running, ending, typing, typed, displayed>>
server == <<loop, inbuf, pump, outbuf, open>>
shell == <<ptyOpen, ptyIn, ptyOut, shellUp, consumed, printed>>
vars == <<hub, wires, reset, client, server, shell>>

Peer == [network |-> Network, name |-> Name, pubkey |-> Key]

\* The hub has brokered the client, and the handshake is over.
Init ==
  /\ dir = [n \in {Network} |-> [x \in {Name} |-> Nil]]
  /\ entries = <<Client>> /\ active = 1
  /\ started = [k \in {Client} |-> 1]
  /\ ended = [k \in {Client} |-> 0]
  /\ conn = [c \in {Agent, Client} |-> "open"]
  /\ remote = [c \in {Agent, Client} |-> TRUE]
  /\ reg = [c \in {Agent} |-> [pc |-> "returned", peer |-> Peer, prev |-> Nil]]
  /\ ses = [k \in {Client} |-> [pc |-> "relaying", network |-> Network,
                                name |-> Name, agent |-> Agent]]
  /\ copy = [k \in {Client} |-> [w \in H!Ways |-> "read"]]
  /\ R!Empty
  /\ reset = {}
  /\ mode \in Modes
  /\ running = TRUE /\ ending = Nil /\ typing = TRUE
  /\ typed = <<>> /\ displayed = <<>>
  /\ loop = "read" /\ inbuf = Nil
  /\ pump = "read" /\ outbuf = Nil
  /\ open = TRUE
  /\ ptyOpen = TRUE /\ ptyIn = <<>> /\ ptyOut = <<>> /\ shellUp = TRUE
  /\ consumed = <<>> /\ printed = <<>>

------------------------------------------------------------------------------
(* The hub: its relay's steps, and whether they reset a websocket.         *)

Local == UNCHANGED <<client, server, shell>>

HandleConnect ==
  /\ R!HandleConnect(Client)
  /\ reset' = reset \cup {c \in {Agent, Client} : conn'[c] # conn[c] /\ up[c] # <<>>}
  /\ Local

CopyMsgs(w) ==
  /\ R!CopyMsgs(Client, w)
  /\ reset' = IF copy[Client][w] = "write" /\ H!Dst(Client, w) \notin attached
                THEN reset \cup {H!Dst(Client, w)} ELSE reset
  /\ Local

RemoteGone(c) ==
  /\ R!RemoteGone(c) \/ (c \in reset /\ R!RemoteReset(c))
  /\ UNCHANGED reset /\ Local

\* A program writes to a websocket: to one the hub has closed, it is a reset.
Send(c, m) ==
  /\ R!Write(c, m)
  /\ reset' = IF conn[c] = "open" THEN reset ELSE reset \cup {c}

\* A program closes its end: with data unread, it is a reset.
Shut(c) == reset' = IF c \in attached /\ down[c] # <<>> THEN reset \cup {c} ELSE reset

\* The far end's read fails: the hub has closed, and nothing more will come.
ReadFails(c) == conn[c] # "open" /\ (down[c] = <<>> \/ c \in reset)

------------------------------------------------------------------------------
(* netso ssh: runExec, runInteractive.                                     *)

Limit == IF mode = "exec" THEN 1 ELSE MaxIn

Type ==
  /\ running /\ typing
  /\ Len(typed) < Limit
  /\ typed' = Append(typed, Len(typed) + 1)
  /\ Send(Client, Len(typed) + 1)
  /\ UNCHANGED <<down, held, hub, mode, running, ending, typing, displayed, server, shell>>

Exit(how) ==
  /\ running' = FALSE /\ typing' = FALSE /\ ending' = how
  /\ Shut(Client)
  /\ UNCHANGED <<hub, wires, mode, typed, displayed, server, shell>>

\* A write that fails ends runExec; in runInteractive, only the goroutine.
TypeFails ==
  /\ running /\ typing /\ conn[Client] # "open"
  /\ \/ mode = "exec" /\ typed = <<>> /\ Exit("failed")
     \/ /\ mode = "interactive"
        /\ typing' = FALSE
        /\ UNCHANGED <<hub, wires, reset, mode, running, ending, typed, displayed, server, shell>>

\* runExec reads once the command is sent, runInteractive at once.
Reading == running /\ (mode = "exec" => typed # <<>>)

Display ==
  /\ Reading /\ down[Client] # <<>>
  /\ displayed' = Append(displayed, Head(down[Client]))
  /\ R!Read(Client)
  /\ UNCHANGED <<hub, up, held, reset, mode, running, ending, typing, typed, server, shell>>

ClientReadFails == Reading /\ ReadFails(Client) /\ Exit("eof")

\* The user closes the terminal, or the process is killed.
Leave == running /\ Exit("left")

------------------------------------------------------------------------------
(* netso-agent: serve after the handshake.                                 *)

\* Frames already read from the socket may still be returned after a Close.
LoopRead ==
  /\ loop = "read" /\ down[Agent] # <<>>
  /\ loop' = "write" /\ inbuf' = Head(down[Agent])
  /\ R!Read(Agent)
  /\ UNCHANGED <<hub, up, held, reset, client, pump, outbuf, open, shell>>

Loop(from, to) ==
  /\ loop = from /\ loop' = to
  /\ UNCHANGED <<hub, wires, client, pump, outbuf>>

LoopReadFails ==
  /\ ~open \/ ReadFails(Agent)
  /\ Loop("read", "closing")
  /\ UNCHANGED <<reset, inbuf, open, shell>>

\* sh.Write blocks while the PTY is full; nobody need read what a shell that
\* has exited is sent.
LoopWrite ==
  /\ ptyOpen /\ Len(ptyIn) < PtyCap
  /\ Loop("write", "read")
  /\ inbuf' = Nil
  /\ ptyIn' = Append(ptyIn, inbuf)
  /\ UNCHANGED <<reset, open, ptyOpen, ptyOut, shellUp, consumed, printed>>

LoopWriteFails ==
  /\ ~shellUp
  /\ Loop("write", "closing")
  /\ inbuf' = Nil
  /\ UNCHANGED <<reset, open, shell>>

\* sh.Close closes the PTY, kills the shell and waits for it.
CloseShell ==
  /\ Loop("closing", "shut")
  /\ ptyOpen' = FALSE /\ shellUp' = FALSE
  /\ UNCHANGED <<reset, inbuf, open, ptyIn, ptyOut, consumed, printed>>

LoopClose ==
  /\ Loop("shut", "returned")
  /\ open' = FALSE /\ Shut(Agent)
  /\ UNCHANGED <<inbuf, shell>>

Pump(from, to) ==
  /\ pump = from /\ pump' = to
  /\ UNCHANGED <<hub, down, held, client, loop, inbuf>>

PumpRead ==
  /\ ptyOpen /\ ptyOut # <<>>
  /\ Pump("read", "write")
  /\ outbuf' = Head(ptyOut)
  /\ ptyOut' = Tail(ptyOut)
  /\ UNCHANGED <<up, reset, open, ptyOpen, ptyIn, shellUp, consumed, printed>>

\* The PTY is at its end once the shell is gone and what it wrote is read.
\* Mutant: at once when the shell is gone.
EofAtExit ==
  /\ ~shellUp
  /\ Pump("read", "closing")
  /\ UNCHANGED <<up, reset, outbuf, open, shell>>
PumpReadFails ==
  /\ ~ptyOpen \/ (~shellUp /\ ptyOut = <<>>)
  /\ Pump("read", "closing")
  /\ UNCHANGED <<up, reset, outbuf, open, shell>>

PumpWrite ==
  /\ open
  /\ Pump("write", "read")
  /\ outbuf' = Nil
  /\ Send(Agent, outbuf)
  /\ UNCHANGED <<open, shell>>

\* Mutant: a failed write is not the end, and the piece stays in the buffer.
KeepPumping ==
  /\ ~open \/ conn[Agent] # "open"
  /\ Pump("write", "read")
  /\ UNCHANGED <<up, reset, outbuf, open, shell>>
PumpWriteFails ==
  /\ ~open \/ conn[Agent] # "open"
  /\ Pump("write", "closing")
  /\ outbuf' = Nil
  /\ UNCHANGED <<up, reset, open, shell>>

\* The pump's sess.Close.  Mutant: the pump just ends.
PumpStops ==
  /\ Pump("closing", "done")
  /\ UNCHANGED <<up, reset, outbuf, open, shell>>
PumpClose ==
  /\ Pump("closing", "done")
  /\ open' = FALSE /\ Shut(Agent)
  /\ UNCHANGED <<up, outbuf, shell>>

------------------------------------------------------------------------------
(* The shell, which stands for every process on its PTY.                   *)

Consume ==
  /\ shellUp /\ ptyIn # <<>>
  /\ consumed' = Append(consumed, Head(ptyIn))
  /\ ptyIn' = Tail(ptyIn)
  /\ UNCHANGED <<hub, wires, reset, client, server, ptyOpen, ptyOut, shellUp, printed>>

Emit ==
  /\ shellUp /\ Len(ptyOut) < PtyCap /\ Len(printed) < MaxOut
  /\ printed' = Append(printed, Len(printed) + 1)
  /\ ptyOut' = Append(ptyOut, Len(printed) + 1)
  /\ UNCHANGED <<hub, wires, reset, client, server, ptyOpen, ptyIn, shellUp, consumed>>

ShellExits ==
  /\ shellUp /\ shellUp' = FALSE
  /\ UNCHANGED <<hub, wires, reset, client, server, ptyOpen, ptyIn, ptyOut, consumed, printed>>

Serve == LoopRead \/ LoopReadFails \/ LoopWrite \/ LoopWriteFails \/ CloseShell \/ LoopClose
Output == PumpRead \/ PumpReadFails \/ PumpWrite \/ PumpWriteFails \/ PumpClose

Next ==
  \/ HandleConnect
  \/ \E w \in H!Ways : CopyMsgs(w)
  \/ \E c \in {Agent, Client} : RemoteGone(c)
  \/ Type \/ TypeFails \/ Display \/ ClientReadFails \/ Leave
  \/ Serve \/ Output
  \/ Consume \/ Emit \/ ShellExits

Spec == Init /\ [][Next]_vars

\* What can run does, in every program; the client shows what it gets, and the
\* shell reads its input.  Nobody need type, and no shell need print or exit.
FairSpec ==
  /\ Spec
  /\ WF_vars(HandleConnect)
  /\ \A w \in H!Ways : WF_vars(CopyMsgs(w))
  /\ \A c \in {Agent, Client} : WF_vars(RemoteGone(c))
  /\ WF_vars(TypeFails) /\ WF_vars(Display \/ ClientReadFails)
  /\ WF_vars(mode = "exec" /\ Type)
  /\ WF_vars(Serve) /\ WF_vars(Output) /\ WF_vars(Consume)

------------------------------------------------------------------------------
\* Types; a buffer is full exactly while its contents are being written on.
TypeOK ==
  /\ H!TypeOK
  /\ \A c \in {Agent, Client} : /\ Len(up[c]) <= MaxIn + MaxOut
                                /\ Len(down[c]) <= MaxIn + MaxOut
  /\ held \in [{Client} -> [H!Ways -> Nat \cup {Nil}]]
  /\ reset \subseteq {Agent, Client}
  /\ mode \in Modes /\ running \in BOOLEAN /\ typing \in BOOLEAN
  /\ ending \in {Nil, "eof", "failed", "left"}
  /\ loop \in {"read", "write", "closing", "shut", "returned"}
  /\ pump \in {"read", "write", "closing", "done"}
  /\ inbuf \in Nat \cup {Nil} /\ outbuf \in Nat \cup {Nil}
  /\ (inbuf # Nil) <=> (loop = "write")
  /\ (outbuf # Nil) <=> (pump = "write")
  /\ open \in BOOLEAN /\ ptyOpen \in BOOLEAN /\ shellUp \in BOOLEAN
  /\ Len(ptyIn) <= PtyCap /\ Len(ptyOut) <= PtyCap

\* What the client shows is what the shell printed, and what the shell reads
\* is what was typed: in order, each piece once, nothing skipped, through five
\* queues and four goroutines, also while the session is being torn down.
Screen == INSTANCE Stream WITH sent <- printed, got <- displayed
Keyboard == INSTANCE Stream WITH sent <- typed, got <- consumed
ScreenIsStream == Screen!Spec
KeyboardIsStream == Keyboard!Spec
Streams == ScreenIsStream /\ KeyboardIsStream

\* netso ssh -exec shows all the output: when it ends by itself, and the shell
\* had got the command, everything the shell printed was displayed.
ExecComplete ==
  mode = "exec" /\ ending = "eof" /\ consumed # <<>> => displayed = printed /\ ~shellUp

\* The agent comes back: once the shell has exited or the client is gone, the
\* hub's session ends, serve returns with the shell reaped, its output
\* goroutine ends with it, and a client that stayed ends too.
WindsDown ==
  (~shellUp \/ ~running) ~>
    /\ loop = "returned" /\ pump = "done" /\ ~shellUp
    /\ ses[Client].pc = "returned" /\ ~running
==============================================================================
