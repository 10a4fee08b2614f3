-------------------------------- MODULE Relay --------------------------------
(***************************************************************************)
(* The hub's relay with the messages it copies.  Hub says when a copier    *)
(* may read, write, fail or end; here each websocket is a pair of FIFO     *)
(* wires, and a copier carries the message it has read until it is         *)
(* written.  The programs at the far ends are the composing module's: it   *)
(* says which websockets they still have open, and when bytes are lost.    *)
(***************************************************************************)
EXTENDS Integers, Sequences, FiniteSets

CONSTANTS Networks, Names, Keys, AgentConns, ClientConns, MaxEntries, Nil

VARIABLES dir, entries, started, ended, active, conn, remote, reg, ses, copy,
          up, down,  \* messages in flight on a websocket, to and from the hub
          held,      \* the message a copier has read and not yet written
          attached   \* the websockets whose far end has not been closed there

H == INSTANCE Hub

hub == <<dir, entries, started, ended, active, conn, remote, reg, ses, copy>>
wires == <<up, down, held>>

Empty ==
  /\ up = [c \in H!Conns |-> <<>>]
  /\ down = [c \in H!Conns |-> <<>>]
  /\ held = [k \in ClientConns |-> [w \in H!Ways |-> Nil]]

Fresh(c) == up' = [up EXCEPT ![c] = <<>>] /\ down' = [down EXCEPT ![c] = <<>>]

\* A far end reads, and writes: what it writes to a closed websocket is lost.
Read(c) == down' = [down EXCEPT ![c] = Tail(@)]
Write(c, m) == up' = IF conn[c] = "open" THEN [up EXCEPT ![c] = Append(@, m)] ELSE up
Drop(c) == down' = [down EXCEPT ![c] = <<>>]

HandleAgent(c) == H!HandleAgent(c) /\ UNCHANGED wires
HandleConnect(k) == H!HandleConnect(k) /\ UNCHANGED wires
Recycle(c) == H!Recycle(c) /\ c \notin attached /\ UNCHANGED wires

\* Mutant: the copier gets the last message that has arrived, not the first.
CopyLast(k, w) ==
  LET c == H!Src(k, w)
  IN  /\ H!CopyRead(k, w)
      /\ up[c] # <<>>
      /\ held' = [held EXCEPT ![k][w] = up[c][Len(up[c])]]
      /\ up' = [up EXCEPT ![c] = SubSeq(@, 1, Len(@) - 1)]
      /\ UNCHANGED down
CopyRead(k, w) ==
  LET c == H!Src(k, w)
  IN  /\ H!CopyRead(k, w)
      /\ up[c] # <<>>
      /\ held' = [held EXCEPT ![k][w] = Head(up[c])]
      /\ up' = [up EXCEPT ![c] = Tail(@)]
      /\ UNCHANGED down

CopyReadFails(k, w) == H!CopyReadFails(k, w) /\ UNCHANGED wires

\* What is written to an end nobody has any more is lost.
CopyWrite(k, w) ==
  LET c == H!Dst(k, w)
  IN  /\ H!CopyWrite(k, w)
      /\ down' = IF c \in attached THEN [down EXCEPT ![c] = Append(@, held[k][w])] ELSE down
      /\ held' = [held EXCEPT ![k][w] = Nil]
      /\ UNCHANGED up

CopyWriteFails(k, w) ==
  /\ H!CopyWriteFails(k, w)
  /\ conn[H!Dst(k, w)] = "closed" \/ H!Dst(k, w) \notin attached
  /\ held' = [held EXCEPT ![k][w] = Nil]
  /\ UNCHANGED <<up, down>>

CopyMsgs(k, w) ==
  CopyRead(k, w) \/ CopyReadFails(k, w) \/ CopyWrite(k, w) \/ CopyWriteFails(k, w)

\* The hub's side learns that the other is gone: by FIN, once it has read all
\* that was sent, or by a reset, and then what it has not read is lost.
RemoteGone(c) ==
  /\ c \notin attached
  /\ up[c] = <<>>
  /\ H!RemoteGone(c)
  /\ UNCHANGED wires
RemoteReset(c) ==
  /\ c \notin attached
  /\ H!RemoteGone(c)
  /\ up' = [up EXCEPT ![c] = <<>>]
  /\ UNCHANGED <<down, held>>
==============================================================================
