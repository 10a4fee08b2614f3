--------------------------------- MODULE Pipe --------------------------------
(***************************************************************************)
(* internal/transport: Pipe, two MsgConns over two buffered channels and   *)
(* one channel closed, which both ends share.  A call of WriteMsg or       *)
(* ReadMsg is one step, its select: where both cases are ready, Go picks   *)
(* either.  A reader stops at its first error, as every caller here does.  *)
(***************************************************************************)
EXTENDS Integers, Sequences

CONSTANTS Cap,      \* make(chan []byte, 16)
          MaxMsgs   \* bound on the messages of each end, for TLC

ASSUME CapAssumption == Cap \in Nat \ {0}

VARIABLES chan,      \* per end, the channel it reads: in of the one, out of the other
          closed,    \* is the shared channel closed?
          once,      \* each end's sync.Once: has it run?
          panicked,  \* close of closed channel
          sent,      \* per end, what WriteMsg accepted from it
          got,       \* per end, what ReadMsg returned to it
          stopped    \* has ReadMsg returned an error to it?

pipevars == <<chan, closed, once, panicked, sent, got, stopped>>

Ends == {"a", "b"}
Other(e) == IF e = "a" THEN "b" ELSE "a"

PipeInit ==
  /\ chan = [e \in Ends |-> <<>>]
  /\ closed = FALSE
  /\ once = [e \in Ends |-> FALSE]
  /\ panicked = FALSE
  /\ sent = [e \in Ends |-> <<>>]
  /\ got = [e \in Ends |-> <<>>]
  /\ stopped = [e \in Ends |-> FALSE]

\* What the channel to the other end holds once message m is queued.
\* Mutant: the caller's buffer itself is queued, and the caller reuses it.
QueueAlias(e, m) == [i \in 1 .. Len(chan[Other(e)]) + 1 |-> m]
Queue(e, m) == Append(chan[Other(e)], m)

\* Mutant: the channel does not block when it is full.
WriteUnbounded(e) ==
  LET m == Len(sent[e]) + 1
  IN  /\ ~panicked /\ m <= MaxMsgs
      /\ chan' = [chan EXCEPT ![Other(e)] = Queue(e, m)]
      /\ sent' = [sent EXCEPT ![e] = Append(@, m)]
      /\ UNCHANGED <<closed, once, panicked, got, stopped>>
WriteMsg(e) ==
  LET m == Len(sent[e]) + 1
  IN  /\ ~panicked
      /\ Len(chan[Other(e)]) < Cap
      /\ m <= MaxMsgs
      /\ chan' = [chan EXCEPT ![Other(e)] = Queue(e, m)]
      /\ sent' = [sent EXCEPT ![e] = Append(@, m)]
      /\ UNCHANGED <<closed, once, panicked, got, stopped>>

ReadMsg(e) ==
  /\ ~panicked /\ ~stopped[e]
  /\ chan[e] # <<>>
  /\ got' = [got EXCEPT ![e] = Append(@, Head(chan[e]))]
  /\ chan' = [chan EXCEPT ![e] = Tail(@)]
  /\ UNCHANGED <<closed, once, panicked, sent, stopped>>

ReadMsgFails(e) ==
  /\ ~panicked /\ ~stopped[e]
  /\ closed
  /\ stopped' = [stopped EXCEPT ![e] = TRUE]
  /\ UNCHANGED <<chan, closed, once, panicked, sent, got>>

\* Closing the channel a second time, from the other end, panics.
Close(e) ==
  /\ ~panicked
  /\ once' = [once EXCEPT ![e] = TRUE]
  /\ closed' = (closed \/ ~once[e])
  /\ panicked' = (closed /\ ~once[e])
  /\ UNCHANGED <<chan, sent, got, stopped>>

PipeNext == \E e \in Ends : WriteMsg(e) \/ ReadMsg(e) \/ ReadMsgFails(e) \/ Close(e)

PipeSpec == PipeInit /\ [][PipeNext]_pipevars

------------------------------------------------------------------------------
\* Types; a channel holds no more than its capacity.
PipeTypeOK ==
  /\ chan \in [Ends -> Seq(Nat)]
  /\ \A e \in Ends : Len(chan[e]) <= Cap
  /\ closed \in BOOLEAN /\ panicked \in BOOLEAN
  /\ once \in [Ends -> BOOLEAN]
  /\ sent \in [Ends -> Seq(Nat)]
  /\ got \in [Ends -> Seq(Nat)]
  /\ stopped \in [Ends -> BOOLEAN]

\* In each direction, what is read is what was written, in order and each
\* message once, with the caller free to reuse its buffer after WriteMsg.
AtoB == INSTANCE Stream WITH sent <- sent["a"], got <- got["b"]
BtoA == INSTANCE Stream WITH sent <- sent["b"], got <- got["a"]
IsStream == AtoB!Spec /\ BtoA!Spec
==============================================================================
