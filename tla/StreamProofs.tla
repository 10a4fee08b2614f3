------------------------------ MODULE StreamProofs ----------------------------
(***************************************************************************)
(* Pipes and sessions are ordered streams, for every capacity and however  *)
(* much is sent; a session that ends has shown what it should; and what it *)
(* does to its hub is what Hub allows.                                     *)
(***************************************************************************)
EXTENDS Pipe, Tunnel, FiniteSetTheorems, TLAPS

\* s holds the numbers that follow k.
Numbered(s, k) == \A i \in 1 .. Len(s) : s[i] = k + i

\* The next number behind the others.
LEMMA AppendNumbered ==
  ASSUME NEW s \in Seq(Nat), NEW k \in Nat, Numbered(s, k), NEW m, m = k + Len(s) + 1
  PROVE  /\ Numbered(Append(s, m), k)
         /\ Append(s, m) \in Seq(Nat) /\ Len(Append(s, m)) = Len(s) + 1
<1>1. Len(s) \in Nat /\ m \in Nat  OBVIOUS
<1>2. Append(s, m) \in Seq(Nat) /\ Len(Append(s, m)) = Len(s) + 1  BY <1>1
<1>3. ASSUME NEW i \in 1 .. Len(s) + 1 PROVE Append(s, m)[i] = k + i
  <2>1. CASE i = Len(s) + 1  BY <1>1, <2>1
  <2>2. CASE i \in 1 .. Len(s)  BY <1>1, <2>2 DEF Numbered
  <2> QED  BY <1>1, <2>1, <2>2
<1> QED  BY <1>2, <1>3 DEF Numbered

\* The first of the numbers taken away.
LEMMA TailNumbered ==
  ASSUME NEW s \in Seq(Nat), s # <<>>, NEW k \in Nat, Numbered(s, k)
  PROVE  /\ Head(s) = k + 1
         /\ Numbered(Tail(s), k + 1)
         /\ Len(s) \in Nat \ {0}
         /\ Tail(s) \in Seq(Nat) /\ Len(Tail(s)) = Len(s) - 1
<1>1. Len(s) \in Nat /\ Len(s) > 0 /\ Tail(s) \in Seq(Nat) /\ Len(Tail(s)) = Len(s) - 1
  OBVIOUS
<1>2. Head(s) = k + 1  BY <1>1 DEF Numbered
<1>3. ASSUME NEW i \in 1 .. Len(Tail(s)) PROVE Tail(s)[i] = k + 1 + i
  <2>1. i + 1 \in 1 .. Len(s) /\ Tail(s)[i] = s[i + 1]  BY <1>1
  <2> QED  BY <2>1 DEF Numbered
<1> QED  BY <1>1, <1>2, <1>3 DEF Numbered

------------------------------------------------------------------------------
(* Pipe.  PipeTypeOK does not say what a channel holds: Contents does.     *)

\* What an end has sent is numbered; the other has read the first of it, and
\* the channel between them holds the rest.
Contents ==
  \A e \in Ends :
    /\ Len(sent[Other(e)]) = Len(got[e]) + Len(chan[e])
    /\ Numbered(sent[e], 0)
    /\ Numbered(chan[e], Len(got[e]))

PipeInv == PipeTypeOK /\ Contents

\* What was sent is what was read and what waits: after a write, after a read.
LEMMA WriteLengths ==
  ASSUME NEW s \in Nat, NEW g \in Nat, NEW c \in Nat, s = g + c
  PROVE  s + 1 = g + (c + 1)
  OBVIOUS

LEMMA ReadLengths ==
  ASSUME NEW s \in Nat, NEW g \in Nat, NEW c \in Nat, s = g + c
  PROVE  s = (g + 1) + (c - 1)
  OBVIOUS

\* What waits was sent, and comes after what was read.
LEMMA NextSent ==
  ASSUME NEW s \in Nat, NEW g \in Nat, NEW c \in Nat, s = g + c, c > 0
  PROVE  g + 1 \in 1 .. s /\ g < s
  OBVIOUS

\* Each end has another, whose other it is.
LEMMA Others == /\ \A e \in Ends : Other(e) \in Ends /\ Other(e) # e /\ Other(Other(e)) = e
                /\ \A e, f \in Ends : f # e => f = Other(e)
  BY DEF Ends, Other

\* Nothing is queued at first.
LEMMA PipeInitInv == PipeInit => PipeInv
<1> SUFFICES ASSUME PipeInit PROVE PipeInv  OBVIOUS
<1>1. <<>> \in Seq(Nat) /\ Len(<<>>) = 0 /\ 0 <= Cap  BY CapAssumption
<1>2. /\ chan = [e \in Ends |-> <<>>] /\ sent = [e \in Ends |-> <<>>]
      /\ got = [e \in Ends |-> <<>>]
  BY DEF PipeInit
<1>3. PipeTypeOK
  <2>1. chan \in [Ends -> Seq(Nat)] /\ sent \in [Ends -> Seq(Nat)] /\ got \in [Ends -> Seq(Nat)]
    BY <1>1, <1>2
  <2>2. \A e \in Ends : Len(chan[e]) <= Cap  BY <1>1, <1>2
  <2> QED  BY <2>1, <2>2 DEF PipeInit, PipeTypeOK
<1>4. Contents
  <2>1. \A e \in Ends : sent[e] = <<>> /\ got[e] = <<>> /\ chan[e] = <<>>  BY <1>2
  <2>2. \A k \in Nat : Numbered(<<>>, k)  BY <1>1 DEF Numbered
  <2>3. ASSUME NEW e \in Ends
        PROVE  /\ Len(sent[Other(e)]) = Len(got[e]) + Len(chan[e])
               /\ Numbered(sent[e], 0) /\ Numbered(chan[e], Len(got[e]))
    <3>1. Other(e) \in Ends  BY Others
    <3>2. Len(sent[Other(e)]) = 0 /\ Len(got[e]) = 0 /\ Len(chan[e]) = 0  BY <1>1, <2>1, <3>1
    <3>3. Numbered(sent[e], 0) /\ Numbered(chan[e], 0)  BY <2>1, <2>2
    <3> QED  BY <3>2, <3>3
  <2> QED  BY <2>3 DEF Contents
<1> QED  BY <1>3, <1>4 DEF PipeInv

\* What the invariant says of the two directions of an end.
LEMMA EndInv ==
  ASSUME PipeInv, NEW e \in Ends
  PROVE  /\ sent[e] \in Seq(Nat) /\ chan[e] \in Seq(Nat) /\ got[e] \in Seq(Nat)
         /\ Len(sent[e]) \in Nat /\ Len(chan[e]) \in Nat /\ Len(got[e]) \in Nat
         /\ Len(sent[Other(e)]) = Len(got[e]) + Len(chan[e])
         /\ Numbered(sent[e], 0) /\ Numbered(chan[e], Len(got[e]))
         /\ Len(chan[e]) <= Cap
<1>1. sent[e] \in Seq(Nat) /\ chan[e] \in Seq(Nat) /\ got[e] \in Seq(Nat) /\ Len(chan[e]) <= Cap
  BY DEF PipeInv, PipeTypeOK
<1>2. Len(sent[e]) \in Nat /\ Len(chan[e]) \in Nat /\ Len(got[e]) \in Nat  BY <1>1
<1>3. /\ Len(sent[Other(e)]) = Len(got[e]) + Len(chan[e])
      /\ Numbered(sent[e], 0) /\ Numbered(chan[e], Len(got[e]))
  BY DEF PipeInv, Contents
<1> QED  BY <1>1, <1>2, <1>3

\* A write puts the next message behind those that wait.
LEMMA WriteStep ==
  ASSUME PipeInv, NEW e \in Ends, WriteMsg(e)
  PROVE  LET o == Other(e) IN
         /\ sent'[e] = Append(sent[e], Len(sent[e]) + 1)
         /\ Len(sent'[e]) = Len(sent[e]) + 1
         /\ sent'[e] \in Seq(Nat) /\ Numbered(sent'[e], 0)
         /\ chan'[o] \in Seq(Nat) /\ Numbered(chan'[o], Len(got[o]))
         /\ Len(chan'[o]) = Len(chan[o]) + 1 /\ Len(chan[o]) < Cap
         /\ sent'[o] = sent[o] /\ chan'[e] = chan[e] /\ got' = got
         /\ sent' \in [Ends -> Seq(Nat)] /\ chan' \in [Ends -> Seq(Nat)]
         /\ UNCHANGED <<closed, once, panicked, got, stopped>>
<1> DEFINE o == Other(e)
           m == Len(sent[e]) + 1
<1>1. o \in Ends /\ o # e /\ Other(o) = e  BY Others
<1>2. /\ sent' = [sent EXCEPT ![e] = Append(sent[e], m)]
      /\ chan' = [chan EXCEPT ![o] = Append(chan[o], m)]
      /\ Len(chan[o]) < Cap
      /\ UNCHANGED <<closed, once, panicked, got, stopped>>
  BY DEF WriteMsg, Queue
<1>3. sent \in [Ends -> Seq(Nat)] /\ chan \in [Ends -> Seq(Nat)]  BY DEF PipeInv, PipeTypeOK
<1>4. /\ Numbered(Append(sent[e], m), 0)
      /\ Append(sent[e], m) \in Seq(Nat) /\ Len(Append(sent[e], m)) = Len(sent[e]) + 1
  <2>1. m = 0 + Len(sent[e]) + 1  BY EndInv
  <2> QED  BY <2>1, EndInv, AppendNumbered
<1>5. /\ Numbered(Append(chan[o], m), Len(got[o]))
      /\ Append(chan[o], m) \in Seq(Nat) /\ Len(Append(chan[o], m)) = Len(chan[o]) + 1
  <2>1. m = Len(got[o]) + Len(chan[o]) + 1  BY <1>1, EndInv
  <2>2. chan[o] \in Seq(Nat) /\ Len(got[o]) \in Nat /\ Numbered(chan[o], Len(got[o]))
    BY <1>1, EndInv
  <2> HIDE DEF m, o
  <2> QED  BY <2>1, <2>2, AppendNumbered
<1>6. /\ sent'[e] = Append(sent[e], m) /\ chan'[o] = Append(chan[o], m)
      /\ sent'[o] = sent[o] /\ chan'[e] = chan[e]
      /\ sent' \in [Ends -> Seq(Nat)] /\ chan' \in [Ends -> Seq(Nat)]
  <2> HIDE DEF m, o
  <2> QED  BY <1>1, <1>2, <1>3, <1>4, <1>5
<1> QED  BY <1>2, <1>4, <1>5, <1>6

\* A write keeps the invariant.
LEMMA WriteInv == ASSUME PipeInv, NEW e \in Ends, WriteMsg(e)  PROVE PipeInv'
<1> DEFINE o == Other(e)
<1>1. o \in Ends /\ o # e /\ Other(o) = e /\ \A f \in Ends : f = e \/ f = o  BY Others
<1>2. /\ Len(sent'[e]) = Len(sent[e]) + 1 /\ Numbered(sent'[e], 0)
      /\ Numbered(chan'[o], Len(got[o])) /\ Len(chan'[o]) = Len(chan[o]) + 1
      /\ Len(chan[o]) < Cap
      /\ sent'[o] = sent[o] /\ chan'[e] = chan[e] /\ got' = got
      /\ sent' \in [Ends -> Seq(Nat)] /\ chan' \in [Ends -> Seq(Nat)]
      /\ UNCHANGED <<closed, once, panicked, got, stopped>>
  BY WriteStep
<1>3. /\ Len(sent[e]) = Len(got[o]) + Len(chan[o]) /\ Len(sent[o]) = Len(got[e]) + Len(chan[e])
      /\ Numbered(sent[o], 0) /\ Numbered(chan[e], Len(got[e]))
      /\ Len(chan[e]) <= Cap
      /\ Len(got[o]) \in Nat /\ Len(chan[o]) \in Nat
  BY <1>1, EndInv
<1> HIDE DEF o
<1>4. Contents'
  <2>0. got'[o] = got[o] /\ got'[e] = got[e]  BY <1>2
  <2>1. Len(sent'[e]) = Len(got'[o]) + Len(chan'[o])
    <3>1. Len(sent'[e]) = Len(sent[e]) + 1 /\ Len(chan'[o]) = Len(chan[o]) + 1  BY <1>2
    <3>2. /\ Len(sent[e]) = Len(got[o]) + Len(chan[o])
          /\ Len(sent[e]) \in Nat /\ Len(got[o]) \in Nat /\ Len(chan[o]) \in Nat
      BY <1>1, <1>3, EndInv
    <3>3. Len(sent[e]) + 1 = Len(got[o]) + (Len(chan[o]) + 1)  BY <3>2, WriteLengths, Zenon
    <3> QED  BY <2>0, <3>1, <3>3, Zenon
  <2>2. Len(sent'[o]) = Len(got'[e]) + Len(chan'[e])
    <3>1. sent'[o] = sent[o] /\ chan'[e] = chan[e]  BY <1>2
    <3> QED  BY <1>3, <2>0, <3>1
  <2>3. Numbered(sent'[e], 0) /\ Numbered(sent'[o], 0)
        /\ Numbered(chan'[e], Len(got'[e])) /\ Numbered(chan'[o], Len(got'[o]))
    BY <1>2, <1>3
  <2>4. Other(e) = o  BY DEF o
  <2>5. ASSUME NEW f \in Ends
        PROVE  /\ Len(sent'[Other(f)]) = Len(got'[f]) + Len(chan'[f])
               /\ Numbered(sent'[f], 0) /\ Numbered(chan'[f], Len(got'[f]))
    <3>1. CASE f = e  BY <2>2, <2>3, <2>4, <3>1, Zenon
    <3>2. CASE f = o  BY <1>1, <2>1, <2>3, <3>2, Zenon
    <3> QED  BY <1>1, <3>1, <3>2
  <2> QED  BY <2>5 DEF Contents
<1>5. PipeTypeOK'
  <2>1. Len(chan'[o]) <= Cap /\ Len(chan'[e]) <= Cap
    <3>1. Len(chan'[o]) = Len(chan[o]) + 1 /\ Len(chan[o]) < Cap /\ Len(chan[o]) \in Nat
      BY <1>2, <1>3
    <3>2. chan'[e] = chan[e] /\ Len(chan[e]) <= Cap  BY <1>2, <1>3
    <3> QED  BY <3>1, <3>2, CapAssumption
  <2>2. \A f \in Ends : Len(chan'[f]) <= Cap  BY <1>1, <2>1
  <2> QED  BY <1>2, <2>2 DEF PipeInv, PipeTypeOK
<1> QED  BY <1>4, <1>5 DEF PipeInv

\* A read takes the first message that waits, which is the next one sent.
LEMMA ReadStep ==
  ASSUME PipeInv, NEW e \in Ends, ReadMsg(e)
  PROVE  /\ got'[e] = Append(got[e], Len(got[e]) + 1)
         /\ Len(got[e]) < Len(sent[Other(e)])
         /\ sent[Other(e)][Len(got[e]) + 1] = Len(got[e]) + 1
         /\ Len(got'[e]) = Len(got[e]) + 1 /\ Len(chan'[e]) = Len(chan[e]) - 1
         /\ Numbered(chan'[e], Len(got'[e]))
         /\ \A f \in Ends \ {e} : got'[f] = got[f] /\ chan'[f] = chan[f]
         /\ got' \in [Ends -> Seq(Nat)] /\ chan' \in [Ends -> Seq(Nat)]
         /\ UNCHANGED <<closed, once, panicked, sent, stopped>>
<1>1. /\ chan[e] # <<>>
      /\ got' = [got EXCEPT ![e] = Append(got[e], Head(chan[e]))]
      /\ chan' = [chan EXCEPT ![e] = Tail(chan[e])]
      /\ UNCHANGED <<closed, once, panicked, sent, stopped>>
  BY DEF ReadMsg
<1>2. got \in [Ends -> Seq(Nat)] /\ chan \in [Ends -> Seq(Nat)]  BY DEF PipeInv, PipeTypeOK
<1>3. /\ chan[e] \in Seq(Nat) /\ got[e] \in Seq(Nat) /\ Len(got[e]) \in Nat
      /\ Numbered(chan[e], Len(got[e]))
  BY EndInv
<1>4. /\ Head(chan[e]) = Len(got[e]) + 1
      /\ Numbered(Tail(chan[e]), Len(got[e]) + 1)
      /\ Len(chan[e]) \in Nat \ {0}
      /\ Tail(chan[e]) \in Seq(Nat) /\ Len(Tail(chan[e])) = Len(chan[e]) - 1
  BY <1>1, <1>3, TailNumbered
<1>5. /\ Append(got[e], Len(got[e]) + 1) \in Seq(Nat)
      /\ Len(Append(got[e], Len(got[e]) + 1)) = Len(got[e]) + 1
  BY <1>3
<1>6. /\ Len(got[e]) < Len(sent[Other(e)])
      /\ sent[Other(e)][Len(got[e]) + 1] = Len(got[e]) + 1
  <2>1. /\ Len(sent[Other(e)]) \in Nat /\ Len(chan[e]) \in Nat /\ Len(got[e]) \in Nat
        /\ Len(sent[Other(e)]) = Len(got[e]) + Len(chan[e])
    BY Others, EndInv
  <2>2. Len(chan[e]) > 0  BY <1>4
  <2>3. Len(got[e]) + 1 \in 1 .. Len(sent[Other(e)]) /\ Len(got[e]) < Len(sent[Other(e)])
    BY <2>1, <2>2, NextSent, Zenon
  <2>4. \A i \in 1 .. Len(sent[Other(e)]) : sent[Other(e)][i] = 0 + i
    BY Others, EndInv DEF Numbered
  <2>5. sent[Other(e)][Len(got[e]) + 1] = 0 + (Len(got[e]) + 1)  BY <2>3, <2>4
  <2> QED  BY <1>3, <2>3, <2>5
<1>7. /\ got'[e] = Append(got[e], Len(got[e]) + 1) /\ chan'[e] = Tail(chan[e])
      /\ \A f \in Ends \ {e} : got'[f] = got[f] /\ chan'[f] = chan[f]
      /\ got' \in [Ends -> Seq(Nat)] /\ chan' \in [Ends -> Seq(Nat)]
  BY <1>1, <1>2, <1>4, <1>5
<1> QED  BY <1>1, <1>4, <1>5, <1>6, <1>7

\* A read keeps the invariant.
LEMMA ReadInv == ASSUME PipeInv, NEW e \in Ends, ReadMsg(e)  PROVE PipeInv'
<1>1. /\ Len(got'[e]) = Len(got[e]) + 1 /\ Len(chan'[e]) = Len(chan[e]) - 1
      /\ Numbered(chan'[e], Len(got'[e]))
      /\ \A f \in Ends \ {e} : got'[f] = got[f] /\ chan'[f] = chan[f]
      /\ got' \in [Ends -> Seq(Nat)] /\ chan' \in [Ends -> Seq(Nat)]
      /\ UNCHANGED <<closed, once, panicked, sent, stopped>>
  BY ReadStep
<1>2. ASSUME NEW f \in Ends
      PROVE  /\ Len(sent'[Other(f)]) = Len(got'[f]) + Len(chan'[f])
             /\ Numbered(sent'[f], 0) /\ Numbered(chan'[f], Len(got'[f]))
             /\ Len(chan'[f]) <= Cap
  <2>1. /\ Len(sent[Other(f)]) = Len(got[f]) + Len(chan[f])
        /\ Numbered(sent[f], 0) /\ Numbered(chan[f], Len(got[f])) /\ Len(chan[f]) <= Cap
        /\ Len(got[f]) \in Nat /\ Len(chan[f]) \in Nat
    BY EndInv
  <2>2. sent' = sent  BY <1>1
  <2>3. CASE f = e
    <3>1. Len(sent'[Other(f)]) = Len(sent[Other(f)])  BY <2>2
    <3>2. Len(got'[f]) = Len(got[f]) + 1 /\ Len(chan'[f]) = Len(chan[f]) - 1
      BY <1>1, <2>3
    <3>3. Len(got[f]) \in Nat /\ Len(chan[f]) \in Nat /\ Len(chan[f]) <= Cap  BY <2>1
    <3>4. Len(sent[Other(f)]) = Len(got'[f]) + Len(chan'[f])
      <4>1. Len(sent[Other(f)]) = Len(got[f]) + Len(chan[f]) /\ Len(sent[Other(f)]) \in Nat
        BY Others, EndInv
      <4>2. Len(sent[Other(f)]) = (Len(got[f]) + 1) + (Len(chan[f]) - 1)
        BY <3>3, <4>1, ReadLengths, Zenon
      <4> QED  BY <3>2, <4>2, Zenon
    <3>5. Len(chan'[f]) <= Cap  BY <3>2, <3>3, CapAssumption
    <3>6. Numbered(sent'[f], 0) /\ Numbered(chan'[f], Len(got'[f]))  BY <1>1, <2>1, <2>2, <2>3
    <3> QED  BY <2>1, <3>1, <3>4, <3>5, <3>6
  <2>4. CASE f # e
    <3>1. got'[f] = got[f] /\ chan'[f] = chan[f]  BY <1>1, <2>4
    <3> QED  BY <2>1, <2>2, <3>1
  <2> QED  BY <2>3, <2>4
<1>3. PipeTypeOK'  BY <1>1, <1>2 DEF PipeInv, PipeTypeOK
<1> QED  BY <1>2, <1>3 DEF PipeInv, Contents

\* Closing, and being told of it, moves no message.
LEMMA OtherInv ==
  ASSUME PipeInv, (\E e \in Ends : ReadMsgFails(e) \/ Close(e)) \/ UNCHANGED pipevars
  PROVE  PipeInv' /\ UNCHANGED <<sent, got>>
<1>1. UNCHANGED <<chan, sent, got>>  BY DEF ReadMsgFails, Close, pipevars
<1>2. Contents'  BY <1>1 DEF PipeInv, Contents
<1>3. PipeTypeOK'
  <2>1. CASE \E e \in Ends : ReadMsgFails(e)
    BY <2>1 DEF ReadMsgFails, PipeInv, PipeTypeOK
  <2>2. ASSUME NEW e \in Ends, Close(e) PROVE PipeTypeOK'
    <3>1. closed \in BOOLEAN /\ once \in [Ends -> BOOLEAN]  BY DEF PipeInv, PipeTypeOK
    <3>2. closed' \in BOOLEAN /\ panicked' \in BOOLEAN
      <4>1. closed' = (closed \/ ~once[e]) /\ panicked' = (closed /\ ~once[e])  BY <2>2 DEF Close
      <4> QED  BY <4>1
    <3>3. once' \in [Ends -> BOOLEAN]  BY <2>2, <3>1 DEF Close
    <3> QED  BY <1>1, <2>2, <3>2, <3>3 DEF PipeInv, PipeTypeOK, Close
  <2>3. CASE UNCHANGED pipevars  BY <2>3 DEF pipevars, PipeInv, PipeTypeOK
  <2> QED  BY <2>1, <2>2, <2>3
<1> QED  BY <1>1, <1>2, <1>3 DEF PipeInv

\* Every step keeps the invariant.
LEMMA PipeInductive == PipeInv /\ [PipeNext]_pipevars => PipeInv'
  BY WriteInv, ReadInv, OtherInv DEF PipeNext

\* The channels of a Pipe never hold more than their capacity.
THEOREM PipeTypes == PipeSpec => []PipeTypeOK
<1>1. PipeSpec => []PipeInv  BY PipeInitInv, PipeInductive, PTL DEF PipeSpec
<1>2. PipeInv => PipeTypeOK  BY DEF PipeInv
<1> QED  BY <1>1, <1>2, PTL

\* One direction: a step of the Pipe sends, delivers or stutters.
LEMMA Direction ==
  ASSUME PipeInv, [PipeNext]_pipevars, NEW e \in Ends
  PROVE  LET o == Other(e) IN
         \/ sent'[e] = Append(sent[e], Len(sent[e]) + 1) /\ got'[o] = got[o]
         \/ /\ Len(got[o]) < Len(sent[e])
            /\ got'[o] = Append(got[o], sent[e][Len(got[o]) + 1])
            /\ sent'[e] = sent[e]
         \/ sent'[e] = sent[e] /\ got'[o] = got[o]
<1> DEFINE o == Other(e)
<1>0. o \in Ends /\ Other(o) = e /\ o # e /\ \A f \in Ends : f = e \/ f = o  BY Others
<1>1. ASSUME WriteMsg(e)
      PROVE  sent'[e] = Append(sent[e], Len(sent[e]) + 1) /\ got'[o] = got[o]
  BY <1>1, WriteStep
<1>2. ASSUME WriteMsg(o) PROVE sent'[e] = sent[e] /\ got'[o] = got[o]
  <2> HIDE DEF o
  <2>1. sent'[Other(o)] = sent[Other(o)] /\ got' = got  BY <1>0, <1>2, WriteStep
  <2> QED  BY <1>0, <2>1
<1>3. ASSUME ReadMsg(o)
      PROVE  /\ Len(got[o]) < Len(sent[e])
             /\ got'[o] = Append(got[o], sent[e][Len(got[o]) + 1])
             /\ sent'[e] = sent[e]
  <2> HIDE DEF o
  <2>1. /\ got'[o] = Append(got[o], Len(got[o]) + 1)
        /\ Len(got[o]) < Len(sent[Other(o)])
        /\ sent[Other(o)][Len(got[o]) + 1] = Len(got[o]) + 1
        /\ sent' = sent
    BY <1>0, <1>3, ReadStep
  <2> QED  BY <1>0, <2>1
<1>4. ASSUME ReadMsg(e) PROVE sent'[e] = sent[e] /\ got'[o] = got[o]
  <2> HIDE DEF o
  <2> QED  BY <1>0, <1>4, ReadStep
<1>5. ASSUME (\E f \in Ends : ReadMsgFails(f) \/ Close(f)) \/ UNCHANGED pipevars
      PROVE  sent' = sent /\ got' = got
  BY <1>5, OtherInv
<1>6. \/ WriteMsg(e) \/ WriteMsg(o) \/ ReadMsg(o) \/ ReadMsg(e)
      \/ (\E f \in Ends : ReadMsgFails(f) \/ Close(f)) \/ UNCHANGED pipevars
  BY <1>0 DEF PipeNext
<1> QED  BY <1>1, <1>2, <1>3, <1>4, <1>5, <1>6

\* Both directions of a Pipe are ordered streams without gaps or repetition,
\* whoever closes when.
THEOREM PipeIsStream == PipeSpec => IsStream
<1>1. PipeInit => AtoB!Init /\ BtoA!Init
  BY DEF PipeInit, Ends, AtoB!Init, BtoA!Init
<1>2. PipeInv /\ [PipeNext]_pipevars =>
        [AtoB!Next]_<<sent["a"], got["b"]>> /\ [BtoA!Next]_<<sent["b"], got["a"]>>
  <2> SUFFICES ASSUME PipeInv, [PipeNext]_pipevars
               PROVE  [AtoB!Next]_<<sent["a"], got["b"]>> /\ [BtoA!Next]_<<sent["b"], got["a"]>>
    OBVIOUS
  <2>1. "a" \in Ends /\ "b" \in Ends /\ Other("a") = "b" /\ Other("b") = "a"
    BY DEF Ends, Other
  <2>2. [AtoB!Next]_<<sent["a"], got["b"]>>
    BY <2>1, Direction DEF AtoB!Next, AtoB!Send, AtoB!Deliver
  <2>3. [BtoA!Next]_<<sent["b"], got["a"]>>
    BY <2>1, Direction DEF BtoA!Next, BtoA!Send, BtoA!Deliver
  <2> QED  BY <2>2, <2>3
<1>3. PipeSpec => []PipeInv  BY PipeInitInv, PipeInductive, PTL DEF PipeSpec
<1> QED  BY <1>1, <1>2, <1>3, PTL DEF PipeSpec, IsStream, AtoB!Spec, BtoA!Spec

------------------------------------------------------------------------------
(* A direction: what was sent, what has got through, and five stages       *)
(* between them, the nearest first.  The depth n says how much of it is    *)
(* still in one piece: nothing behind a, the stages up to c, all stages,   *)
(* or all with nothing missing behind them.                                *)

Chain(out, a, b, c, d, e, all, n) ==
  LET k == Len(out) + Len(a)
      l == k + Len(b) + Len(c)
      m == l + Len(d) + Len(e)
  IN  /\ {out, a, b, c, d, e, all} \subseteq Seq(Nat)
      /\ Len(b) <= 1 /\ Len(d) <= 1
      /\ Numbered(all, 0) /\ m <= Len(all)
      /\ Numbered(out, 0) /\ Numbered(a, Len(out))
      /\ n > 0 => Numbered(b, k) /\ Numbered(c, k + Len(b))
      /\ n > 1 => Numbered(d, l) /\ Numbered(e, l + Len(d))
      /\ n > 2 => m = Len(all)

\* What a variable that holds a piece or Nil holds.
Box(b) == IF b = Nil THEN <<>> ELSE <<b>>

At(p) == p \in {"read", "write"}
Conns == {Agent, Client}

\* The hub: one session, whose copiers and whose ends it winds down.
Session ==
  LET s == ses[Client]
      done(w) == copy[Client][w] = "done"
  IN  /\ dir = [n \in {Network} |-> [x \in {Name} |-> Nil]]
      /\ entries = <<Client>> /\ started = [k \in {Client} |-> 1]
      /\ reg = [c \in {Agent} |-> [pc |-> "returned", peer |-> Peer, prev |-> Nil]]
      /\ conn \in [Conns -> {"open", "closed"}] /\ remote \in [Conns -> BOOLEAN]
      /\ copy \in [{Client} -> [H!Ways -> {"read", "write", "done"}]]
      /\ ended \in [{Client} -> {0, 1}]
      /\ ses \in [{Client} -> [pc : {"relaying", "closing", "draining", "returned"},
                               network : {Network}, name : {Name}, agent : {Agent, Nil}]]
      /\ s.agent = Nil <=> s.pc = "returned"
      /\ conn[Client] = "open" <=> s.pc = "relaying"
      /\ conn[Agent] = "open" <=> s.pc \in {"relaying", "closing"}
      /\ s.pc # "relaying" => \E w \in H!Ways : done(w)
      /\ s.pc = "returned" => active = 0 /\ ended[Client] = 1 /\ \A w \in H!Ways : done(w)
      /\ s.pc # "returned" => active = 1 /\ ended[Client] = 0

\* What the wires and the copiers carry: a copier holds a piece exactly while
\* it is writing it.
Pieces == /\ up \in [Conns -> Seq(Nat)] /\ down \in [Conns -> Seq(Nat)]
          /\ held \in [{Client} -> [H!Ways -> Nat \cup {Nil}]]
Holding == \A w \in H!Ways : held[Client][w] # Nil <=> copy[Client][w] = "write"

\* The programs: how far each is, and what it may hold.
Places ==
  /\ reset \subseteq Conns
  /\ mode \in Modes /\ running \in BOOLEAN /\ typing \in BOOLEAN
  /\ ending \in {Nil, "eof", "failed", "left"}
  /\ loop \in {"read", "write", "closing", "shut", "returned"}
  /\ pump \in {"read", "write", "closing", "done"}
  /\ open \in BOOLEAN /\ ptyOpen \in BOOLEAN /\ shellUp \in BOOLEAN
Buffers ==
  /\ inbuf \in Nat \cup {Nil} /\ outbuf \in Nat \cup {Nil}
  /\ (inbuf # Nil) <=> (loop = "write")
  /\ (outbuf # Nil) <=> (pump = "write")
Bounds ==
  /\ Len(ptyIn) <= PtyCap /\ Len(ptyOut) <= PtyCap
  /\ Len(typed) <= Limit /\ Len(printed) <= MaxOut

Shape == Pieces /\ Holding /\ Places /\ Buffers /\ Bounds

KeyboardDepth ==
  IF ~At(loop) THEN 0
  ELSE IF ~At(copy[Client]["toAgent"]) \/ ~open THEN 1
  ELSE IF ~running \/ conn[Client] # "open" THEN 2 ELSE 3
KeyboardChain ==
  Chain(consumed, ptyIn, Box(inbuf), down[Agent], Box(held[Client]["toAgent"]), up[Client],
        typed, KeyboardDepth)

ScreenDepth ==
  IF ~At(copy[Client]["toClient"]) \/ ~running THEN 0
  ELSE IF conn[Agent] # "open" \/ ~open \/ ~At(pump) THEN 1 ELSE 3
ScreenChain ==
  Chain(displayed, down[Client], Box(held[Client]["toClient"]), up[Agent], Box(outbuf), ptyOut,
        printed, ScreenDepth)

\* Who has ended, and why.
SomeDone == \E w \in H!Ways : copy[Client][w] = "done"
Endings ==
  /\ SomeDone => ~running \/ ~open
  /\ ~remote[Client] => ~running
  /\ ~remote[Agent] => ~open
  /\ running => /\ ~open \/ ~At(pump) \/ ~At(loop) => ~shellUp
  /\ ~ptyOpen => ~shellUp
  /\ loop \in {"shut", "returned"} => ~ptyOpen
  /\ pump = "done" \/ loop = "returned" => ~open
  /\ Agent \in reset => ~open \/ conn[Agent] # "open"
  /\ Client \in reset => ~running \/ conn[Client] # "open"

\* A command the shell has got: while the client stays, all of the output
\* comes, and the last of it before anything ends.
Command == mode = "exec" /\ running /\ consumed # <<>>
AllOutput ==
  Chain(displayed, down[Client], Box(held[Client]["toClient"]), up[Agent], Box(outbuf), ptyOut,
        printed, 3)
Winding ==
  /\ ~open => ~At(pump)
  /\ ~At(pump) => ~shellUp /\ ptyOut = <<>>
  /\ ~At(loop) \/ ~ptyOpen => ~open
  /\ reset = {}
  /\ ~remote[Agent] => up[Agent] = <<>>
  /\ SomeDone => copy[Client]["toClient"] = "done" /\ up[Agent] = <<>>
Exec == Command => AllOutput /\ Winding

After ==
  ending = "eof" =>
    /\ ~running /\ ~shellUp
    /\ mode = "exec" /\ consumed # <<>> => displayed = printed

TIInv == Session /\ Shape /\ KeyboardChain /\ ScreenChain /\ Endings /\ Exec /\ After

------------------------------------------------------------------------------
(* Pieces moving along a direction.                                        *)

\* A piece moves from the head of one stage to the tail of the next.
LEMMA MoveNumbered ==
  ASSUME NEW x \in Seq(Nat), NEW y \in Seq(Nat), y # <<>>, NEW k \in Nat,
         Numbered(x, k), Numbered(y, k + Len(x))
  PROVE  /\ Numbered(Append(x, Head(y)), k)
         /\ Numbered(Tail(y), k + Len(Append(x, Head(y))))
<1>1. Len(x) \in Nat /\ k + Len(x) \in Nat  OBVIOUS
<1>2. Head(y) = k + Len(x) + 1 /\ Numbered(Tail(y), k + Len(x) + 1)
  BY <1>1, TailNumbered
<1>3. Numbered(Append(x, Head(y)), k) /\ Len(Append(x, Head(y))) = Len(x) + 1
  BY <1>2, AppendNumbered
<1>4. k + Len(Append(x, Head(y))) = k + Len(x) + 1  BY <1>1, <1>3
<1> QED  BY <1>2, <1>3, <1>4

LEMMA MoveTypes ==
  ASSUME NEW x \in Seq(Nat), NEW y \in Seq(Nat), y # <<>>
  PROVE  /\ Append(x, Head(y)) \in Seq(Nat) /\ Tail(y) \in Seq(Nat)
         /\ Len(x) \in Nat /\ Len(y) \in Nat \ {0}
         /\ Len(Append(x, Head(y))) = Len(x) + 1 /\ Len(Tail(y)) = Len(y) - 1
OBVIOUS

LEMMA ChainTypes ==
  ASSUME NEW out, NEW a, NEW b, NEW c, NEW d, NEW e, NEW all,
         NEW n \in 0 .. 3, Chain(out, a, b, c, d, e, all, n)
  PROVE  /\ out \in Seq(Nat) /\ a \in Seq(Nat) /\ b \in Seq(Nat) /\ c \in Seq(Nat)
         /\ d \in Seq(Nat) /\ e \in Seq(Nat) /\ all \in Seq(Nat)
         /\ Len(out) \in Nat /\ Len(a) \in Nat /\ Len(b) \in Nat /\ Len(c) \in Nat
         /\ Len(d) \in Nat /\ Len(e) \in Nat /\ Len(all) \in Nat
<1>1. /\ out \in Seq(Nat) /\ a \in Seq(Nat) /\ b \in Seq(Nat) /\ c \in Seq(Nat)
      /\ d \in Seq(Nat) /\ e \in Seq(Nat) /\ all \in Seq(Nat)
  BY DEF Chain
<1> QED  BY <1>1

\* The nearest piece gets through.
LEMMA ChainDeliver ==
  ASSUME NEW out, NEW a, NEW b, NEW c, NEW d, NEW e, NEW all,
         NEW n \in 0 .. 3, Chain(out, a, b, c, d, e, all, n), a # <<>>
  PROVE  /\ Chain(Append(out, Head(a)), Tail(a), b, c, d, e, all, n)
         /\ Len(out) < Len(all) /\ Head(a) = all[Len(out) + 1]
<1>1. /\ out \in Seq(Nat) /\ a \in Seq(Nat) /\ b \in Seq(Nat) /\ c \in Seq(Nat)
      /\ d \in Seq(Nat) /\ e \in Seq(Nat) /\ all \in Seq(Nat)
      /\ Len(out) \in Nat /\ Len(a) \in Nat /\ Len(b) \in Nat /\ Len(c) \in Nat
      /\ Len(d) \in Nat /\ Len(e) \in Nat /\ Len(all) \in Nat
  BY ChainTypes
<1> DEFINE got2 == Append(out, Head(a))
           a2 == Tail(a)
<1>2. /\ got2 \in Seq(Nat) /\ a2 \in Seq(Nat)
      /\ Len(got2) = Len(out) + 1 /\ Len(a2) = Len(a) - 1 /\ Len(a) > 0
  BY <1>1, MoveTypes
<1>3. Numbered(out, 0) /\ Numbered(a, Len(out)) /\ Numbered(all, 0)  BY DEF Chain
<1>4. Numbered(got2, 0) /\ Numbered(a2, Len(got2))
  <2>1. 0 + Len(out) = Len(out) /\ 0 + Len(got2) = Len(got2)  BY <1>1, <1>2
  <2> QED  BY <1>1, <1>3, <2>1, MoveNumbered
<1>5. Len(got2) + Len(a2) = Len(out) + Len(a)  BY <1>1, <1>2
<1>6. Chain(got2, a2, b, c, d, e, all, n)
  <2> HIDE DEF got2, a2
  <2> QED  BY <1>1, <1>2, <1>4, <1>5 DEF Chain
<1>7. Len(out) < Len(all)
  <2>1. Len(out) + Len(a) + Len(b) + Len(c) + (Len(d) + Len(e)) <= Len(all)  BY <1>1 DEF Chain
  <2> QED  BY <1>1, <1>2, <2>1
<1>8. Head(a) = Len(out) + 1  BY <1>1, <1>3, TailNumbered
<1>9. all[Len(out) + 1] = 0 + (Len(out) + 1)  BY <1>1, <1>3, <1>7 DEF Numbered
<1> QED  BY <1>1, <1>6, <1>7, <1>8, <1>9

\* A piece moves one stage on, within the part that is in one piece.
LEMMA ChainFirst ==
  ASSUME NEW out, NEW a, NEW b, NEW c, NEW d, NEW e, NEW all,
         NEW n \in 0 .. 3, Chain(out, a, b, c, d, e, all, n), n > 0, b # <<>>
  PROVE  Chain(out, Append(a, Head(b)), Tail(b), c, d, e, all, n)
<1>1. /\ out \in Seq(Nat) /\ a \in Seq(Nat) /\ b \in Seq(Nat) /\ c \in Seq(Nat)
      /\ d \in Seq(Nat) /\ e \in Seq(Nat) /\ all \in Seq(Nat)
      /\ Len(out) \in Nat /\ Len(a) \in Nat /\ Len(b) \in Nat /\ Len(c) \in Nat
      /\ Len(d) \in Nat /\ Len(e) \in Nat /\ Len(all) \in Nat
  BY ChainTypes
<1> DEFINE a2 == Append(a, Head(b))
           b2 == Tail(b)
<1>2. /\ a2 \in Seq(Nat) /\ b2 \in Seq(Nat)
      /\ Len(a2) = Len(a) + 1 /\ Len(b2) = Len(b) - 1 /\ Len(b) > 0
  BY <1>1, MoveTypes
<1>3. Numbered(a, Len(out)) /\ Numbered(b, Len(out) + Len(a))  BY DEF Chain
<1>4. Numbered(a2, Len(out)) /\ Numbered(b2, Len(out) + Len(a2))  BY <1>1, <1>3, MoveNumbered
<1>5. Len(out) + Len(a2) + Len(b2) = Len(out) + Len(a) + Len(b)  BY <1>1, <1>2
<1>6. Len(b2) <= 1  BY <1>1, <1>2 DEF Chain
<1> HIDE DEF a2, b2
<1>7. Chain(out, a2, b2, c, d, e, all, n)  BY <1>1, <1>2, <1>4, <1>5, <1>6 DEF Chain
<1> QED  BY <1>7 DEF a2, b2

LEMMA ChainSecond ==
  ASSUME NEW out, NEW a, NEW b, NEW c, NEW d, NEW e, NEW all,
         NEW n \in 0 .. 3, Chain(out, a, b, c, d, e, all, n), b = <<>>, c # <<>>
  PROVE  Chain(out, a, Append(b, Head(c)), Tail(c), d, e, all, n)
<1>1. /\ out \in Seq(Nat) /\ a \in Seq(Nat) /\ b \in Seq(Nat) /\ c \in Seq(Nat)
      /\ d \in Seq(Nat) /\ e \in Seq(Nat) /\ all \in Seq(Nat)
      /\ Len(out) \in Nat /\ Len(a) \in Nat /\ Len(b) \in Nat /\ Len(c) \in Nat
      /\ Len(d) \in Nat /\ Len(e) \in Nat /\ Len(all) \in Nat
      /\ Len(out) + Len(a) \in Nat
  BY ChainTypes
<1> DEFINE b2 == Append(b, Head(c))
           c2 == Tail(c)
           k == Len(out) + Len(a)
<1>2. /\ b2 \in Seq(Nat) /\ c2 \in Seq(Nat)
      /\ Len(b2) = Len(b) + 1 /\ Len(c2) = Len(c) - 1 /\ Len(c) > 0
  BY <1>1, MoveTypes
<1>3. ASSUME n > 0 PROVE Numbered(b2, k) /\ Numbered(c2, k + Len(b2))
  <2>1. Numbered(b, k) /\ Numbered(c, k + Len(b))  BY <1>3 DEF Chain
  <2> QED  BY <1>1, <2>1, MoveNumbered
<1>4. k + Len(b2) + Len(c2) = k + Len(b) + Len(c)  BY <1>1, <1>2
<1>5. Len(b2) <= 1  BY <1>1, <1>2
<1> HIDE DEF b2, c2
<1>6. Chain(out, a, b2, c2, d, e, all, n)  BY <1>1, <1>2, <1>3, <1>4, <1>5 DEF Chain
<1> QED  BY <1>6 DEF b2, c2

LEMMA ChainThird ==
  ASSUME NEW out, NEW a, NEW b, NEW c, NEW d, NEW e, NEW all,
         NEW n \in 0 .. 3, Chain(out, a, b, c, d, e, all, n), n # 1, d # <<>>
  PROVE  Chain(out, a, b, Append(c, Head(d)), Tail(d), e, all, n)
<1>1. /\ out \in Seq(Nat) /\ a \in Seq(Nat) /\ b \in Seq(Nat) /\ c \in Seq(Nat)
      /\ d \in Seq(Nat) /\ e \in Seq(Nat) /\ all \in Seq(Nat)
      /\ Len(out) \in Nat /\ Len(a) \in Nat /\ Len(b) \in Nat /\ Len(c) \in Nat
      /\ Len(d) \in Nat /\ Len(e) \in Nat /\ Len(all) \in Nat
      /\ Len(out) + Len(a) + Len(b) \in Nat
  BY ChainTypes
<1> DEFINE c2 == Append(c, Head(d))
           d2 == Tail(d)
           k == Len(out) + Len(a) + Len(b)
<1>2. /\ c2 \in Seq(Nat) /\ d2 \in Seq(Nat)
      /\ Len(c2) = Len(c) + 1 /\ Len(d2) = Len(d) - 1 /\ Len(d) > 0
  BY <1>1, MoveTypes
<1>3. ASSUME n > 0 PROVE Numbered(c2, k) /\ Numbered(d2, k + Len(c2))
  <2>0. n > 1  BY <1>3
  <2>1. Numbered(c, k) /\ Numbered(d, k + Len(c))  BY <2>0, <1>3 DEF Chain
  <2> QED  BY <1>1, <2>1, MoveNumbered
<1>7. n > 1 => n > 0  OBVIOUS
<1>4. k + Len(c2) + Len(d2) = k + Len(c) + Len(d)  BY <1>1, <1>2
<1>5. Len(d2) <= 1  BY <1>1, <1>2 DEF Chain
<1> HIDE DEF c2, d2
<1>6. Chain(out, a, b, c2, d2, e, all, n)  BY <1>1, <1>2, <1>3, <1>4, <1>5, <1>7 DEF Chain
<1> QED  BY <1>6 DEF c2, d2

LEMMA ChainFourth ==
  ASSUME NEW out, NEW a, NEW b, NEW c, NEW d, NEW e, NEW all,
         NEW n \in 0 .. 3, Chain(out, a, b, c, d, e, all, n), d = <<>>, e # <<>>
  PROVE  Chain(out, a, b, c, Append(d, Head(e)), Tail(e), all, n)
<1>1. /\ out \in Seq(Nat) /\ a \in Seq(Nat) /\ b \in Seq(Nat) /\ c \in Seq(Nat)
      /\ d \in Seq(Nat) /\ e \in Seq(Nat) /\ all \in Seq(Nat)
      /\ Len(out) \in Nat /\ Len(a) \in Nat /\ Len(b) \in Nat /\ Len(c) \in Nat
      /\ Len(d) \in Nat /\ Len(e) \in Nat /\ Len(all) \in Nat
      /\ Len(out) + Len(a) + Len(b) + Len(c) \in Nat
  BY ChainTypes
<1> DEFINE d2 == Append(d, Head(e))
           e2 == Tail(e)
           k == Len(out) + Len(a) + Len(b) + Len(c)
<1>2. /\ d2 \in Seq(Nat) /\ e2 \in Seq(Nat)
      /\ Len(d2) = Len(d) + 1 /\ Len(e2) = Len(e) - 1 /\ Len(e) > 0
  BY <1>1, MoveTypes
<1>3. ASSUME n > 1 PROVE Numbered(d2, k) /\ Numbered(e2, k + Len(d2))
  <2>1. Numbered(d, k) /\ Numbered(e, k + Len(d))  BY <1>3 DEF Chain
  <2> QED  BY <1>1, <2>1, MoveNumbered
<1>4. k + Len(d2) + Len(e2) = k + Len(d) + Len(e)  BY <1>1, <1>2
<1>5. Len(d2) <= 1  BY <1>1, <1>2
<1> HIDE DEF d2, e2
<1>6. Chain(out, a, b, c, d2, e2, all, n)  BY <1>1, <1>2, <1>3, <1>4, <1>5 DEF Chain
<1> QED  BY <1>6 DEF d2, e2

\* The next piece is sent.
LEMMA ChainSend ==
  ASSUME NEW out, NEW a, NEW b, NEW c, NEW d, NEW e, NEW all,
         NEW n \in 0 .. 3, Chain(out, a, b, c, d, e, all, n), n # 2
  PROVE  Chain(out, a, b, c, d, Append(e, Len(all) + 1), Append(all, Len(all) + 1), n)
<1>1. /\ out \in Seq(Nat) /\ a \in Seq(Nat) /\ b \in Seq(Nat) /\ c \in Seq(Nat)
      /\ d \in Seq(Nat) /\ e \in Seq(Nat) /\ all \in Seq(Nat)
      /\ Len(out) \in Nat /\ Len(a) \in Nat /\ Len(b) \in Nat /\ Len(c) \in Nat
      /\ Len(d) \in Nat /\ Len(e) \in Nat /\ Len(all) \in Nat
  BY ChainTypes
<1> DEFINE x == Len(all) + 1
           e2 == Append(e, x)
           s2 == Append(all, x)
           k == Len(out) + Len(a) + Len(b) + Len(c) + Len(d)
<1>2. /\ e2 \in Seq(Nat) /\ s2 \in Seq(Nat)
      /\ Len(e2) = Len(e) + 1 /\ Len(s2) = Len(all) + 1
  BY <1>1
<1>3. ASSUME n > 1 PROVE Numbered(e2, k)
  <2>1. Numbered(e, k)  BY <1>3 DEF Chain
  <2>2. k + Len(e) = Len(all)
    <3>1. Len(out) + Len(a) + Len(b) + Len(c) + Len(d) + Len(e) = Len(all)  BY <1>3 DEF Chain
    <3> QED  BY <1>1, <3>1
  <2>3. k \in Nat  BY <1>1
  <2>4. x = k + Len(e) + 1  BY <2>2
  <2> HIDE DEF x, k
  <2> QED  BY <1>1, <2>1, <2>3, <2>4, AppendNumbered
<1>4. Numbered(s2, 0)
  <2>1. x = 0 + Len(all) + 1 /\ Numbered(all, 0)  BY <1>1 DEF Chain
  <2> HIDE DEF x
  <2> QED  BY <1>1, <2>1, AppendNumbered
<1> HIDE DEF e2, s2
<1>6. Chain(out, a, b, c, d, e2, s2, n)
  <2>1. k \in Nat  BY <1>1
  <2>2. k + Len(e) <= Len(all) /\ (n > 2 => k + Len(e) = Len(all))  BY DEF Chain
  <2>3. k + Len(e2) <= Len(s2) /\ (n > 2 => k + Len(e2) = Len(s2))
    <3> HIDE DEF k
    <3>1. Len(e) \in Nat /\ Len(all) \in Nat  BY <1>1
    <3>2. k + Len(e2) <= Len(s2)
      <4>1. k + Len(e) <= Len(all)  BY <2>2
      <4> QED  BY <1>2, <2>1, <3>1, <4>1
    <3>3. ASSUME n > 2 PROVE k + Len(e2) = Len(s2)
      <4>1. k + Len(e) = Len(all)  BY <2>2, <3>3
      <4> QED  BY <1>2, <2>1, <3>1, <4>1
    <3> QED  BY <3>2, <3>3
  <2> QED  BY <1>1, <1>2, <1>3, <1>4, <2>3 DEF Chain
<1> QED  BY <1>6 DEF e2, s2

\* Pieces are lost, and what was in one piece is known to be so no longer.
LEMMA ChainLess ==
  ASSUME NEW out, NEW a, NEW b, NEW c, NEW d, NEW e, NEW all, NEW n \in 0 .. 3,
         Chain(out, a, b, c, d, e, all, n),
         NEW b2 \in {b, <<>>}, NEW c2 \in {c, <<>>}, NEW d2 \in {d, <<>>}, NEW e2 \in {e, <<>>},
         NEW n2 \in 0 .. n,
         n2 > 0 => b2 = b,
         n2 > 1 => c2 = c /\ d2 = d,
         n2 > 2 => e2 = e
  PROVE  Chain(out, a, b2, c2, d2, e2, all, n2)
<1>1. /\ out \in Seq(Nat) /\ a \in Seq(Nat) /\ b \in Seq(Nat) /\ c \in Seq(Nat)
      /\ d \in Seq(Nat) /\ e \in Seq(Nat) /\ all \in Seq(Nat)
      /\ Len(out) \in Nat /\ Len(a) \in Nat /\ Len(b) \in Nat /\ Len(c) \in Nat
      /\ Len(d) \in Nat /\ Len(e) \in Nat /\ Len(all) \in Nat
  BY ChainTypes
<1>2. <<>> \in Seq(Nat) /\ Len(<<>>) = 0  OBVIOUS
<1>3. /\ b2 \in Seq(Nat) /\ c2 \in Seq(Nat) /\ d2 \in Seq(Nat) /\ e2 \in Seq(Nat)
      /\ Len(b2) \in Nat /\ Len(c2) \in Nat /\ Len(d2) \in Nat /\ Len(e2) \in Nat
      /\ Len(b2) <= Len(b) /\ Len(c2) <= Len(c) /\ Len(d2) <= Len(d) /\ Len(e2) <= Len(e)
  <2>1. ASSUME NEW x \in Seq(Nat), NEW y \in {x, <<>>}
        PROVE  y \in Seq(Nat) /\ Len(y) \in Nat /\ Len(y) <= Len(x)
    <3>1. Len(x) \in Nat  OBVIOUS
    <3>2. CASE y = x  BY <3>1, <3>2
    <3>3. CASE y = <<>>  BY <1>2, <3>1, <3>3
    <3> QED  BY <3>2, <3>3
  <2> QED  BY <1>1, <2>1
<1>5. \A k : Numbered(<<>>, k)  BY <1>2 DEF Numbered
<1>6. Len(b2) <= 1 /\ Len(d2) <= 1
  <2>1. Len(b) <= 1 /\ Len(d) <= 1  BY DEF Chain
  <2> QED  BY <1>1, <1>3, <2>1
<1>7. Len(out) + Len(a) + Len(b2) + Len(c2) + Len(d2) + Len(e2) <= Len(all)
  <2>1. Len(out) + Len(a) + Len(b) + Len(c) + Len(d) + Len(e) <= Len(all)  BY DEF Chain
  <2> QED  BY <1>1, <1>3, <2>1
<1>4. Numbered(all, 0)  BY DEF Chain
<1>8. Numbered(out, 0) /\ Numbered(a, Len(out))  BY DEF Chain
<1>9. ASSUME n2 > 0
      PROVE  /\ Numbered(b2, Len(out) + Len(a))
             /\ Numbered(c2, Len(out) + Len(a) + Len(b2))
  <2>1. Numbered(b, Len(out) + Len(a)) /\ Numbered(c, Len(out) + Len(a) + Len(b))
    BY <1>9 DEF Chain
  <2>2. b2 = b  BY <1>9
  <2> QED  BY <1>5, <2>1, <2>2
<1>10. ASSUME n2 > 1
       PROVE  /\ Numbered(d2, Len(out) + Len(a) + Len(b2) + Len(c2))
              /\ Numbered(e2, Len(out) + Len(a) + Len(b2) + Len(c2) + Len(d2))
  <2>1. /\ Numbered(d, Len(out) + Len(a) + Len(b) + Len(c))
        /\ Numbered(e, Len(out) + Len(a) + Len(b) + Len(c) + Len(d))
    BY <1>10 DEF Chain
  <2>2. b2 = b /\ c2 = c /\ d2 = d  BY <1>10
  <2> QED  BY <1>5, <2>1, <2>2
<1>11. ASSUME n2 > 2 PROVE Len(out) + Len(a) + Len(b2) + Len(c2) + Len(d2) + Len(e2) = Len(all)
  <2>1. Len(out) + Len(a) + Len(b) + Len(c) + Len(d) + Len(e) = Len(all)  BY <1>11 DEF Chain
  <2> QED  BY <1>11, <2>1
<1> QED  BY <1>1, <1>3, <1>4, <1>6, <1>7, <1>8, <1>9, <1>10, <1>11 DEF Chain

\* A piece is sent that never enters.
LEMMA ChainLost ==
  ASSUME NEW out, NEW a, NEW b, NEW c, NEW d, NEW e, NEW all, NEW n \in 0 .. 2,
         Chain(out, a, b, c, d, e, all, n)
  PROVE  Chain(out, a, b, c, d, e, Append(all, Len(all) + 1), n)
<1>1. /\ out \in Seq(Nat) /\ a \in Seq(Nat) /\ b \in Seq(Nat) /\ c \in Seq(Nat)
      /\ d \in Seq(Nat) /\ e \in Seq(Nat) /\ all \in Seq(Nat)
      /\ Len(out) \in Nat /\ Len(a) \in Nat /\ Len(b) \in Nat /\ Len(c) \in Nat
      /\ Len(d) \in Nat /\ Len(e) \in Nat /\ Len(all) \in Nat
  BY ChainTypes
<1> DEFINE x == Len(all) + 1
           s2 == Append(all, x)
<1>2. /\ s2 \in Seq(Nat) /\ Len(s2) = Len(all) + 1 /\ Numbered(s2, 0)
  <2>1. x = 0 + Len(all) + 1 /\ Numbered(all, 0)  BY <1>1 DEF Chain
  <2> HIDE DEF x
  <2> QED  BY <1>1, <2>1, AppendNumbered
<1>3. Len(out) + Len(a) + Len(b) + Len(c) + Len(d) + Len(e) <= Len(s2)
  <2>1. Len(out) + Len(a) + Len(b) + Len(c) + Len(d) + Len(e) <= Len(all)  BY DEF Chain
  <2> QED  BY <1>1, <1>2, <2>1
<1> HIDE DEF s2
<1>4. Chain(out, a, b, c, d, e, s2, n)  BY <1>1, <1>2, <1>3 DEF Chain
<1> QED  BY <1>4 DEF s2

\* The box of a variable, when it is filled and when it is emptied.
LEMMA Boxes ==
  /\ Box(Nil) = <<>>
  /\ \A x : x # Nil => Box(x) = <<x>> /\ Box(x) # <<>> /\ Head(Box(x)) = x /\ Tail(Box(x)) = <<>>
  /\ \A x : x # Nil => Append(<<>>, x) = Box(x)
BY DEF Box

------------------------------------------------------------------------------
(* The hub's steps.                                                        *)

From(w) == IF w = "toClient" THEN Agent ELSE Client
To(w) == IF w = "toClient" THEN Client ELSE Agent

\* Both modules know the two directions by the same names.
LEMMA Directions ==
  /\ H!Ways = {"toClient", "toAgent"} /\ R!H!Ways = {"toClient", "toAgent"}
  /\ From("toClient") = Agent /\ To("toClient") = Client
  /\ From("toAgent") = Client /\ To("toAgent") = Agent
  /\ \A w \in H!Ways : From(w) \in Conns /\ To(w) \in Conns
BY DEF H!Ways, R!H!Ways, From, To, Conns

\* What is known of the session's record.
LEMMA SessionRecord ==
  ASSUME Session
  PROVE  /\ ses = [k \in {Client} |-> ses[Client]]
         /\ ses[Client] = [pc |-> ses[Client].pc, network |-> Network, name |-> Name,
                           agent |-> ses[Client].agent]
         /\ ses[Client].pc \in {"relaying", "closing", "draining", "returned"}
         /\ ses[Client].pc # "returned" => ses[Client].agent = Agent
         /\ ses[Client].pc = "returned" => ses[Client].agent = Nil
<1>1. ses \in [{Client} -> [pc : {"relaying", "closing", "draining", "returned"},
                            network : {Network}, name : {Name}, agent : {Agent, Nil}]]
  BY DEF Session
<1>2. ses[Client] \in [pc : {"relaying", "closing", "draining", "returned"},
                       network : {Network}, name : {Name}, agent : {Agent, Nil}]
  BY <1>1
<1>3. (ses[Client].agent = Nil) <=> (ses[Client].pc = "returned")  BY DEF Session
<1> QED  BY <1>1, <1>2, <1>3

\* The relay's own steps: it winds down once a direction has ended.
LEMMA WindStep ==
  ASSUME Session, HandleConnect
  PROVE  /\ Session'
         /\ UNCHANGED <<remote, copy, wires, client, server, shell>>
         /\ SomeDone
         /\ \A c \in Conns : conn'[c] = conn[c] \/ conn'[c] = "closed"
         /\ reset' = reset \cup {c \in Conns : conn'[c] # conn[c] /\ up[c] # <<>>}
<1>1. /\ R!H!HandleConnect(Client) /\ UNCHANGED <<wires, client, server, shell>>
      /\ reset' = reset \cup {c \in Conns : conn'[c] # conn[c] /\ up[c] # <<>>}
  BY DEF HandleConnect, R!HandleConnect, Local, Conns, R!wires, wires
<1>2. ses[Client].pc \in {"relaying", "closing", "draining", "returned"}
  BY SessionRecord
<1>3. R!H!FirstDone(Client) \/ R!H!CloseAgent(Client) \/ R!H!EndRelay(Client)
  BY <1>1, <1>2 DEF R!H!HandleConnect, R!H!TakePeer, R!H!Refuse, R!H!StartRelay
<1>4. /\ conn \in [Conns -> {"open", "closed"}] /\ copy \in [{Client} -> [H!Ways -> {"read", "write", "done"}]]
      /\ conn[Client] = "open" <=> ses[Client].pc = "relaying"
      /\ conn[Agent] = "open" <=> ses[Client].pc \in {"relaying", "closing"}
      /\ Client \in Conns /\ Agent \in Conns /\ Client # Agent
  BY EndsAssumption DEF Session, Conns
<1> DEFINE record(p, a) == [pc |-> p, network |-> Network, name |-> Name, agent |-> a]
<1>0. ASSUME NEW r, ses' = [ses EXCEPT ![Client] = r] PROVE ses' = [k \in {Client} |-> r]
  BY <1>0, SessionRecord
<1>5. CASE R!H!FirstDone(Client)
  <2>1. /\ ses[Client].pc = "relaying" /\ \E w \in H!Ways : copy[Client][w] = "done"
        /\ conn' = [conn EXCEPT ![Client] = "closed"]
        /\ ses' = [ses EXCEPT ![Client] = [ses[Client] EXCEPT !.pc = "closing"]]
        /\ UNCHANGED <<dir, entries, started, ended, active, remote, reg, copy>>
    BY <1>5, Directions DEF R!H!FirstDone, R!H!Close, R!H!audit
  <2>2. ses' = [k \in {Client} |-> record("closing", Agent)]
    <3>1. [ses[Client] EXCEPT !.pc = "closing"] = record("closing", Agent)
      BY <2>1, SessionRecord
    <3> QED  BY <1>0, <2>1, <3>1
  <2>3. conn'[Client] = "closed" /\ conn'[Agent] = conn[Agent] /\ conn' \in [Conns -> {"open", "closed"}]
    BY <1>4, <2>1
  <2>4. Session'  BY <1>4, <2>1, <2>2, <2>3 DEF Session
  <2> QED  BY <1>1, <2>1, <2>3, <2>4 DEF SomeDone, Conns
<1>6. CASE R!H!CloseAgent(Client)
  <2>1. /\ ses[Client].pc = "closing"
        /\ conn' = [conn EXCEPT ![ses[Client].agent] = "closed"]
        /\ ses' = [ses EXCEPT ![Client] = [ses[Client] EXCEPT !.pc = "draining"]]
        /\ UNCHANGED <<dir, entries, started, ended, active, remote, reg, copy>>
    BY <1>6 DEF R!H!CloseAgent, R!H!Close, R!H!audit
  <2>2. ses' = [k \in {Client} |-> record("draining", Agent)] /\ ses[Client].agent = Agent
    <3>1. [ses[Client] EXCEPT !.pc = "draining"] = record("draining", Agent) /\ ses[Client].agent = Agent
      BY <2>1, SessionRecord
    <3> QED  BY <1>0, <2>1, <3>1
  <2>3. conn'[Agent] = "closed" /\ conn'[Client] = conn[Client] /\ conn' \in [Conns -> {"open", "closed"}]
    BY <1>4, <2>1, <2>2
  <2>4. SomeDone  BY <2>1 DEF Session, SomeDone
  <2>5. Session'  BY <1>4, <2>1, <2>2, <2>3, <2>4 DEF Session, SomeDone
  <2> QED  BY <1>1, <2>1, <2>3, <2>4, <2>5 DEF Conns
<1>7. CASE R!H!EndRelay(Client)
  <2>1. /\ ses[Client].pc = "draining" /\ \A w \in H!Ways : copy[Client][w] = "done"
        /\ ses' = [ses EXCEPT ![Client] = [[ses[Client] EXCEPT !.pc = "returned"] EXCEPT !.agent = Nil]]
        /\ UNCHANGED <<dir, entries, started, conn, remote, reg, copy>>
        /\ R!H!Audit!End(Client)
    BY <1>7, Directions DEF R!H!EndRelay, R!H!Audit!End
  <2>2. ses' = [k \in {Client} |-> record("returned", Nil)]
    <3>0. [ses[Client] EXCEPT !.pc = "returned"] = record("returned", Agent)
      BY <2>1, SessionRecord
    <3>1. [[ses[Client] EXCEPT !.pc = "returned"] EXCEPT !.agent = Nil] = record("returned", Nil)
      <4>1. [record("returned", Agent) EXCEPT !.agent = Nil] = record("returned", Nil)  OBVIOUS
      <4> QED  BY <3>0, <4>1, Zenon
    <3> QED  BY <1>0, <2>1, <3>1
  <2>3. active = 1 /\ ended[Client] = 0 /\ ended \in [{Client} -> {0, 1}] /\ started[Client] = 1
    BY <2>1 DEF Session
  <2>4. active' = 0 /\ ended' = [ended EXCEPT ![Client] = 1]
    BY <2>1, <2>3 DEF R!H!Audit!End, R!H!Audit!EndsNow, R!H!Audit!IsOpen
  <2>5. ended'[Client] = 1 /\ ended' \in [{Client} -> {0, 1}]  BY <2>3, <2>4
  <2>6. SomeDone  BY <2>1, Directions DEF SomeDone
  <2>7. Session'  BY <1>4, <2>1, <2>2, <2>4, <2>5, <2>6 DEF Session, SomeDone
  <2> QED  BY <1>1, <2>1, <2>6, <2>7
<1> QED  BY <1>3, <1>5, <1>6, <1>7

\* What every step of a copier leaves alone.
CopierOnly == UNCHANGED <<dir, entries, started, ended, active, conn, remote, reg, ses, client, server, shell>>

Copies(w, from, to) ==
  /\ copy[Client][w] = from
  /\ copy' = [copy EXCEPT ![Client] = [copy[Client] EXCEPT ![w] = to]]
  /\ CopierOnly

\* A session's other steps: nothing but the copiers' places and the ends'
\* going away changes in the hub.
LEMMA SessionKept ==
  ASSUME Session, UNCHANGED <<dir, entries, started, ended, active, conn, reg, ses>>,
         remote' \in [Conns -> BOOLEAN],
         copy' \in [{Client} -> [H!Ways -> {"read", "write", "done"}]],
         \A w \in H!Ways : copy[Client][w] = "done" => copy'[Client][w] = "done"
  PROVE  Session'
BY DEF Session

LEMMA CopySession ==
  ASSUME Session, NEW w \in H!Ways, NEW from \in {"read", "write"},
         NEW to \in {"read", "write", "done"}, Copies(w, from, to)
  PROVE  /\ Session'
         /\ copy'[Client][w] = to
         /\ \A v \in H!Ways : v # w => copy'[Client][v] = copy[Client][v]
<1>1. copy \in [{Client} -> [H!Ways -> {"read", "write", "done"}]] /\ remote \in [Conns -> BOOLEAN]
  BY DEF Session
<1>2. copy[Client][w] = from /\ copy' = [copy EXCEPT ![Client] = [copy[Client] EXCEPT ![w] = to]]
  BY DEF Copies
<1>3. /\ copy'[Client] = [copy[Client] EXCEPT ![w] = to]
      /\ copy' \in [{Client} -> [H!Ways -> {"read", "write", "done"}]]
      /\ \A v \in H!Ways : copy'[Client][v] = IF v = w THEN to ELSE copy[Client][v]
  BY <1>1, <1>2
<1>4. Session'  BY <1>1, <1>2, <1>3, SessionKept DEF Copies, CopierOnly
<1> QED  BY <1>3, <1>4

\* The copier of a direction reads, writes or fails.
LEMMA CopyStep ==
  ASSUME Session, NEW w \in H!Ways, CopyMsgs(w)
  PROVE  /\ \/ /\ Copies(w, "read", "write")
               /\ conn[From(w)] = "open" /\ remote[From(w)] /\ up[From(w)] # <<>>
               /\ held' = [held EXCEPT ![Client] = [held[Client] EXCEPT ![w] = Head(up[From(w)])]]
               /\ up' = [up EXCEPT ![From(w)] = Tail(up[From(w)])]
               /\ down' = down
            \/ /\ Copies(w, "read", "done")
               /\ conn[From(w)] = "closed" \/ ~remote[From(w)]
               /\ UNCHANGED wires
            \/ /\ Copies(w, "write", "read")
               /\ conn[To(w)] = "open"
               /\ down' = IF To(w) \in attached
                            THEN [down EXCEPT ![To(w)] = Append(down[To(w)], held[Client][w])]
                            ELSE down
               /\ held' = [held EXCEPT ![Client] = [held[Client] EXCEPT ![w] = Nil]]
               /\ up' = up
            \/ /\ Copies(w, "write", "done")
               /\ conn[To(w)] = "closed" \/ To(w) \notin attached
               /\ held' = [held EXCEPT ![Client] = [held[Client] EXCEPT ![w] = Nil]]
               /\ UNCHANGED <<up, down>>
         /\ reset' = IF copy[Client][w] = "write" /\ To(w) \notin attached
                       THEN reset \cup {To(w)} ELSE reset
<1>1. /\ R!CopyMsgs(Client, w) /\ UNCHANGED <<client, server, shell>>
      /\ reset' = IF copy[Client][w] = "write" /\ H!Dst(Client, w) \notin attached
                    THEN reset \cup {H!Dst(Client, w)} ELSE reset
  BY DEF CopyMsgs, Local
<1>2. copy[Client][w] \in {"read", "write"}
  BY <1>1 DEF R!CopyMsgs, R!CopyRead, R!CopyReadFails, R!CopyWrite, R!CopyWriteFails,
     R!H!CopyRead, R!H!CopyReadFails, R!H!CopyWrite, R!H!CopyWriteFails, R!H!Copier
<1>3. ses[Client].agent = Agent
  <2>1. ses[Client].pc # "returned"  BY <1>2 DEF Session
  <2> QED  BY <2>1, SessionRecord
<1>4. /\ R!H!Src(Client, w) = From(w) /\ R!H!Dst(Client, w) = To(w) /\ H!Dst(Client, w) = To(w)
  BY <1>3 DEF R!H!Src, R!H!Dst, H!Dst, From, To
<1>5. \A from, to : R!H!Copier(Client, w, from, to) /\ UNCHANGED <<client, server, shell>> =>
        Copies(w, from, to)
  BY DEF R!H!Copier, R!H!audit, Copies, CopierOnly
<1>6. CASE R!CopyRead(Client, w)
  BY <1>1, <1>4, <1>5, <1>6 DEF R!CopyRead, R!H!CopyRead
<1>7. CASE R!CopyReadFails(Client, w)
  BY <1>1, <1>4, <1>5, <1>7 DEF R!CopyReadFails, R!H!CopyReadFails, R!wires, wires
<1>8. CASE R!CopyWrite(Client, w)
  BY <1>1, <1>4, <1>5, <1>8 DEF R!CopyWrite, R!H!CopyWrite
<1>9. CASE R!CopyWriteFails(Client, w)
  BY <1>1, <1>4, <1>5, <1>9 DEF R!CopyWriteFails, R!H!CopyWriteFails
<1> QED  BY <1>1, <1>6, <1>7, <1>8, <1>9 DEF R!CopyMsgs

\* The hub learns that an end is gone.
LEMMA GoneStep ==
  ASSUME Session, NEW c \in Conns, RemoteGone(c)
  PROVE  /\ Session'
         /\ c \notin attached /\ remote'[c] = FALSE
         /\ \A b \in Conns : b # c => remote'[b] = remote[b]
         /\ \/ up[c] = <<>> /\ up' = up
            \/ c \in reset /\ up' = [up EXCEPT ![c] = <<>>]
         /\ UNCHANGED <<conn, copy, down, held, reset, client, server, shell>>
<1>1. /\ R!H!RemoteGone(c) /\ c \notin attached
      /\ \/ up[c] = <<>> /\ up' = up
         \/ c \in reset /\ up' = [up EXCEPT ![c] = <<>>]
      /\ UNCHANGED <<down, held, reset, client, server, shell>>
  BY DEF RemoteGone, R!RemoteGone, R!RemoteReset, Local, R!wires
<1>2. /\ remote' = [remote EXCEPT ![c] = FALSE]
      /\ UNCHANGED <<dir, entries, started, ended, active, conn, reg, ses, copy>>
  BY <1>1 DEF R!H!RemoteGone, R!H!audit
<1>3. remote \in [Conns -> BOOLEAN] /\ copy \in [{Client} -> [H!Ways -> {"read", "write", "done"}]]
  BY DEF Session
<1>4. remote' \in [Conns -> BOOLEAN] /\ remote'[c] = FALSE /\ \A b \in Conns : b # c => remote'[b] = remote[b]
  BY <1>2, <1>3
<1>5. Session'  BY <1>2, <1>3, <1>4, SessionKept
<1> QED  BY <1>1, <1>2, <1>4, <1>5

------------------------------------------------------------------------------
(* The two directions, step by step.                                       *)

LEMMA Depths == /\ KeyboardDepth \in 0 .. 3 /\ ScreenDepth \in {0, 1, 3}
                /\ KeyboardDepth' \in 0 .. 3 /\ ScreenDepth' \in {0, 1, 3}
BY DEF KeyboardDepth, ScreenDepth

\* Nothing gets through, and something may be lost.
LEMMA KeyboardLess ==
  ASSUME KeyboardChain, UNCHANGED <<consumed, ptyIn, typed>>,
         inbuf' \in {inbuf, Nil}, down'[Agent] \in {down[Agent], <<>>},
         held'[Client]["toAgent"] \in {held[Client]["toAgent"], Nil},
         up'[Client] \in {up[Client], <<>>},
         KeyboardDepth' <= KeyboardDepth,
         KeyboardDepth' > 0 => inbuf' = inbuf,
         KeyboardDepth' > 1 => /\ down'[Agent] = down[Agent]
                               /\ held'[Client]["toAgent"] = held[Client]["toAgent"],
         KeyboardDepth' > 2 => up'[Client] = up[Client]
  PROVE  KeyboardChain'
<1> DEFINE d == held[Client]["toAgent"]
           d2 == held'[Client]["toAgent"]
<1>1. Box(inbuf') \in {Box(inbuf), <<>>} /\ Box(d2) \in {Box(d), <<>>}  BY Boxes
<1>2. KeyboardDepth \in 0 .. 3 /\ KeyboardDepth' \in 0 .. KeyboardDepth  BY Depths
<1>3. Chain(consumed, ptyIn, Box(inbuf'), down'[Agent], Box(d2), up'[Client], typed,
            KeyboardDepth')
  <2> HIDE DEF d, d2
  <2>1. Chain(consumed, ptyIn, Box(inbuf), down[Agent], Box(d), up[Client], typed, KeyboardDepth)
    BY DEF KeyboardChain, d
  <2>2. (KeyboardDepth' > 0 => Box(inbuf') = Box(inbuf)) /\ (KeyboardDepth' > 1 => Box(d2) = Box(d))
    BY DEF d, d2
  <2> QED  BY <1>1, <1>2, <2>1, <2>2, ChainLess
<1> QED  BY <1>3 DEF KeyboardChain

LEMMA ScreenLess ==
  ASSUME ScreenChain, UNCHANGED <<displayed, printed>>, down'[Client] = down[Client],
         outbuf' \in {outbuf, Nil}, up'[Agent] \in {up[Agent], <<>>},
         held'[Client]["toClient"] \in {held[Client]["toClient"], Nil},
         ptyOut' = ptyOut,
         ScreenDepth' <= ScreenDepth,
         ScreenDepth' > 0 => held'[Client]["toClient"] = held[Client]["toClient"],
         ScreenDepth' > 1 => up'[Agent] = up[Agent] /\ outbuf' = outbuf
  PROVE  ScreenChain'
<1> DEFINE b == held[Client]["toClient"]
           b2 == held'[Client]["toClient"]
<1>1. Box(outbuf') \in {Box(outbuf), <<>>} /\ Box(b2) \in {Box(b), <<>>}  BY Boxes
<1>2. ScreenDepth \in 0 .. 3 /\ ScreenDepth' \in 0 .. ScreenDepth  BY Depths
<1>3. Chain(displayed, down[Client], Box(b2), up'[Agent], Box(outbuf'), ptyOut, printed, ScreenDepth')
  <2> HIDE DEF b, b2
  <2>1. Chain(displayed, down[Client], Box(b), up[Agent], Box(outbuf), ptyOut, printed, ScreenDepth)
    BY DEF ScreenChain, b
  <2>2. (ScreenDepth' > 0 => Box(b2) = Box(b)) /\ (ScreenDepth' > 1 => Box(outbuf') = Box(outbuf))
    BY DEF b, b2
  <2> QED  BY <1>1, <1>2, <2>1, <2>2, ChainLess
<1> QED  BY <1>3 DEF ScreenChain

\* No piece moves; loops, copiers and ends may stop.
Still ==
  /\ UNCHANGED <<wires, typed, displayed, ptyIn, ptyOut, consumed, printed>>
  /\ inbuf' \in {inbuf, Nil} /\ outbuf' \in {outbuf, Nil}
  /\ running' => running
  /\ open' => open
  /\ \A c \in Conns : conn'[c] = "open" => conn[c] = "open"
  /\ \A w \in H!Ways : At(copy'[Client][w]) => At(copy[Client][w])
  /\ At(loop') => At(loop) /\ inbuf' = inbuf
  /\ At(pump') => At(pump) /\ outbuf' = outbuf

LEMMA StillChains ==
  ASSUME KeyboardChain, ScreenChain, Still
  PROVE  KeyboardChain' /\ ScreenChain'
<1>1. /\ UNCHANGED <<up, down, held, typed, displayed, ptyIn, ptyOut, consumed, printed>>
      /\ inbuf' \in {inbuf, Nil} /\ outbuf' \in {outbuf, Nil}
  BY DEF Still, wires
<1>2. /\ running' => running
      /\ open' => open
      /\ conn'[Client] = "open" => conn[Client] = "open"
      /\ conn'[Agent] = "open" => conn[Agent] = "open"
      /\ At(copy'[Client]["toClient"]) => At(copy[Client]["toClient"])
      /\ At(copy'[Client]["toAgent"]) => At(copy[Client]["toAgent"])
      /\ At(loop') => At(loop) /\ inbuf' = inbuf
      /\ At(pump') => At(pump) /\ outbuf' = outbuf
  BY Directions DEF Still, Conns
<1>3. KeyboardDepth' <= KeyboardDepth /\ (KeyboardDepth' > 0 => inbuf' = inbuf)
  <2> HIDE DEF At
  <2> QED  BY <1>2 DEF KeyboardDepth
<1>4. ScreenDepth' <= ScreenDepth /\ (ScreenDepth' > 1 => outbuf' = outbuf)
  BY <1>2 DEF ScreenDepth
<1>5. KeyboardChain'  BY <1>1, <1>3, KeyboardLess
<1>6. ScreenChain'  BY <1>1, <1>4, ScreenLess
<1> QED  BY <1>5, <1>6

\* Steps at the hub at which nothing moves.
LEMMA StillWind == ASSUME Session, HandleConnect PROVE Still
  BY WindStep DEF Still, client, server, shell

LEMMA StillCopy == ASSUME Session, NEW w \in H!Ways, CopyMsgs(w), UNCHANGED wires PROVE Still
<1>1. PICK from \in {"read", "write"}, to \in {"read", "write", "done"} : Copies(w, from, to)
  BY CopyStep
<1>2. \A v \in H!Ways : v # w => copy'[Client][v] = copy[Client][v]
  BY <1>1, CopySession
<1>3. At(copy[Client][w]) /\ UNCHANGED <<conn, client, server, shell>>
  BY <1>1 DEF Copies, CopierOnly, At
<1> QED  BY <1>2, <1>3 DEF Still, client, server, shell

LEMMA StillGone == ASSUME Session, NEW c \in Conns, RemoteGone(c), UNCHANGED up PROVE Still
  BY GoneStep DEF Still, client, server, shell, wires

\* Steps of the programs at which nothing moves.
LEMMA StillProgram ==
  ASSUME TypeFails \/ ClientReadFails \/ Leave \/ LoopReadFails \/ LoopWriteFails \/ CloseShell
           \/ LoopClose \/ PumpReadFails \/ PumpWriteFails \/ PumpClose \/ ShellExits \/ UNCHANGED vars
  PROVE  Still
<1>1. ASSUME TypeFails \/ ClientReadFails \/ Leave PROVE Still
  BY <1>1 DEF TypeFails, ClientReadFails, Leave, Exit, Still, hub, wires, server, shell
<1>2. ASSUME LoopReadFails \/ LoopWriteFails \/ CloseShell \/ LoopClose PROVE Still
  BY <1>2 DEF LoopReadFails, LoopWriteFails, CloseShell, LoopClose, Loop, Still, hub, wires,
     client, shell, At
<1>3. ASSUME PumpReadFails \/ PumpWriteFails \/ PumpClose PROVE Still
  BY <1>3 DEF PumpReadFails, PumpWriteFails, PumpClose, Pump, Still, hub, wires, client, shell, At
<1>4. ASSUME ShellExits \/ UNCHANGED vars PROVE Still
  BY <1>4 DEF ShellExits, vars, Still, hub, wires, client, server, shell
<1> QED  BY <1>1, <1>2, <1>3, <1>4

\* A copier reads from, or writes to, a wire.
LEMMA CopyMoves ==
  ASSUME Session, Shape, KeyboardChain, ScreenChain, NEW w \in H!Ways, CopyMsgs(w)
  PROVE  KeyboardChain' /\ ScreenChain'
<1>1. /\ up \in [Conns -> Seq(Nat)] /\ down \in [Conns -> Seq(Nat)]
      /\ held \in [{Client} -> [H!Ways -> Nat \cup {Nil}]]
      /\ \A v \in H!Ways : held[Client][v] # Nil <=> copy[Client][v] = "write"
      /\ Client \in Conns /\ Agent \in Conns /\ Client # Agent
      /\ Nil \notin Nat
  BY EndsAssumption, NilAssumption DEF Shape, Pieces, Holding, Conns
<1> DEFINE v == IF w = "toClient" THEN "toAgent" ELSE "toClient"
<1>2. /\ v \in H!Ways /\ v # w
      /\ w = "toClient" \/ w = "toAgent"
      /\ From(w) \in Conns /\ To(w) \in Conns /\ From(w) # To(w)
      /\ From(v) = To(w) /\ To(v) = From(w)
  BY <1>1, Directions
<1> HIDE DEF v
<1>3. ASSUME UNCHANGED wires PROVE KeyboardChain' /\ ScreenChain'
  BY <1>3, StillCopy, StillChains
<1>4. ASSUME Copies(w, "read", "write"), up[From(w)] # <<>>,
             held' = [held EXCEPT ![Client] = [held[Client] EXCEPT ![w] = Head(up[From(w)])]],
             up' = [up EXCEPT ![From(w)] = Tail(up[From(w)])],
             down' = down
      PROVE  KeyboardChain' /\ ScreenChain'
  <2>1. /\ copy[Client][w] = "read" /\ copy'[Client][w] = "write"
        /\ copy'[Client][v] = copy[Client][v]
        /\ UNCHANGED <<conn, running, open, loop, inbuf, pump, outbuf, typed, displayed, ptyIn, ptyOut,
                       consumed, printed>>
    BY <1>2, <1>4, CopySession DEF Copies, CopierOnly, client, server, shell
  <2>2. Head(up[From(w)]) \in Nat
    <3>1. up[From(w)] \in Seq(Nat)  BY <1>1, <1>2
    <3> QED  BY <1>4, <3>1
  <2>3. /\ held[Client][w] = Nil /\ held'[Client][w] = Head(up[From(w)])
        /\ held'[Client][v] = held[Client][v]
        /\ up'[From(w)] = Tail(up[From(w)]) /\ up'[To(w)] = up[To(w)]
    <3>1. held'[Client] = [held[Client] EXCEPT ![w] = Head(up[From(w)])]  BY <1>1, <1>4
    <3>2. held[Client] \in [H!Ways -> Nat \cup {Nil}]  BY <1>1
    <3>3. held[Client][w] = Nil  BY <1>1, <2>1
    <3> QED  BY <1>1, <1>2, <1>4, <3>1, <3>2, <3>3
  <2>4. KeyboardDepth' = KeyboardDepth /\ ScreenDepth' = ScreenDepth
    <3>1. /\ At(copy'[Client]["toAgent"]) <=> At(copy[Client]["toAgent"])
          /\ At(copy'[Client]["toClient"]) <=> At(copy[Client]["toClient"])
      BY <1>2, <2>1, Directions DEF At, v
    <3>2. UNCHANGED <<conn, running, open, loop, pump>>  BY <2>1
    <3> HIDE DEF At
    <3> QED  BY <3>1, <3>2 DEF KeyboardDepth, ScreenDepth
  <2>5. Append(Box(held[Client][w]), Head(up[From(w)])) = Box(held'[Client][w]) /\ Box(held[Client][w]) = <<>>
    BY <1>1, <2>2, <2>3, Boxes
  <2>6. CASE w = "toAgent"
    <3>1. From(w) = Client /\ v = "toClient" /\ To(w) = Agent  BY <2>6, Directions DEF v
    <3>2. KeyboardChain'
      <4>1. Chain(consumed, ptyIn, Box(inbuf), down[Agent],
                  Append(Box(held[Client]["toAgent"]), Head(up[Client])), Tail(up[Client]),
                  typed, KeyboardDepth)
        BY <1>4, <2>5, <2>6, <3>1, Depths, ChainFourth DEF KeyboardChain
      <4> QED  BY <1>4, <2>1, <2>3, <2>4, <2>5, <2>6, <3>1, <4>1 DEF KeyboardChain
    <3>3. ScreenChain'  BY <1>4, <2>1, <2>3, <2>4, <3>1 DEF ScreenChain
    <3> QED  BY <3>2, <3>3
  <2>7. CASE w = "toClient"
    <3>1. From(w) = Agent /\ v = "toAgent" /\ To(w) = Client  BY <2>7, Directions DEF v
    <3>2. ScreenChain'
      <4>1. Chain(displayed, down[Client], Append(Box(held[Client]["toClient"]), Head(up[Agent])),
                  Tail(up[Agent]), Box(outbuf), ptyOut, printed, ScreenDepth)
        <5>1. ScreenDepth \in 0 .. 3  BY Depths
        <5> QED  BY <1>4, <2>5, <2>7, <3>1, <5>1, ChainSecond DEF ScreenChain
      <4> QED  BY <1>4, <2>1, <2>3, <2>4, <2>5, <2>7, <3>1, <4>1 DEF ScreenChain
    <3>3. KeyboardChain'  BY <1>4, <2>1, <2>3, <2>4, <3>1 DEF KeyboardChain
    <3> QED  BY <3>2, <3>3
  <2> QED  BY <1>2, <2>6, <2>7
<1>5. ASSUME NEW to \in {"read", "done"}, Copies(w, "write", to),
             held' = [held EXCEPT ![Client] = [held[Client] EXCEPT ![w] = Nil]],
             up' = up
      PROVE  /\ down' = down /\ (To(w) \notin attached \/ to = "done") => KeyboardChain' /\ ScreenChain'
             /\ to = "read" /\ To(w) \in attached
                  /\ down' = [down EXCEPT ![To(w)] = Append(down[To(w)], held[Client][w])]
                  => KeyboardChain' /\ ScreenChain'
  <2>1. /\ copy[Client][w] = "write" /\ copy'[Client][w] = to
        /\ copy'[Client][v] = copy[Client][v]
        /\ UNCHANGED <<conn, running, open, loop, inbuf, pump, outbuf, typed, displayed, ptyIn, ptyOut,
                       consumed, printed>>
    BY <1>2, <1>5, CopySession DEF Copies, CopierOnly, client, server, shell
  <2>2. held[Client][w] # Nil /\ held'[Client][w] = Nil /\ held'[Client][v] = held[Client][v]
    <3>1. held'[Client] = [held[Client] EXCEPT ![w] = Nil]  BY <1>1, <1>5
    <3>2. held[Client] \in [H!Ways -> Nat \cup {Nil}]  BY <1>1
    <3> QED  BY <1>1, <1>2, <2>1, <3>1, <3>2
  <2>3. /\ Box(held[Client][w]) # <<>> /\ Head(Box(held[Client][w])) = held[Client][w]
        /\ Tail(Box(held[Client][w])) = <<>> /\ Box(held'[Client][w]) = <<>>
    BY <2>2, Boxes
  <2>4. /\ At(copy[Client][w]) /\ (At(copy'[Client][w]) <=> to = "read")
        /\ At(copy'[Client][v]) <=> At(copy[Client][v])
        /\ UNCHANGED <<conn, running, open, loop, pump>>
    BY <2>1 DEF At
  <2>5. /\ Agent \in attached <=> open
        /\ Client \in attached <=> running
    BY EndsAssumption DEF attached
  <2>6. CASE w = "toAgent"
    <3>1. From(w) = Client /\ v = "toClient" /\ To(w) = Agent  BY <2>6, Directions DEF v
    <3>2. ScreenDepth' = ScreenDepth /\ KeyboardDepth' <= KeyboardDepth
      <4> HIDE DEF At
      <4> QED  BY <2>4, <2>6, <3>1 DEF ScreenDepth, KeyboardDepth
    <3>3. ASSUME down' = down, To(w) \notin attached \/ to = "done"
          PROVE  KeyboardChain' /\ ScreenChain'
      <4>1. KeyboardDepth' <= 1
        <5> HIDE DEF At
        <5> QED  BY <2>4, <2>5, <2>6, <3>1, <3>3 DEF KeyboardDepth
      <4>2. ~(KeyboardDepth' > 1) /\ ~(KeyboardDepth' > 2)  BY <4>1, Depths
      <4>3. KeyboardChain'  BY <1>5, <2>1, <2>2, <2>6, <3>1, <3>2, <3>3, <4>2, KeyboardLess
      <4>4. ScreenChain'  BY <1>5, <2>1, <2>2, <3>1, <3>2, <3>3 DEF ScreenChain
      <4> QED  BY <4>3, <4>4
    <3>4. ASSUME to = "read", To(w) \in attached,
                 down' = [down EXCEPT ![To(w)] = Append(down[To(w)], held[Client][w])]
          PROVE  KeyboardChain' /\ ScreenChain'
      <4>1. KeyboardDepth' = KeyboardDepth /\ KeyboardDepth # 1
        <5> HIDE DEF At
        <5> QED  BY <2>4, <2>5, <2>6, <3>1, <3>4 DEF KeyboardDepth
      <4>2. down'[Agent] = Append(down[Agent], held[Client]["toAgent"]) /\ down'[Client] = down[Client]
        BY <1>1, <2>6, <3>1, <3>4
      <4>3. Chain(consumed, ptyIn, Box(inbuf), Append(down[Agent], Head(Box(held[Client]["toAgent"]))),
                  Tail(Box(held[Client]["toAgent"])), up[Client], typed, KeyboardDepth)
        BY <2>3, <2>6, <4>1, Depths, ChainThird DEF KeyboardChain
      <4>4. KeyboardChain'  BY <1>5, <2>1, <2>3, <2>6, <4>1, <4>2, <4>3 DEF KeyboardChain
      <4>5. ScreenChain'  BY <1>5, <2>1, <2>2, <3>1, <3>2, <4>2 DEF ScreenChain
      <4> QED  BY <4>4, <4>5
    <3> QED  BY <3>3, <3>4
  <2>7. CASE w = "toClient"
    <3>1. From(w) = Agent /\ v = "toAgent" /\ To(w) = Client  BY <2>7, Directions DEF v
    <3>2. KeyboardDepth' = KeyboardDepth /\ ScreenDepth' <= ScreenDepth
      <4> HIDE DEF At
      <4> QED  BY <2>4, <2>7, <3>1 DEF ScreenDepth, KeyboardDepth
    <3>3. ASSUME down' = down, To(w) \notin attached \/ to = "done"
          PROVE  KeyboardChain' /\ ScreenChain'
      <4>1. ScreenDepth' = 0
        <5> HIDE DEF At
        <5> QED  BY <2>4, <2>5, <2>7, <3>1, <3>3 DEF ScreenDepth
      <4>2. ScreenChain'  BY <1>5, <2>1, <2>2, <2>7, <3>1, <3>2, <3>3, <4>1, ScreenLess
      <4>3. KeyboardChain'  BY <1>5, <2>1, <2>2, <3>1, <3>2, <3>3 DEF KeyboardChain
      <4> QED  BY <4>2, <4>3
    <3>4. ASSUME to = "read", To(w) \in attached,
                 down' = [down EXCEPT ![To(w)] = Append(down[To(w)], held[Client][w])]
          PROVE  KeyboardChain' /\ ScreenChain'
      <4>1. ScreenDepth' = ScreenDepth /\ ScreenDepth > 0
        <5> HIDE DEF At
        <5> QED  BY <2>4, <2>5, <2>7, <3>1, <3>4 DEF ScreenDepth
      <4>2. down'[Client] = Append(down[Client], held[Client]["toClient"]) /\ down'[Agent] = down[Agent]
        BY <1>1, <2>7, <3>1, <3>4
      <4>3. Chain(displayed, Append(down[Client], Head(Box(held[Client]["toClient"]))),
                  Tail(Box(held[Client]["toClient"])), up[Agent], Box(outbuf), ptyOut, printed, ScreenDepth)
        <5>1. ScreenDepth \in 0 .. 3  BY Depths
        <5> QED  BY <2>3, <2>7, <4>1, <5>1, ChainFirst DEF ScreenChain
      <4>4. ScreenChain'  BY <1>5, <2>1, <2>3, <2>7, <4>1, <4>2, <4>3 DEF ScreenChain
      <4>5. KeyboardChain'  BY <1>5, <2>1, <2>2, <3>1, <3>2, <4>2 DEF KeyboardChain
      <4> QED  BY <4>4, <4>5
    <3> QED  BY <3>3, <3>4
  <2> QED  BY <1>2, <2>6, <2>7
<1> QED  BY <1>3, <1>4, <1>5, CopyStep DEF wires

\* What an end that was reset had sent, and the hub not read, is lost.
LEMMA GoneMoves ==
  ASSUME Session, Shape, KeyboardChain, ScreenChain, NEW c \in Conns, RemoteGone(c)
  PROVE  KeyboardChain' /\ ScreenChain'
<1>1. /\ c \notin attached
      /\ UNCHANGED <<conn, copy, down, held, client, server, shell>>
      /\ up' = up \/ up' = [up EXCEPT ![c] = <<>>]
  BY GoneStep
<1>2. CASE up' = up  BY <1>2, StillGone, StillChains
<1>3. CASE up' = [up EXCEPT ![c] = <<>>]
  <2>1. /\ up'[c] = <<>> /\ \A b \in Conns : b # c => up'[b] = up[b]
        /\ Client \in Conns /\ Agent \in Conns /\ Client # Agent /\ c \in {Agent, Client}
    BY <1>3, EndsAssumption DEF Shape, Pieces, Conns
  <2>2. /\ UNCHANGED <<conn, copy, down, held, running, open, loop, inbuf, pump, outbuf>>
        /\ UNCHANGED <<typed, displayed, ptyIn, ptyOut, consumed, printed>>
    BY <1>1 DEF client, server, shell
  <2>3. KeyboardDepth' = KeyboardDepth /\ ScreenDepth' = ScreenDepth
    BY <2>2 DEF KeyboardDepth, ScreenDepth
  <2>4. CASE c = Client
    <3>1. up'[Client] = <<>> /\ up'[Agent] = up[Agent]  BY <2>1, <2>4
    <3>2. ~running  BY <1>1, <2>4 DEF attached
    <3>3. ~(KeyboardDepth' > 2)  BY <2>3, <3>2 DEF KeyboardDepth
    <3>4. KeyboardChain'  BY <2>2, <2>3, <3>1, <3>3, Depths, KeyboardLess
    <3>5. ScreenChain'  BY <2>2, <2>3, <3>1 DEF ScreenChain
    <3> QED  BY <3>4, <3>5
  <2>5. CASE c = Agent
    <3>1. up'[Agent] = <<>> /\ up'[Client] = up[Client]  BY <2>1, <2>5
    <3>2. ~open  BY <1>1, <2>5 DEF attached
    <3>3. ~(ScreenDepth' > 1)  BY <2>3, <3>2 DEF ScreenDepth
    <3>4. ScreenChain'  BY <2>2, <2>3, <3>1, <3>3, Depths, ScreenLess
    <3>5. KeyboardChain'  BY <2>2, <2>3, <3>1 DEF KeyboardChain
    <3> QED  BY <3>4, <3>5
  <2> QED  BY <2>1, <2>4, <2>5
<1> QED  BY <1>1, <1>2, <1>3

\* The client types, and shows what it gets.
LEMMA TypeMoves ==
  ASSUME Session, Shape, KeyboardChain, ScreenChain, Type
  PROVE  KeyboardChain' /\ ScreenChain'
<1>1. /\ running
      /\ typed' = Append(typed, Len(typed) + 1)
      /\ up' = IF conn[Client] = "open" THEN [up EXCEPT ![Client] = Append(up[Client], Len(typed) + 1)]
               ELSE up
      /\ UNCHANGED <<conn, copy, down, held, running, open, loop, inbuf, pump, outbuf>>
      /\ UNCHANGED <<displayed, ptyIn, ptyOut, consumed, printed>>
  BY DEF Type, Send, R!Write, hub, server, shell
<1>2. KeyboardDepth' = KeyboardDepth /\ ScreenDepth' = ScreenDepth
  BY <1>1 DEF KeyboardDepth, ScreenDepth
<1>3. up'[Agent] = up[Agent]  BY <1>1, EndsAssumption DEF Shape, Pieces, Conns
<1>4. ScreenChain'  BY <1>1, <1>2, <1>3 DEF ScreenChain
<1>5. CASE conn[Client] = "open"
  <2>1. up'[Client] = Append(up[Client], Len(typed) + 1)  BY <1>1, <1>5 DEF Shape, Pieces, Conns
  <2>2. KeyboardDepth # 2  BY <1>1, <1>5 DEF KeyboardDepth
  <2>3. Chain(consumed, ptyIn, Box(inbuf), down[Agent], Box(held[Client]["toAgent"]),
              Append(up[Client], Len(typed) + 1), Append(typed, Len(typed) + 1), KeyboardDepth)
    BY <2>2, Depths, ChainSend DEF KeyboardChain
  <2>4. KeyboardChain'  BY <1>1, <1>2, <2>1, <2>3 DEF KeyboardChain
  <2> QED  BY <1>4, <2>4
<1>6. CASE conn[Client] # "open"
  <2>1. up'[Client] = up[Client]  BY <1>1, <1>6
  <2>2. KeyboardDepth \in 0 .. 2  BY <1>6 DEF KeyboardDepth
  <2>3. Chain(consumed, ptyIn, Box(inbuf), down[Agent], Box(held[Client]["toAgent"]),
              up[Client], Append(typed, Len(typed) + 1), KeyboardDepth)
    BY <2>2, ChainLost DEF KeyboardChain
  <2>4. KeyboardChain'  BY <1>1, <1>2, <2>1, <2>3 DEF KeyboardChain
  <2> QED  BY <1>4, <2>4
<1> QED  BY <1>5, <1>6

LEMMA DisplayMoves ==
  ASSUME Session, Shape, KeyboardChain, ScreenChain, Display
  PROVE  KeyboardChain' /\ ScreenChain'
<1>1. /\ down[Client] # <<>>
      /\ displayed' = Append(displayed, Head(down[Client]))
      /\ down' = [down EXCEPT ![Client] = Tail(down[Client])]
      /\ UNCHANGED <<conn, copy, up, held, running, open, loop, inbuf, pump, outbuf>>
      /\ UNCHANGED <<typed, ptyIn, ptyOut, consumed, printed>>
  BY DEF Display, R!Read, hub, server, shell
<1>2. KeyboardDepth' = KeyboardDepth /\ ScreenDepth' = ScreenDepth
  BY <1>1 DEF KeyboardDepth, ScreenDepth
<1>3. down'[Client] = Tail(down[Client]) /\ down'[Agent] = down[Agent]
  BY <1>1, EndsAssumption DEF Shape, Pieces, Conns
<1>4. KeyboardChain'  BY <1>1, <1>2, <1>3 DEF KeyboardChain
<1>5. ScreenDepth \in 0 .. 3  BY Depths
<1>6. Chain(Append(displayed, Head(down[Client])), Tail(down[Client]), Box(held[Client]["toClient"]),
            up[Agent], Box(outbuf), ptyOut, printed, ScreenDepth)
  BY <1>1, <1>5, ChainDeliver DEF ScreenChain
<1>7. ScreenChain'  BY <1>1, <1>2, <1>3, <1>6 DEF ScreenChain
<1> QED  BY <1>4, <1>7

\* The agent's loop takes a piece from the websocket to the PTY.
LEMMA LoopReadMoves ==
  ASSUME Session, Shape, KeyboardChain, ScreenChain, LoopRead
  PROVE  KeyboardChain' /\ ScreenChain'
<1>1. /\ down[Agent] # <<>> /\ loop = "read" /\ loop' = "write"
      /\ inbuf' = Head(down[Agent])
      /\ down' = [down EXCEPT ![Agent] = Tail(down[Agent])]
      /\ UNCHANGED <<conn, copy, up, held, running, open, pump, outbuf>>
      /\ UNCHANGED <<typed, displayed, ptyIn, ptyOut, consumed, printed>>
  BY DEF LoopRead, R!Read, hub, client, shell
<1>2. KeyboardDepth' = KeyboardDepth /\ ScreenDepth' = ScreenDepth
  BY <1>1 DEF KeyboardDepth, ScreenDepth, At
<1>3. down'[Agent] = Tail(down[Agent]) /\ down'[Client] = down[Client]
  BY <1>1, EndsAssumption DEF Shape, Pieces, Conns
<1>4. ScreenChain'  BY <1>1, <1>2, <1>3 DEF ScreenChain
<1>5. inbuf = Nil /\ Head(down[Agent]) \in Nat
  <2>1. down[Agent] \in Seq(Nat)  BY DEF Shape, Pieces, Conns
  <2>2. inbuf = Nil  BY <1>1 DEF Shape, Buffers
  <2> QED  BY <1>1, <2>1, <2>2
<1>6. Box(inbuf) = <<>> /\ Append(Box(inbuf), Head(down[Agent])) = Box(inbuf')
  BY <1>1, <1>5, NilAssumption, Boxes
<1>7. Chain(consumed, ptyIn, Append(Box(inbuf), Head(down[Agent])), Tail(down[Agent]),
            Box(held[Client]["toAgent"]), up[Client], typed, KeyboardDepth)
  BY <1>1, <1>6, Depths, ChainSecond DEF KeyboardChain
<1>8. KeyboardChain'  BY <1>1, <1>2, <1>3, <1>6, <1>7 DEF KeyboardChain
<1> QED  BY <1>4, <1>8

LEMMA LoopWriteMoves ==
  ASSUME Session, Shape, KeyboardChain, ScreenChain, LoopWrite
  PROVE  KeyboardChain' /\ ScreenChain'
<1>1. /\ loop = "write" /\ loop' = "read" /\ inbuf' = Nil
      /\ ptyIn' = Append(ptyIn, inbuf)
      /\ UNCHANGED <<conn, copy, up, down, held, running, open, pump, outbuf>>
      /\ UNCHANGED <<typed, displayed, ptyOut, consumed, printed>>
  BY DEF LoopWrite, Loop, hub, client, wires
<1>2. KeyboardDepth' = KeyboardDepth /\ KeyboardDepth > 0 /\ ScreenDepth' = ScreenDepth
  BY <1>1 DEF KeyboardDepth, ScreenDepth, At
<1>3. ScreenChain'  BY <1>1, <1>2 DEF ScreenChain
<1>4. inbuf # Nil  BY <1>1 DEF Shape, Buffers
<1>5. Box(inbuf) # <<>> /\ Head(Box(inbuf)) = inbuf /\ Tail(Box(inbuf)) = Box(inbuf')
  BY <1>1, <1>4, Boxes
<1>6. Chain(consumed, Append(ptyIn, Head(Box(inbuf))), Tail(Box(inbuf)), down[Agent],
            Box(held[Client]["toAgent"]), up[Client], typed, KeyboardDepth)
  BY <1>2, <1>5, Depths, ChainFirst DEF KeyboardChain
<1>7. KeyboardChain'  BY <1>1, <1>2, <1>5, <1>6 DEF KeyboardChain
<1> QED  BY <1>3, <1>7

\* The agent's pump takes a piece from the PTY to the websocket.
LEMMA PumpReadMoves ==
  ASSUME Session, Shape, KeyboardChain, ScreenChain, PumpRead
  PROVE  KeyboardChain' /\ ScreenChain'
<1>1. /\ ptyOut # <<>> /\ pump = "read" /\ pump' = "write"
      /\ outbuf' = Head(ptyOut) /\ ptyOut' = Tail(ptyOut)
      /\ UNCHANGED <<conn, copy, up, down, held, running, open, loop, inbuf>>
      /\ UNCHANGED <<typed, displayed, ptyIn, consumed, printed>>
  BY DEF PumpRead, Pump, hub, client
<1>2. KeyboardDepth' = KeyboardDepth /\ ScreenDepth' = ScreenDepth
  BY <1>1 DEF KeyboardDepth, ScreenDepth, At
<1>3. KeyboardChain'  BY <1>1, <1>2 DEF KeyboardChain
<1>4. outbuf = Nil /\ Head(ptyOut) \in Nat
  <2>1. ptyOut \in Seq(Nat)  BY DEF ScreenChain, Chain
  <2>2. outbuf = Nil  BY <1>1 DEF Shape, Buffers
  <2> QED  BY <1>1, <2>1, <2>2
<1>5. Box(outbuf) = <<>> /\ Append(Box(outbuf), Head(ptyOut)) = Box(outbuf')
  BY <1>1, <1>4, NilAssumption, Boxes
<1>6. Chain(displayed, down[Client], Box(held[Client]["toClient"]), up[Agent],
            Append(Box(outbuf), Head(ptyOut)), Tail(ptyOut), printed, ScreenDepth)
  <2>1. ScreenDepth \in 0 .. 3  BY Depths
  <2> QED  BY <1>1, <1>5, <2>1, ChainFourth DEF ScreenChain
<1>7. ScreenChain'  BY <1>1, <1>2, <1>5, <1>6 DEF ScreenChain
<1> QED  BY <1>3, <1>7

LEMMA PumpWriteMoves ==
  ASSUME Session, Shape, KeyboardChain, ScreenChain, PumpWrite
  PROVE  KeyboardChain' /\ ScreenChain'
<1>1. /\ pump = "write" /\ pump' = "read" /\ outbuf' = Nil /\ open
      /\ up' = IF conn[Agent] = "open" THEN [up EXCEPT ![Agent] = Append(up[Agent], outbuf)] ELSE up
      /\ UNCHANGED <<conn, copy, down, held, running, open, loop, inbuf>>
      /\ UNCHANGED <<typed, displayed, ptyIn, ptyOut, consumed, printed>>
  BY DEF PumpWrite, Pump, Send, R!Write, hub, client, shell
<1>2. KeyboardDepth' = KeyboardDepth /\ ScreenDepth' = ScreenDepth
  BY <1>1 DEF KeyboardDepth, ScreenDepth, At
<1>3. up'[Client] = up[Client]  BY <1>1, EndsAssumption DEF Shape, Pieces, Conns
<1>4. KeyboardChain'  BY <1>1, <1>2, <1>3 DEF KeyboardChain
<1>5. outbuf # Nil  BY <1>1 DEF Shape, Buffers
<1>6. Box(outbuf) # <<>> /\ Head(Box(outbuf)) = outbuf /\ Tail(Box(outbuf)) = Box(outbuf')
  BY <1>1, <1>5, Boxes
<1>7. CASE conn[Agent] = "open"
  <2>1. up'[Agent] = Append(up[Agent], outbuf)  BY <1>1, <1>7 DEF Shape, Pieces, Conns
  <2>2. ScreenDepth \in 0 .. 3 /\ ScreenDepth # 1
    BY <1>1, <1>7, Depths DEF ScreenDepth, At
  <2>3. Chain(displayed, down[Client], Box(held[Client]["toClient"]),
              Append(up[Agent], Head(Box(outbuf))), Tail(Box(outbuf)), ptyOut, printed, ScreenDepth)
    BY <1>6, <2>2, ChainThird DEF ScreenChain
  <2>4. ScreenChain'  BY <1>1, <1>2, <1>6, <2>1, <2>3 DEF ScreenChain
  <2> QED  BY <1>4, <2>4
<1>8. CASE conn[Agent] # "open"
  <2>1. ~(ScreenDepth' > 1)  BY <1>2, <1>8 DEF ScreenDepth
  <2>2. ScreenChain'  BY <1>1, <1>2, <1>8, <2>1, Depths, ScreenLess
  <2> QED  BY <1>4, <2>2
<1> QED  BY <1>7, <1>8

\* The shell reads, and prints.
LEMMA ConsumeMoves ==
  ASSUME Session, Shape, KeyboardChain, ScreenChain, Consume
  PROVE  KeyboardChain' /\ ScreenChain'
<1>1. /\ ptyIn # <<>> /\ consumed' = Append(consumed, Head(ptyIn)) /\ ptyIn' = Tail(ptyIn)
      /\ UNCHANGED <<conn, copy, up, down, held, running, open, loop, inbuf, pump, outbuf>>
      /\ UNCHANGED <<typed, displayed, ptyOut, printed>>
  BY DEF Consume, hub, wires, client, server
<1>2. KeyboardDepth' = KeyboardDepth /\ ScreenDepth' = ScreenDepth
  BY <1>1 DEF KeyboardDepth, ScreenDepth
<1>3. ScreenChain'  BY <1>1, <1>2 DEF ScreenChain
<1>4. Chain(Append(consumed, Head(ptyIn)), Tail(ptyIn), Box(inbuf), down[Agent],
            Box(held[Client]["toAgent"]), up[Client], typed, KeyboardDepth)
  BY <1>1, Depths, ChainDeliver DEF KeyboardChain
<1>5. KeyboardChain'  BY <1>1, <1>2, <1>4 DEF KeyboardChain
<1> QED  BY <1>3, <1>5

LEMMA EmitMoves ==
  ASSUME Session, Shape, KeyboardChain, ScreenChain, Emit
  PROVE  KeyboardChain' /\ ScreenChain'
<1>1. /\ printed' = Append(printed, Len(printed) + 1) /\ ptyOut' = Append(ptyOut, Len(printed) + 1)
      /\ UNCHANGED <<conn, copy, up, down, held, running, open, loop, inbuf, pump, outbuf>>
      /\ UNCHANGED <<typed, displayed, ptyIn, consumed>>
  BY DEF Emit, hub, wires, client, server
<1>2. KeyboardDepth' = KeyboardDepth /\ ScreenDepth' = ScreenDepth
  BY <1>1 DEF KeyboardDepth, ScreenDepth
<1>3. KeyboardChain'  BY <1>1, <1>2 DEF KeyboardChain
<1>4. ScreenDepth \in 0 .. 3 /\ ScreenDepth # 2  BY Depths
<1>5. Chain(displayed, down[Client], Box(held[Client]["toClient"]), up[Agent], Box(outbuf),
            Append(ptyOut, Len(printed) + 1), Append(printed, Len(printed) + 1), ScreenDepth)
  BY <1>4, ChainSend DEF ScreenChain
<1>6. ScreenChain'  BY <1>1, <1>2, <1>5 DEF ScreenChain
<1> QED  BY <1>3, <1>6

\* Every step keeps both directions in order.
LEMMA ChainsInv ==
  ASSUME Session, Shape, KeyboardChain, ScreenChain, [Next]_vars
  PROVE  KeyboardChain' /\ ScreenChain'
<1>1. ASSUME HandleConnect PROVE KeyboardChain' /\ ScreenChain'
  BY <1>1, StillWind, StillChains
<1>2. ASSUME TypeFails \/ ClientReadFails \/ Leave \/ LoopReadFails \/ LoopWriteFails \/ CloseShell
               \/ LoopClose \/ PumpReadFails \/ PumpWriteFails \/ PumpClose \/ ShellExits \/ UNCHANGED vars
      PROVE  KeyboardChain' /\ ScreenChain'
  BY <1>2, StillProgram, StillChains
<1> QED
  BY <1>1, <1>2, CopyMoves, GoneMoves, TypeMoves, DisplayMoves, LoopReadMoves, LoopWriteMoves,
     PumpReadMoves, PumpWriteMoves, ConsumeMoves, EmitMoves DEF Next, Serve, Output, Conns

------------------------------------------------------------------------------
(* The session, and the types of what it carries.                          *)

\* The steps of the programs leave the hub alone.
LEMMA ProgramStep ==
  ASSUME [Next]_vars
  PROVE  \/ HandleConnect
         \/ \E w \in H!Ways : CopyMsgs(w)
         \/ \E c \in Conns : RemoteGone(c)
         \/ UNCHANGED hub /\ UNCHANGED held
<1>1. ASSUME Type \/ TypeFails \/ Display \/ ClientReadFails \/ Leave PROVE UNCHANGED <<hub, held>>
  BY <1>1 DEF Type, TypeFails, Display, ClientReadFails, Leave, Exit, wires
<1>2. ASSUME Serve PROVE UNCHANGED <<hub, held>>
  BY <1>2 DEF Serve, LoopRead, LoopReadFails, LoopWrite, LoopWriteFails, CloseShell, LoopClose, Loop, wires
<1>3. ASSUME Output PROVE UNCHANGED <<hub, held>>
  BY <1>3 DEF Output, PumpRead, PumpReadFails, PumpWrite, PumpWriteFails, PumpClose, Pump
<1>4. ASSUME Consume \/ Emit \/ ShellExits \/ UNCHANGED vars PROVE UNCHANGED <<hub, held>>
  BY <1>4 DEF Consume, Emit, ShellExits, vars, wires
<1> QED  BY <1>1, <1>2, <1>3, <1>4 DEF Next, Conns

LEMMA SessionInv ==
  ASSUME Session, [Next]_vars PROVE Session'
<1>1. CASE HandleConnect  BY <1>1, WindStep
<1>2. ASSUME NEW w \in H!Ways, CopyMsgs(w) PROVE Session'
  BY <1>2, CopyStep, CopySession
<1>3. ASSUME NEW c \in Conns, RemoteGone(c) PROVE Session'  BY <1>3, GoneStep
<1>4. CASE UNCHANGED hub  BY <1>4 DEF Session, hub
<1> QED  BY <1>1, <1>2, <1>3, <1>4, ProgramStep

LEMMA HubPieces ==
  ASSUME Session, Pieces, Holding,
         \/ HandleConnect
         \/ \E w \in H!Ways : CopyMsgs(w)
         \/ \E c \in Conns : RemoteGone(c)
  PROVE  Pieces' /\ Holding'
<1>1. ASSUME HandleConnect PROVE Pieces' /\ Holding'
  BY <1>1, WindStep DEF Pieces, Holding, wires
<1>2. ASSUME NEW c \in Conns, RemoteGone(c) PROVE Pieces' /\ Holding'
  <2>1. /\ UNCHANGED <<down, held, copy>>
        /\ up' = up \/ up' = [up EXCEPT ![c] = <<>>]
    BY <1>2, GoneStep
  <2>2. <<>> \in Seq(Nat)  OBVIOUS
  <2>3. up' \in [Conns -> Seq(Nat)]  BY <2>1, <2>2 DEF Pieces
  <2> QED  BY <2>1, <2>3 DEF Pieces, Holding
<1>3. ASSUME NEW w \in H!Ways, CopyMsgs(w) PROVE Pieces' /\ Holding'
  <2>0. From(w) \in Conns /\ To(w) \in Conns  BY Directions
  <2>1. ASSUME NEW from \in {"read", "write"}, NEW to \in {"read", "write", "done"}, Copies(w, from, to)
        PROVE  /\ copy[Client][w] = from /\ copy'[Client][w] = to
               /\ \A v \in H!Ways : v # w => copy'[Client][v] = copy[Client][v]
    BY <2>1, CopySession DEF Copies
  <2>2. ASSUME NEW x \in Nat \cup {Nil}, held' = [held EXCEPT ![Client] = [held[Client] EXCEPT ![w] = x]]
        PROVE  /\ held' \in [{Client} -> [H!Ways -> Nat \cup {Nil}]]
               /\ held'[Client][w] = x
               /\ \A v \in H!Ways : v # w => held'[Client][v] = held[Client][v]
    BY <2>2 DEF Pieces
  <2>3. ASSUME Copies(w, "read", "write"), up[From(w)] # <<>>,
               held' = [held EXCEPT ![Client] = [held[Client] EXCEPT ![w] = Head(up[From(w)])]],
               up' = [up EXCEPT ![From(w)] = Tail(up[From(w)])],
               down' = down
        PROVE  Pieces' /\ Holding'
    <3>1. up[From(w)] \in Seq(Nat)  BY <2>0 DEF Pieces
    <3>2. Head(up[From(w)]) \in Nat /\ Tail(up[From(w)]) \in Seq(Nat)  BY <2>3, <3>1
    <3>3. Head(up[From(w)]) # Nil  BY <3>2, NilAssumption
    <3>4. up' \in [Conns -> Seq(Nat)]  BY <2>0, <2>3, <3>2 DEF Pieces
    <3> QED  BY <2>1, <2>2, <2>3, <3>2, <3>3, <3>4 DEF Pieces, Holding
  <2>4. ASSUME Copies(w, "read", "done"), UNCHANGED wires PROVE Pieces' /\ Holding'
    BY <2>1, <2>4 DEF Pieces, Holding, wires
  <2>5. ASSUME NEW to \in {"read", "done"}, Copies(w, "write", to),
               held' = [held EXCEPT ![Client] = [held[Client] EXCEPT ![w] = Nil]],
               up' = up,
               \/ down' = down
               \/ down' = [down EXCEPT ![To(w)] = Append(down[To(w)], held[Client][w])]
        PROVE  Pieces' /\ Holding'
    <3>1. copy[Client][w] = "write"  BY <2>1, <2>5
    <3>2. held[Client][w] \in Nat
      <4>1. held[Client][w] \in Nat \cup {Nil}  BY DEF Pieces
      <4> QED  BY <3>1, <4>1 DEF Holding
    <3>3. down[To(w)] \in Seq(Nat)  BY <2>0 DEF Pieces
    <3>4. Append(down[To(w)], held[Client][w]) \in Seq(Nat)  BY <3>2, <3>3
    <3>5. down' \in [Conns -> Seq(Nat)]  BY <2>0, <2>5, <3>4 DEF Pieces
    <3> QED  BY <2>1, <2>2, <2>5, <3>5 DEF Pieces, Holding
  <2> QED  BY <1>3, <2>3, <2>4, <2>5, CopyStep
<1> QED  BY <1>1, <1>2, <1>3

\* Where the programs are.
LEMMA HubElse ==
  ASSUME Session,
         \/ HandleConnect
         \/ \E w \in H!Ways : CopyMsgs(w)
         \/ \E c \in Conns : RemoteGone(c)
  PROVE  /\ UNCHANGED <<client, server, shell>>
         /\ reset \subseteq Conns => reset' \subseteq Conns
<1>1. CASE HandleConnect  BY <1>1, WindStep
<1>2. ASSUME NEW w \in H!Ways, CopyMsgs(w)
      PROVE  UNCHANGED <<client, server, shell>> /\ (reset \subseteq Conns => reset' \subseteq Conns)
  <2>1. To(w) \in Conns  BY Directions
  <2>2. reset' \subseteq reset \cup {To(w)}  BY <1>2, CopyStep
  <2>3. UNCHANGED <<client, server, shell>>  BY <1>2, CopyStep DEF Copies, CopierOnly
  <2> QED  BY <2>1, <2>2, <2>3
<1>3. ASSUME NEW c \in Conns, RemoteGone(c)
      PROVE  UNCHANGED <<client, server, shell>> /\ UNCHANGED reset
  BY <1>3, GoneStep
<1> QED  BY <1>1, <1>2, <1>3

LEMMA ShapeInv ==
  ASSUME Session, Shape, KeyboardChain, ScreenChain, [Next]_vars PROVE Shape'
<1>1. CASE HandleConnect \/ (\E w \in H!Ways : CopyMsgs(w)) \/ (\E c \in Conns : RemoteGone(c))
  <2>1. Pieces' /\ Holding'  BY <1>1, HubPieces DEF Shape
  <2>2. UNCHANGED <<client, server, shell>> /\ reset' \subseteq Conns
    BY <1>1, HubElse DEF Shape, Places
  <2> QED  BY <2>1, <2>2 DEF Shape, Places, Buffers, Bounds, Limit, client, server, shell
<1>2. CASE UNCHANGED hub /\ UNCHANGED held
  <2>1. /\ up \in [Conns -> Seq(Nat)] /\ down \in [Conns -> Seq(Nat)]
        /\ up[Client] \in Seq(Nat) /\ up[Agent] \in Seq(Nat)
        /\ down[Client] \in Seq(Nat) /\ down[Agent] \in Seq(Nat)
    BY DEF Shape, Pieces, Conns
  <2>2. typed \in Seq(Nat) /\ ptyIn \in Seq(Nat) /\ ptyOut \in Seq(Nat) /\ printed \in Seq(Nat)
    BY DEF KeyboardChain, ScreenChain, Chain
  <2>3. Holding'  BY <1>2 DEF Shape, Holding, hub
  <2>4. held' \in [{Client} -> [H!Ways -> Nat \cup {Nil}]]  BY <1>2 DEF Shape, Pieces
  <2>5. ASSUME UNCHANGED wires PROVE Pieces'  BY <2>5 DEF Shape, Pieces, wires
  <2>6. ASSUME UNCHANGED <<inbuf, outbuf, loop, pump>> PROVE Buffers'  BY <2>6 DEF Shape, Buffers
  <2>7. ASSUME UNCHANGED <<ptyIn, ptyOut, typed, printed, mode>> PROVE Bounds'
    BY <2>7 DEF Shape, Bounds, Limit
  <2> USE DEF Conns
  <2>8. CASE Type
    <3>1. up' \in [Conns -> Seq(Nat)]  BY <2>1, <2>2, <2>8 DEF Type, Send, R!Write
    <3>2. Len(typed') <= Limit'
      <4>1. Len(typed) < Limit /\ Limit' = Limit /\ Len(typed') = Len(typed) + 1
        BY <2>2, <2>8 DEF Type, Limit
      <4>2. Limit \in Nat /\ Len(typed) \in Nat  BY <2>2, BoundsAssumption DEF Limit
      <4> QED  BY <4>1, <4>2
    <3>3. Pieces'  BY <2>1, <2>4, <2>8, <3>1 DEF Type, Pieces
    <3>4. Places'  BY <2>8 DEF Shape, Places, Type, Send, server, shell
    <3>5. Bounds'  BY <2>8, <3>2 DEF Shape, Bounds, Type, shell
    <3>6. Buffers'  BY <2>6, <2>8 DEF Type, server
    <3> QED  BY <2>3, <3>3, <3>4, <3>5, <3>6 DEF Shape
  <2>9. CASE TypeFails \/ ClientReadFails \/ Leave
    <3>1. Places'
      BY <2>9 DEF Shape, Places, TypeFails, ClientReadFails, Leave, Exit, Shut, server, shell
    <3>2. UNCHANGED <<wires, inbuf, outbuf, loop, pump, ptyIn, ptyOut, typed, printed, mode>>
      BY <2>9 DEF TypeFails, ClientReadFails, Leave, Exit, server, shell
    <3> QED  BY <2>3, <2>5, <2>6, <2>7, <3>1, <3>2 DEF Shape
  <2>10. CASE Display
    <3>1. down' \in [Conns -> Seq(Nat)]  BY <2>1, <2>10 DEF Display, R!Read
    <3>2. Pieces'  BY <2>1, <2>4, <2>10, <3>1 DEF Display, Pieces
    <3>3. Places'  BY <2>10 DEF Shape, Places, Display, server, shell
    <3>4. Buffers' /\ Bounds'  BY <2>6, <2>7, <2>10 DEF Display, server, shell
    <3> QED  BY <2>3, <3>2, <3>3, <3>4 DEF Shape
  <2>11. CASE LoopRead
    <3>1. down' \in [Conns -> Seq(Nat)]  BY <2>1, <2>11 DEF LoopRead, R!Read
    <3>2. Pieces'  BY <2>1, <2>4, <2>11, <3>1 DEF LoopRead, Pieces
    <3>3. Places'  BY <2>11 DEF Shape, Places, LoopRead, client, shell
    <3>4. inbuf' \in Nat  BY <2>1, <2>11 DEF LoopRead
    <3>5. Buffers'  BY <2>11, <3>4, NilAssumption DEF Shape, Buffers, LoopRead
    <3>6. Bounds'  BY <2>7, <2>11 DEF LoopRead, client, shell
    <3> QED  BY <2>3, <3>2, <3>3, <3>5, <3>6 DEF Shape
  <2>12. CASE LoopReadFails \/ LoopWriteFails \/ CloseShell \/ LoopClose
    <3> USE <2>12 DEF LoopReadFails, LoopWriteFails, CloseShell, LoopClose, Loop, Shut, client, shell
    <3>1. Places'  BY DEF Shape, Places
    <3>2. Buffers'  BY DEF Shape, Buffers
    <3>3. Pieces' /\ Bounds'  BY <2>5, <2>7
    <3> QED  BY <2>3, <3>1, <3>2, <3>3 DEF Shape
  <2>13. CASE LoopWrite
    <3> USE <2>13 DEF LoopWrite, Loop, client
    <3>1. Places'  BY DEF Shape, Places
    <3>2. Buffers'  BY DEF Shape, Buffers
    <3>3. Pieces'  BY <2>5
    <3>4. Len(ptyIn') <= PtyCap'
      <4>1. inbuf \in Nat  BY DEF Shape, Buffers
      <4>2. Len(ptyIn') = Len(ptyIn) + 1  BY <2>2, <4>1
      <4> QED  BY <2>2, <4>2, BoundsAssumption
    <3>5. Bounds'  BY <3>4 DEF Shape, Bounds, Limit
    <3> QED  BY <2>3, <3>1, <3>2, <3>3, <3>5 DEF Shape
  <2>14. CASE PumpRead
    <3> USE <2>14 DEF PumpRead, Pump, client
    <3>1. Places'  BY DEF Shape, Places
    <3>2. outbuf' \in Nat /\ Len(ptyOut') = Len(ptyOut) - 1 /\ Len(ptyOut) \in Nat  BY <2>2
    <3>3. Buffers'  BY <3>2, NilAssumption DEF Shape, Buffers
    <3>4. Len(ptyOut') <= PtyCap'  BY <3>2, BoundsAssumption DEF Shape, Bounds
    <3>5. Bounds'  BY <3>4 DEF Shape, Bounds, Limit
    <3>6. Pieces'  BY DEF Shape, Pieces
    <3> QED  BY <2>3, <3>1, <3>3, <3>5, <3>6 DEF Shape
  <2>15. CASE PumpWrite
    <3>1. outbuf \in Nat  BY <2>15 DEF PumpWrite, Pump, Shape, Buffers
    <3>2. up' \in [Conns -> Seq(Nat)]  BY <2>1, <2>15, <3>1 DEF PumpWrite, Send, R!Write
    <3>3. Pieces'  BY <2>1, <2>4, <2>15, <3>2 DEF PumpWrite, Pump, Pieces
    <3>4. Places'  BY <2>15 DEF Shape, Places, PumpWrite, Pump, Send, client, shell
    <3>5. Buffers'  BY <2>15 DEF Shape, Buffers, PumpWrite, Pump
    <3>6. Bounds'  BY <2>7, <2>15 DEF PumpWrite, Pump, client, shell
    <3> QED  BY <2>3, <3>3, <3>4, <3>5, <3>6 DEF Shape
  <2>16. CASE PumpReadFails \/ PumpWriteFails \/ PumpClose
    <3> USE <2>16 DEF PumpReadFails, PumpWriteFails, PumpClose, Pump, Shut, client, shell
    <3>1. Places'  BY DEF Shape, Places
    <3>2. Buffers'  BY DEF Shape, Buffers
    <3>3. Pieces' /\ Bounds'  BY <2>5, <2>7 DEF wires
    <3> QED  BY <2>3, <3>1, <3>2, <3>3 DEF Shape
  <2>17. CASE Consume
    <3> USE <2>17 DEF Consume, client, server
    <3>1. Len(ptyIn') = Len(ptyIn) - 1 /\ Len(ptyIn) \in Nat  BY <2>2
    <3>2. Len(ptyIn') <= PtyCap'  BY <3>1, BoundsAssumption DEF Shape, Bounds
    <3>3. Places'  BY DEF Shape, Places
    <3>4. Bounds'  BY <3>2 DEF Shape, Bounds, Limit
    <3> QED  BY <2>3, <2>5, <2>6, <3>3, <3>4 DEF Shape
  <2>18. CASE Emit
    <3> USE <2>18 DEF Emit, client, server
    <3>1. /\ Len(ptyOut') = Len(ptyOut) + 1 /\ Len(ptyOut) \in Nat
          /\ Len(printed') = Len(printed) + 1 /\ Len(printed) \in Nat
      BY <2>2
    <3>2. Len(ptyOut') <= PtyCap' /\ Len(printed') <= MaxOut'  BY <3>1, BoundsAssumption
    <3>3. Places'  BY DEF Shape, Places
    <3>4. Bounds'  BY <3>2 DEF Shape, Bounds, Limit
    <3> QED  BY <2>3, <2>5, <2>6, <3>3, <3>4 DEF Shape
  <2>19. CASE ShellExits \/ UNCHANGED vars
    <3> USE <2>19 DEF ShellExits, vars, client, server, shell
    <3>1. Places'  BY DEF Shape, Places
    <3> QED  BY <2>3, <2>5, <2>6, <2>7, <3>1 DEF Shape
  <2> QED  BY <1>1, <2>8, <2>9, <2>10, <2>11, <2>12, <2>13, <2>14, <2>15, <2>16, <2>17, <2>18, <2>19
           DEF Next, Serve, Output
<1> QED  BY <1>1, <1>2, ProgramStep

------------------------------------------------------------------------------
(* How a session ends.                                                     *)

\* A websocket the hub has closed means that a copier has ended.
LEMMA ClosedMeansDone ==
  ASSUME Session, NEW c \in Conns, conn[c] # "open" PROVE SomeDone
BY SessionRecord DEF Session, SomeDone, Conns

LEMMA Attached == /\ Agent \in attached <=> open
                  /\ Client \in attached <=> running
BY EndsAssumption DEF attached

LEMMA EndsInv ==
  ASSUME Session, Endings, [Next]_vars PROVE Endings'
<1>1. CASE HandleConnect
  <2>1. /\ UNCHANGED <<remote, copy, client, server, shell>>
        /\ SomeDone
        /\ \A c \in Conns : conn'[c] = conn[c] \/ conn'[c] = "closed"
        /\ reset' = reset \cup {c \in Conns : conn'[c] # conn[c] /\ up[c] # <<>>}
    BY <1>1, WindStep
  <2>2. SomeDone' <=> SomeDone  BY <2>1 DEF SomeDone
  <2> QED  BY <2>1, <2>2 DEF Endings, client, server, shell, Conns
<1>2. ASSUME NEW w \in H!Ways, CopyMsgs(w) PROVE Endings'
  <2>0. From(w) \in Conns /\ To(w) \in Conns  BY Directions
  <2>1. PICK from \in {"read", "write"}, to \in {"read", "write", "done"} : Copies(w, from, to)
    BY <1>2, CopyStep
  <2>2. UNCHANGED <<conn, remote, client, server, shell>>  BY <2>1 DEF Copies, CopierOnly
  <2>3. reset' = reset \/ (To(w) \notin attached /\ reset' = reset \cup {To(w)})
    BY <1>2, CopyStep
  <2>4. SomeDone' => ~running \/ ~open
    <3>1. ASSUME copy'[Client][w] = "done", ~SomeDone PROVE ~running \/ ~open
      <4>1. conn[From(w)] = "open" /\ conn[To(w)] = "open"  BY <2>0, <3>1, ClosedMeansDone
      <4>2. ~remote[From(w)] \/ To(w) \notin attached
        BY <1>2, <3>1, <4>1, CopyStep, CopySession
      <4> QED  BY <2>0, <4>2, Attached DEF Endings, Conns
    <3>2. \A v \in H!Ways : v # w => copy'[Client][v] = copy[Client][v]  BY <2>1, CopySession
    <3> QED  BY <3>1, <3>2 DEF SomeDone, Endings
  <2>5. (Agent \in reset' => ~open \/ conn[Agent] # "open") /\ (Client \in reset' => ~running \/ conn[Client] # "open")
    BY <2>0, <2>3, Attached DEF Endings, Conns
  <2> QED  BY <2>2, <2>4, <2>5 DEF Endings, client, server, shell
<1>3. ASSUME NEW c \in Conns, RemoteGone(c) PROVE Endings'
  <2>1. /\ c \notin attached
        /\ \A b \in Conns : b # c => remote'[b] = remote[b]
        /\ UNCHANGED <<conn, copy, reset, client, server, shell>>
    BY <1>3, GoneStep
  <2>2. (~remote'[Client] => ~running) /\ (~remote'[Agent] => ~open)
    BY <2>1, Attached DEF Endings, Conns
  <2>3. SomeDone' <=> SomeDone  BY <2>1 DEF SomeDone
  <2> QED  BY <2>1, <2>2, <2>3 DEF Endings, client, server, shell
<1>4. CASE UNCHANGED hub /\ UNCHANGED held
  <2>1. SomeDone' <=> SomeDone  BY <1>4 DEF SomeDone, hub
  <2>2. UNCHANGED <<conn, remote>>  BY <1>4 DEF hub
  <2>3. conn[Agent] # "open" \/ conn[Client] # "open" => ~running \/ ~open
    BY ClosedMeansDone DEF Conns, Endings
  <2>4. Agent # Client  BY EndsAssumption
  <2>5. CASE Type
    BY <2>1, <2>2, <2>4, <2>5 DEF Endings, Type, Send, server, shell
  <2>6. CASE TypeFails \/ ClientReadFails \/ Leave
    BY <2>1, <2>2, <2>4, <2>6 DEF Endings, TypeFails, ClientReadFails, Leave, Exit, Shut, server, shell
  <2>7. CASE Display \/ LoopRead \/ Consume \/ Emit \/ ShellExits \/ UNCHANGED vars
    BY <2>1, <2>2, <2>7 DEF Endings, Display, LoopRead, Consume, Emit, ShellExits, vars, client, server, shell, At
  <2>8. CASE LoopReadFails \/ LoopWriteFails
    BY <2>1, <2>2, <2>3, <2>8 DEF Endings, LoopReadFails, LoopWriteFails, Loop, ReadFails, client, shell
  <2>9. CASE LoopWrite \/ CloseShell \/ LoopClose
    BY <2>1, <2>2, <2>4, <2>9 DEF Endings, LoopWrite, CloseShell, LoopClose, Loop, Shut, client, shell, At
  <2>10. CASE PumpRead \/ PumpReadFails \/ PumpWriteFails \/ PumpClose
    BY <2>1, <2>2, <2>3, <2>4, <2>10
       DEF Endings, PumpRead, PumpReadFails, PumpWriteFails, PumpClose, Pump, Shut, client, shell, At
  <2>11. CASE PumpWrite
    BY <2>1, <2>2, <2>4, <2>11 DEF Endings, PumpWrite, Pump, Send, client, shell, At
  <2> QED  BY <1>1, <1>2, <1>3, <2>5, <2>6, <2>7, <2>8, <2>9, <2>10, <2>11 DEF Next, Serve, Output, Conns
<1> QED  BY <1>1, <1>2, <1>3, <1>4, ProgramStep

\* Of one piece that has got through, nothing is left on the way.
LEMMA ChainOne ==
  ASSUME NEW out, NEW a, NEW b, NEW c, NEW d, NEW e, NEW all, NEW n \in 0 .. 3,
         Chain(out, a, b, c, d, e, all, n), out # <<>>, Len(all) <= 1
  PROVE  /\ Len(all) = 1 /\ all # <<>>
         /\ b = <<>> /\ c = <<>> /\ d = <<>> /\ e = <<>>
<1>1. /\ out \in Seq(Nat) /\ a \in Seq(Nat) /\ b \in Seq(Nat) /\ c \in Seq(Nat)
      /\ d \in Seq(Nat) /\ e \in Seq(Nat) /\ all \in Seq(Nat)
      /\ Len(out) \in Nat /\ Len(a) \in Nat /\ Len(b) \in Nat /\ Len(c) \in Nat
      /\ Len(d) \in Nat /\ Len(e) \in Nat /\ Len(all) \in Nat
  BY ChainTypes
<1>2. Len(out) + Len(a) + Len(b) + Len(c) + Len(d) + Len(e) <= Len(all)  BY DEF Chain
<1>3. Len(out) # 0  BY <1>1
<1>4. Len(b) = 0 /\ Len(c) = 0 /\ Len(d) = 0 /\ Len(e) = 0 /\ Len(all) = 1
  <2> DEFINE p == Len(out)
             q == Len(a)
             r == Len(b)
             s == Len(c)
             t == Len(d)
             u == Len(e)
             v == Len(all)
  <2>1. /\ p \in Nat /\ q \in Nat /\ r \in Nat /\ s \in Nat /\ t \in Nat /\ u \in Nat /\ v \in Nat
        /\ p + q + r + s + t + u <= v /\ v <= 1 /\ p # 0
    BY <1>1, <1>2, <1>3
  <2>2. r = 0 /\ s = 0 /\ t = 0 /\ u = 0 /\ v = 1
    <3> HIDE DEF p, q, r, s, t, u, v
    <3> QED  BY <2>1
  <2> QED  BY <2>2
<1>5. \A s \in Seq(Nat) : Len(s) = 0 => s = <<>>  OBVIOUS
<1>6. b = <<>> /\ c = <<>> /\ d = <<>> /\ e = <<>>  BY <1>1, <1>4, <1>5
<1>7. all # <<>>
  <2>1. Len(<<>>) = 0  OBVIOUS
  <2> QED  BY <1>4, <2>1
<1> QED  BY <1>4, <1>6, <1>7

\* A command is one piece: once the shell has it, no more is on its way.
LEMMA OneCommand ==
  ASSUME Shape, KeyboardChain, mode = "exec", consumed # <<>>
  PROVE  /\ Len(typed) = 1 /\ typed # <<>>
         /\ inbuf = Nil /\ down[Agent] = <<>> /\ held[Client]["toAgent"] = Nil /\ up[Client] = <<>>
<1> DEFINE d == held[Client]["toAgent"]
<1>1. Chain(consumed, ptyIn, Box(inbuf), down[Agent], Box(d), up[Client], typed, KeyboardDepth)
  BY DEF KeyboardChain
<1>2. Len(typed) <= 1  BY DEF Shape, Bounds, Limit
<1>3. /\ Len(typed) = 1 /\ typed # <<>>
      /\ Box(inbuf) = <<>> /\ down[Agent] = <<>> /\ Box(d) = <<>> /\ up[Client] = <<>>
  <2> HIDE DEF d
  <2> QED  BY <1>1, <1>2, Depths, ChainOne
<1>4. inbuf = Nil /\ d = Nil  BY <1>3, Boxes
<1> QED  BY <1>3, <1>4

LEMMA CommandKept ==
  ASSUME Session, Command', [Next]_vars PROVE Command \/ Consume
<1>1. CASE HandleConnect \/ (\E w \in H!Ways : CopyMsgs(w)) \/ (\E c \in Conns : RemoteGone(c))
  BY <1>1, HubElse DEF Command, client, server, shell
<1>2. CASE Type \/ TypeFails \/ Display \/ ClientReadFails \/ Leave
  BY <1>2 DEF Command, Type, TypeFails, Display, ClientReadFails, Leave, Exit, shell
<1>3. CASE Serve
  BY <1>3 DEF Command, Serve, LoopRead, LoopReadFails, LoopWrite, LoopWriteFails, CloseShell, LoopClose, Loop,
     client, shell
<1>4. CASE Output
  BY <1>4 DEF Command, Output, PumpRead, PumpReadFails, PumpWrite, PumpWriteFails, PumpClose, Pump, client, shell
<1>5. CASE Emit \/ ShellExits \/ UNCHANGED vars
  BY <1>5 DEF Command, Emit, ShellExits, vars, client, shell
<1> QED  BY <1>1, <1>2, <1>3, <1>4, <1>5 DEF Next, Conns

\* It starts when everything is still there, and nothing can have been lost.
LEMMA CommandStarts ==
  ASSUME Session, Shape, ScreenChain, Endings, Consume, mode = "exec", running
  PROVE  AllOutput' /\ Winding'
<1>1. shellUp /\ open /\ At(pump) /\ At(loop) /\ ptyOpen
  BY DEF Consume, Endings, Shape, Places
<1>2. ~SomeDone  BY <1>1 DEF Endings
<1>3. conn[Agent] = "open" /\ conn[Client] = "open" /\ remote[Agent]
  BY <1>1, <1>2, ClosedMeansDone DEF Conns, Endings, Session
<1>4. reset = {}  BY <1>1, <1>3 DEF Endings, Shape, Places, Conns
<1>5. At(copy[Client]["toClient"])  BY <1>2, Directions DEF Session, SomeDone, At
<1>6. ScreenDepth = 3
  <2> HIDE DEF At
  <2> QED  BY <1>1, <1>3, <1>5 DEF ScreenDepth
<1>7. AllOutput  BY <1>6 DEF ScreenChain, AllOutput
<1>8. /\ UNCHANGED <<displayed, down, held, up, outbuf, ptyOut, printed, remote, copy, reset>>
      /\ UNCHANGED <<open, pump, loop, ptyOpen, shellUp>>
  BY DEF Consume, hub, wires, client, server
<1>9. AllOutput'  BY <1>7, <1>8 DEF AllOutput
<1> QED  BY <1>1, <1>2, <1>3, <1>4, <1>8, <1>9 DEF Winding, SomeDone

\* From then on a copier takes the output on, or ends where nothing is left.
LEMMA CommandCopies ==
  ASSUME Session, Shape, Endings, KeyboardChain, Command, Winding, NEW w \in H!Ways, CopyMsgs(w)
  PROVE  /\ UNCHANGED reset
         /\ copy[Client][w] # "done"
         /\ \A v \in H!Ways : v # w => copy'[Client][v] = copy[Client][v]
         /\ \/ /\ UNCHANGED wires /\ copy'[Client][w] = "done"
               /\ copy'[Client]["toClient"] = "done" /\ up[Agent] = <<>>
            \/ /\ w = "toClient" /\ copy'[Client][w] # "done" /\ remote[Agent]
               /\ copy[Client]["toClient"] = "read" /\ up[Agent] # <<>>
               /\ held' = [held EXCEPT ![Client] = [held[Client] EXCEPT !["toClient"] = Head(up[Agent])]]
               /\ up' = [up EXCEPT ![Agent] = Tail(up[Agent])]
               /\ down' = down
            \/ /\ w = "toClient" /\ copy'[Client][w] # "done" /\ copy[Client]["toClient"] = "write"
               /\ down' = [down EXCEPT ![Client] = Append(down[Client], held[Client]["toClient"])]
               /\ held' = [held EXCEPT ![Client] = [held[Client] EXCEPT !["toClient"] = Nil]]
               /\ up' = up
<1>1. PICK from \in {"read", "write"}, to \in {"read", "write", "done"} : Copies(w, from, to)
  BY CopyStep
<1>2. \A v \in H!Ways : v # w => copy'[Client][v] = copy[Client][v]  BY <1>1, CopySession
<1>3. copy[Client][w] # "done"  BY <1>1 DEF Copies
<1>4. held[Client]["toAgent"] = Nil /\ up[Client] = <<>>  BY OneCommand DEF Command
<1>5. copy[Client]["toAgent"] # "write"  BY <1>4, Directions DEF Shape, Holding
<1>6. Client \in attached /\ remote[Client]  BY Attached DEF Command, Endings, Session, Conns
<1>7. w = "toClient" => conn[Client] = "open" /\ conn[Agent] = "open"
  BY <1>3, ClosedMeansDone DEF Winding, Conns
<1>8. w = "toClient" \/ w = "toAgent"  BY Directions
<1>9. \A x, y : x \in {"read", "write"} /\ y \in {"read", "write", "done"} /\ Copies(w, x, y)
        => copy[Client][w] = x /\ copy'[Client][w] = y
  BY CopySession DEF Copies
<1>10. CASE w = "toClient"
  <2>1. From(w) = Agent /\ To(w) = Client  BY <1>10, Directions
  <2>2. UNCHANGED reset  BY <1>6, <2>1, CopyStep
  <2>3. CASE Copies(w, "read", "done") /\ UNCHANGED wires
    <3>1. ~remote[Agent] \/ conn[Agent] = "closed"
      BY <1>9, <2>1, <2>3, CopyStep
    <3> QED  BY <1>2, <1>3, <1>7, <1>9, <1>10, <2>2, <2>3, <3>1 DEF Winding
  <2> QED  BY <1>2, <1>3, <1>6, <1>7, <1>9, <1>10, <2>1, <2>2, <2>3, CopyStep
<1>11. CASE w = "toAgent"
  <2>1. From(w) = Client /\ To(w) = Agent  BY <1>11, Directions
  <2>2. UNCHANGED reset  BY <1>5, <1>11, CopyStep
  <2>3. UNCHANGED wires /\ copy'[Client][w] = "done" /\ conn[Client] = "closed"
    BY <1>4, <1>5, <1>6, <1>9, <1>11, <2>1, CopyStep
  <2>4. copy[Client]["toClient"] = "done" /\ up[Agent] = <<>>
    BY <2>3, ClosedMeansDone DEF Winding, Conns
  <2>5. copy'[Client]["toClient"] = "done"  BY <1>2, <1>11, <2>4, Directions
  <2> QED  BY <1>2, <1>3, <2>2, <2>3, <2>4, <2>5
<1> QED  BY <1>8, <1>10, <1>11

\* ... and it all moves on in one piece.
LEMMA OutputMoves ==
  ASSUME Session, Shape, Endings, KeyboardChain, Command, AllOutput, Winding, [Next]_vars, running'
  PROVE  AllOutput'
<1> DEFINE h == held[Client]["toClient"]
<1>1. /\ conn[Agent] # "open" => ~open
      /\ typed # <<>> /\ Len(typed) = 1 /\ Limit = 1
      /\ 3 \in 0 .. 3
  BY ClosedMeansDone, OneCommand DEF Command, Endings, Conns, Limit
<1>2. /\ up \in [Conns -> Seq(Nat)] /\ down \in [Conns -> Seq(Nat)]
      /\ held \in [{Client} -> [H!Ways -> Nat \cup {Nil}]] /\ Agent # Client
      /\ up[Agent] \in Seq(Nat) /\ ptyOut \in Seq(Nat)
      /\ Client \in Conns /\ Agent \in Conns
  BY EndsAssumption DEF Shape, Pieces, AllOutput, Chain, Conns
<1>3. Chain(displayed, down[Client], Box(h), up[Agent], Box(outbuf), ptyOut, printed, 3)
  BY DEF AllOutput
<1>4. ASSUME UNCHANGED <<wires, displayed, outbuf, ptyOut, printed>> PROVE AllOutput'
  BY <1>4 DEF AllOutput, wires
<1>5. CASE HandleConnect
  BY <1>4, <1>5, HubElse, WindStep DEF client, server, shell
<1>6. ASSUME NEW c \in Conns, RemoteGone(c) PROVE AllOutput'
  BY <1>4, <1>6, GoneStep DEF Winding, wires, client, server, shell
<1>7. ASSUME NEW w \in H!Ways, CopyMsgs(w) PROVE AllOutput'
  <2>0. UNCHANGED <<displayed, outbuf, ptyOut, printed>>  BY <1>7, HubElse DEF client, server, shell
  <2>1. CASE UNCHANGED wires  BY <1>4, <2>0, <2>1
  <2>2. CASE /\ copy[Client]["toClient"] = "read" /\ up[Agent] # <<>>
             /\ held' = [held EXCEPT ![Client] = [held[Client] EXCEPT !["toClient"] = Head(up[Agent])]]
             /\ up' = [up EXCEPT ![Agent] = Tail(up[Agent])]
             /\ down' = down
    <3>1. h = Nil  BY <2>2, Directions DEF Shape, Holding
    <3>2. Head(up[Agent]) \in Nat /\ Head(up[Agent]) # Nil  BY <1>2, <2>2, NilAssumption
    <3>3. up'[Agent] = Tail(up[Agent]) /\ held'[Client]["toClient"] = Head(up[Agent])
      BY <1>2, <2>2, Directions
    <3>4. Box(h) = <<>> /\ Append(Box(h), Head(up[Agent])) = Box(held'[Client]["toClient"])
      BY <3>1, <3>2, <3>3, Boxes
    <3>5. Chain(displayed, down[Client], Append(Box(h), Head(up[Agent])), Tail(up[Agent]), Box(outbuf), ptyOut,
                printed, 3)
      <4> HIDE DEF h
      <4> QED  BY <1>1, <1>3, <2>2, <3>4, ChainSecond
    <3> QED  BY <2>0, <2>2, <3>3, <3>4, <3>5 DEF AllOutput
  <2>3. CASE /\ copy[Client]["toClient"] = "write"
             /\ down' = [down EXCEPT ![Client] = Append(down[Client], held[Client]["toClient"])]
             /\ held' = [held EXCEPT ![Client] = [held[Client] EXCEPT !["toClient"] = Nil]]
             /\ up' = up
    <3>1. h # Nil  BY <2>3, Directions DEF Shape, Holding
    <3>2. down'[Client] = Append(down[Client], h) /\ held'[Client]["toClient"] = Nil
      BY <1>2, <2>3, Directions
    <3>3. Box(h) # <<>> /\ Head(Box(h)) = h /\ Tail(Box(h)) = Box(held'[Client]["toClient"])
      BY <3>1, <3>2, Boxes
    <3>4. Chain(displayed, Append(down[Client], Head(Box(h))), Tail(Box(h)), up[Agent], Box(outbuf), ptyOut,
                printed, 3)
      <4> HIDE DEF h
      <4> QED  BY <1>1, <1>3, <3>3, ChainFirst
    <3> QED  BY <2>0, <2>3, <3>2, <3>3, <3>4 DEF AllOutput
  <2> QED  BY <1>7, <2>1, <2>2, <2>3, CommandCopies
<1>8. CASE Type \/ TypeFails \/ ClientReadFails \/ Leave
  BY <1>1, <1>8 DEF Type, TypeFails, ClientReadFails, Leave, Exit, Command
<1>9. CASE Display
  <2>1. /\ down[Client] # <<>> /\ displayed' = Append(displayed, Head(down[Client]))
        /\ down'[Client] = Tail(down[Client])
        /\ UNCHANGED <<up, held, outbuf, ptyOut, printed>>
    BY <1>2, <1>9 DEF Display, R!Read, server, shell
  <2>2. Chain(Append(displayed, Head(down[Client])), Tail(down[Client]), Box(h), up[Agent], Box(outbuf), ptyOut,
              printed, 3)
    <3> HIDE DEF h
    <3> QED  BY <1>1, <1>3, <2>1, ChainDeliver
  <2> QED  BY <2>1, <2>2 DEF AllOutput
<1>10. CASE LoopRead
  <2>1. down'[Client] = down[Client] /\ UNCHANGED <<up, held, displayed, outbuf, ptyOut, printed>>
    BY <1>2, <1>10 DEF LoopRead, R!Read, client, shell
  <2> QED  BY <2>1 DEF AllOutput
<1>11. CASE LoopReadFails \/ LoopWrite \/ LoopWriteFails \/ CloseShell \/ LoopClose
  BY <1>4, <1>11 DEF LoopReadFails, LoopWrite, LoopWriteFails, CloseShell, LoopClose, Loop, client, shell
<1>12. CASE PumpRead
  <2>1. /\ ptyOut # <<>> /\ outbuf' = Head(ptyOut) /\ ptyOut' = Tail(ptyOut) /\ outbuf = Nil
        /\ UNCHANGED <<up, down, held, displayed, printed>>
    BY <1>12 DEF PumpRead, Pump, client, Shape, Buffers
  <2>2. Head(ptyOut) \in Nat /\ Head(ptyOut) # Nil  BY <1>2, <2>1, NilAssumption
  <2>3. Box(outbuf) = <<>> /\ Append(Box(outbuf), Head(ptyOut)) = Box(outbuf')
    BY <2>1, <2>2, Boxes
  <2>4. Chain(displayed, down[Client], Box(h), up[Agent], Append(Box(outbuf), Head(ptyOut)), Tail(ptyOut),
              printed, 3)
    <3> HIDE DEF h
    <3> QED  BY <1>1, <1>3, <2>1, <2>3, ChainFourth
  <2> QED  BY <2>1, <2>3, <2>4 DEF AllOutput
<1>13. CASE PumpWrite
  <2>1. conn[Agent] = "open" /\ outbuf # Nil
    BY <1>1, <1>13 DEF PumpWrite, Pump, Shape, Buffers
  <2>2. /\ up'[Agent] = Append(up[Agent], outbuf) /\ outbuf' = Nil
        /\ UNCHANGED <<down, held, displayed, ptyOut, printed>>
    BY <1>2, <1>13, <2>1 DEF PumpWrite, Pump, Send, R!Write, client, shell
  <2>3. Box(outbuf) # <<>> /\ Head(Box(outbuf)) = outbuf /\ Tail(Box(outbuf)) = Box(outbuf')
    BY <2>1, <2>2, Boxes
  <2>4. Chain(displayed, down[Client], Box(h), Append(up[Agent], Head(Box(outbuf))), Tail(Box(outbuf)), ptyOut,
              printed, 3)
    <3> HIDE DEF h
    <3> QED  BY <1>1, <1>3, <2>3, ChainThird
  <2> QED  BY <2>2, <2>3, <2>4 DEF AllOutput
<1>14. CASE PumpReadFails \/ PumpClose
  BY <1>4, <1>14 DEF PumpReadFails, PumpClose, Pump, client, shell, wires
<1>15. CASE PumpWriteFails
  BY <1>1, <1>15 DEF PumpWriteFails, Pump, Winding, At
<1>16. CASE Consume \/ ShellExits \/ UNCHANGED vars
  BY <1>4, <1>16 DEF Consume, ShellExits, vars, client, server, shell
<1>17. CASE Emit
  <2>1. /\ printed' = Append(printed, Len(printed) + 1) /\ ptyOut' = Append(ptyOut, Len(printed) + 1)
        /\ UNCHANGED <<up, down, held, displayed, outbuf>>
    BY <1>17 DEF Emit, wires, client, server
  <2>2. Chain(displayed, down[Client], Box(h), up[Agent], Box(outbuf), Append(ptyOut, Len(printed) + 1),
              Append(printed, Len(printed) + 1), 3)
    <3> HIDE DEF h
    <3> QED  BY <1>1, <1>3, ChainSend
  <2> QED  BY <2>1, <2>2 DEF AllOutput
<1> QED  BY <1>5, <1>6, <1>7, <1>8, <1>9, <1>10, <1>11, <1>12, <1>13, <1>14, <1>15, <1>16, <1>17
         DEF Next, Serve, Output, Conns

LEMMA WindingInv ==
  ASSUME Session, Shape, Endings, KeyboardChain, Command, Winding, [Next]_vars, running'
  PROVE  Winding'
<1>1. /\ conn[Agent] # "open" \/ conn[Client] # "open" => ~open
      /\ inbuf = Nil /\ down[Agent] = <<>> /\ up[Client] = <<>>
      /\ typed # <<>> /\ Len(typed) = 1 /\ Limit = 1
  BY ClosedMeansDone, OneCommand DEF Command, Endings, Conns, Limit
<1>2. CASE HandleConnect
  <2>1. /\ UNCHANGED <<remote, copy, wires, client, server, shell>> /\ SomeDone
        /\ reset' = reset \cup {c \in Conns : conn'[c] # conn[c] /\ up[c] # <<>>}
    BY <1>2, WindStep
  <2>2. up[Agent] = <<>>  BY <2>1 DEF Winding
  <2>3. reset' = {}  BY <1>1, <2>1, <2>2 DEF Winding, Conns
  <2>4. SomeDone' <=> SomeDone  BY <2>1 DEF SomeDone
  <2> QED  BY <2>1, <2>3, <2>4 DEF Winding, wires, server, shell
<1>3. ASSUME NEW w \in H!Ways, CopyMsgs(w) PROVE Winding'
  <2>1. UNCHANGED <<remote, client, server, shell>>
    BY <1>3, CopyStep DEF Copies, CopierOnly
  <2>2. UNCHANGED reset  BY <1>3, CommandCopies
  <2>3. (~remote[Agent] => up'[Agent] = <<>>) /\ (SomeDone' => copy'[Client]["toClient"] = "done" /\ up'[Agent] = <<>>)
    <3>1. CASE UNCHANGED wires /\ copy'[Client]["toClient"] = "done" /\ up[Agent] = <<>>
      BY <3>1 DEF wires
    <3>2. CASE w = "toClient" /\ copy'[Client][w] # "done" /\ copy[Client]["toClient"] # "done"
      <4>1. ~SomeDone  BY <3>2 DEF Winding
      <4>2. ~SomeDone'  BY <1>3, <3>2, <4>1, CommandCopies DEF SomeDone
      <4>3. up' = up \/ remote[Agent]  BY <1>3, <3>2, CommandCopies DEF wires
      <4> QED  BY <4>2, <4>3 DEF Winding
    <3> QED  BY <1>3, <3>1, <3>2, CommandCopies
  <2> QED  BY <2>1, <2>2, <2>3 DEF Winding, server, shell
<1>4. ASSUME NEW c \in Conns, RemoteGone(c) PROVE Winding'
  <2>1. /\ c \notin attached
        /\ \A b \in Conns : b # c => remote'[b] = remote[b]
        /\ up[c] = <<>> /\ up' = up
        /\ UNCHANGED <<copy, reset, server, shell>>
    BY <1>4, GoneStep DEF Winding
  <2>2. SomeDone' <=> SomeDone  BY <2>1 DEF SomeDone
  <2>3. c = Agent  BY <2>1, Attached DEF Conns, Command
  <2> QED  BY <2>1, <2>2, <2>3 DEF Winding, server, shell
<1>5. CASE UNCHANGED hub /\ UNCHANGED held
  <2>1. UNCHANGED <<remote, copy>> /\ (SomeDone' <=> SomeDone)  BY <1>5 DEF SomeDone, hub
  <2>2. CASE Type \/ TypeFails \/ ClientReadFails \/ Leave
    BY <1>1, <2>2 DEF Type, TypeFails, ClientReadFails, Leave, Exit, Command
  <2>3. CASE Display \/ Consume \/ ShellExits \/ UNCHANGED vars
    <3>1. /\ UNCHANGED <<open, pump, loop, ptyOpen, ptyOut, reset, up>>
          /\ shellUp' => shellUp
      <4>1. CASE Display  BY <4>1 DEF Display, server, shell
      <4>2. CASE Consume  BY <4>2 DEF Consume, wires, server
      <4>3. CASE ShellExits  BY <4>3 DEF ShellExits, wires, server
      <4>4. CASE UNCHANGED vars  BY <4>4 DEF vars, wires, server, shell
      <4> QED  BY <2>3, <4>1, <4>2, <4>3, <4>4
    <3> QED  BY <2>1, <3>1 DEF Winding
  <2>14. CASE LoopRead
    BY <1>1, <2>14 DEF LoopRead
  <2>15. CASE Emit
    <3>1. At(pump)  BY <2>15 DEF Winding, Emit
    <3> QED  BY <2>1, <2>15, <3>1 DEF Winding, Emit, wires, server
  <2>4. CASE LoopReadFails
    <3>1. ~open  BY <1>1, <2>4 DEF LoopReadFails, ReadFails
    <3> QED  BY <2>1, <2>4, <3>1 DEF Winding, LoopReadFails, Loop, wires, shell
  <2>5. CASE LoopWrite
    BY <2>1, <2>5 DEF Winding, LoopWrite, Loop, wires, At
  <2>6. CASE LoopWriteFails
    BY <1>1, <2>6 DEF LoopWriteFails, Loop, Shape, Buffers
  <2>8. CASE CloseShell
    <3>1. ~open  BY <2>8 DEF Winding, CloseShell, Loop, At
    <3> QED  BY <2>1, <2>8, <3>1 DEF Winding, CloseShell, Loop, wires
  <2>9. CASE LoopClose
    <3>1. ~open  BY <2>9 DEF Winding, LoopClose, Loop, At
    <3>2. UNCHANGED reset  BY <1>1, <2>9 DEF LoopClose, Shut
    <3> QED  BY <2>1, <2>9, <3>1, <3>2 DEF Winding, LoopClose, Loop, wires, shell
  <2>10. CASE PumpRead
    BY <2>1, <2>10 DEF Winding, PumpRead, Pump, At
  <2>11. CASE PumpReadFails
    <3>1. ~At(pump') /\ ~shellUp /\ ptyOut = <<>>  BY <2>11 DEF Winding, PumpReadFails, Pump, At
    <3> QED  BY <2>1, <2>11, <3>1 DEF Winding, PumpReadFails, Pump, shell
  <2>12. CASE PumpWriteFails
    BY <1>1, <2>12 DEF Winding, PumpWriteFails, Pump, At
  <2>13. CASE PumpClose
    <3>1. ~At(pump) /\ ~At(pump')  BY <2>13 DEF PumpClose, Pump, At
    <3>2. UNCHANGED reset  BY <1>1, <2>13 DEF PumpClose, Shut
    <3> QED  BY <2>1, <2>13, <3>1, <3>2 DEF Winding, PumpClose, Pump, shell
  <2>7. CASE PumpWrite
    <3>1. open /\ conn[Agent] = "open"  BY <1>1, <2>7 DEF PumpWrite
    <3>2. remote[Agent] /\ ~SomeDone  BY <3>1 DEF Endings, Command, Session, Conns
    <3> QED  BY <2>1, <2>7, <3>1, <3>2 DEF Winding, PumpWrite, Pump, Send, client, shell, At
  <2> QED  BY <1>2, <1>3, <1>4, <2>2, <2>3, <2>4, <2>5, <2>6, <2>7, <2>8, <2>9, <2>10, <2>11, <2>12, <2>13,
           <2>14, <2>15 DEF Next, Serve, Output, Conns
<1> QED  BY <1>2, <1>3, <1>4, <1>5, ProgramStep

LEMMA ExecInv ==
  ASSUME Session, Shape, Endings, KeyboardChain, ScreenChain, Exec, [Next]_vars PROVE Exec'
<1> SUFFICES ASSUME Command' PROVE AllOutput' /\ Winding'  BY DEF Exec
<1>1. CASE Command  BY <1>1, OutputMoves, WindingInv DEF Exec, Command
<1>2. CASE Consume
  <2>1. mode = "exec" /\ running  BY <1>2 DEF Command, Consume, client
  <2> QED  BY <1>2, <2>1, CommandStarts
<1> QED  BY <1>1, <1>2, CommandKept

\* Equal numbers of the numbers from 1 on are the same numbers.
LEMMA NumberedEqual ==
  ASSUME NEW s \in Seq(Nat), NEW t \in Seq(Nat), Numbered(s, 0), Numbered(t, 0), Len(s) = Len(t)
  PROVE  s = t
<1>1. \A i \in 1 .. Len(s) : s[i] = t[i]  BY DEF Numbered
<1> QED  BY <1>1

\* Once the hub has closed, and nothing is left, all of the output is there.
LEMMA AllDisplayed ==
  ASSUME Session, Shape, Endings, Exec, Command, ReadFails(Client)
  PROVE  displayed = printed
<1> DEFINE h == held[Client]["toClient"]
<1>1. AllOutput /\ Winding /\ SomeDone /\ ~open
  BY ClosedMeansDone DEF Exec, ReadFails, Conns, Endings, Command
<1>2. /\ down[Client] = <<>> /\ up[Agent] = <<>> /\ ptyOut = <<>>
      /\ copy[Client]["toClient"] = "done" /\ ~At(pump)
  BY <1>1 DEF ReadFails, Winding
<1>3. Box(h) = <<>> /\ Box(outbuf) = <<>>
  <2>1. h = Nil  BY <1>2, Directions DEF Shape, Holding
  <2>2. outbuf = Nil  BY <1>2 DEF Shape, Buffers, At
  <2> QED  BY <2>1, <2>2, Boxes
<1>4. Chain(displayed, <<>>, <<>>, <<>>, <<>>, <<>>, printed, 3)
  BY <1>1, <1>2, <1>3 DEF AllOutput
<1>5. /\ displayed \in Seq(Nat) /\ printed \in Seq(Nat) /\ Numbered(displayed, 0) /\ Numbered(printed, 0)
      /\ Len(displayed) + Len(<<>>) + Len(<<>>) + Len(<<>>) + Len(<<>>) + Len(<<>>) = Len(printed)
  <2>1. Len(displayed) + Len(<<>>) + (Len(<<>>) + Len(<<>>)) + (Len(<<>>) + Len(<<>>)) = Len(printed)
    BY <1>4 DEF Chain
  <2> QED  BY <1>4, <2>1 DEF Chain
<1>6. Len(displayed) = Len(printed)  BY <1>5
<1> QED  BY <1>5, <1>6, NumberedEqual

LEMMA AfterInv ==
  ASSUME Session, Shape, Endings, Exec, After, [Next]_vars PROVE After'
<1>1. CASE HandleConnect \/ (\E w \in H!Ways : CopyMsgs(w)) \/ (\E c \in Conns : RemoteGone(c))
  BY <1>1, HubElse DEF After, client, server, shell
<1>2. CASE ClientReadFails
  <2>1. /\ running /\ ReadFails(Client) /\ ~running' /\ ending' = "eof"
        /\ UNCHANGED <<mode, displayed, printed, consumed, shellUp>>
    BY <1>2 DEF ClientReadFails, Reading, Exit, shell
  <2>2. ~shellUp  BY <2>1, ClosedMeansDone DEF ReadFails, Endings, Conns
  <2>3. mode = "exec" /\ consumed # <<>> => displayed = printed
    BY <2>1, AllDisplayed DEF Command
  <2> QED  BY <2>1, <2>2, <2>3 DEF After
<1>3. CASE TypeFails \/ Leave
  BY <1>3 DEF After, TypeFails, Leave, Exit, shell
<1>4. CASE Type \/ Display
  BY <1>4 DEF After, Type, Display, Reading, shell
<1>5. CASE Serve
  BY <1>5 DEF After, Serve, LoopRead, LoopReadFails, LoopWrite, LoopWriteFails, CloseShell, LoopClose, Loop,
     client, shell
<1>6. CASE Output
  BY <1>6 DEF After, Output, PumpRead, PumpReadFails, PumpWrite, PumpWriteFails, PumpClose, Pump, client, shell
<1>7. CASE Consume \/ Emit \/ ShellExits \/ UNCHANGED vars
  BY <1>7 DEF After, Consume, Emit, ShellExits, vars, client, shell
<1> QED  BY <1>1, <1>2, <1>3, <1>4, <1>5, <1>6, <1>7 DEF Next, Conns

------------------------------------------------------------------------------
(* The invariant, and what follows from it.                                *)

LEMMA InitInv == Init => TIInv
<1> SUFFICES ASSUME Init PROVE TIInv  OBVIOUS
<1>1. /\ Client \in Conns /\ Agent \in Conns /\ Client # Agent /\ H!Conns = Conns /\ R!H!Conns = Conns
      /\ Nil \notin {Agent, Client, "eof"} /\ H!Ways = R!H!Ways
  BY EndsAssumption, NilAssumption, Directions DEF Conns, H!Conns, R!H!Conns
<1>2. <<>> \in Seq(Nat) /\ Len(<<>>) = 0  OBVIOUS
<1>3. Session
  <2>1. ses[Client] = [pc |-> "relaying", network |-> Network, name |-> Name, agent |-> Agent]
    BY DEF Init
  <2>2. conn[Client] = "open" /\ conn[Agent] = "open" /\ conn \in [Conns -> {"open", "closed"}]
        /\ remote \in [Conns -> BOOLEAN]
    BY <1>1 DEF Init, Conns
  <2>3. copy \in [{Client} -> [H!Ways -> {"read", "write", "done"}]]  BY DEF Init
  <2> QED  BY <1>1, <2>1, <2>2, <2>3 DEF Init, Session
<1>4. /\ up = [c \in Conns |-> <<>>] /\ down = [c \in Conns |-> <<>>]
      /\ held = [k \in {Client} |-> [w \in H!Ways |-> Nil]]
  BY <1>1 DEF Init, R!Empty
<1>5. Shape
  <2>1. Pieces /\ Holding  BY <1>2, <1>4 DEF Init, Pieces, Holding
  <2>2. Places /\ Buffers  BY DEF Init, Places, Buffers
  <2>3. Bounds  BY <1>2, BoundsAssumption DEF Init, Bounds, Limit
  <2> QED  BY <2>1, <2>2, <2>3 DEF Shape
<1>6. ASSUME NEW n \in 0 .. 3 PROVE Chain(<<>>, <<>>, <<>>, <<>>, <<>>, <<>>, <<>>, n)
  BY <1>2 DEF Chain, Numbered
<1>7. KeyboardChain
  <2>1. /\ consumed = <<>> /\ ptyIn = <<>> /\ Box(inbuf) = <<>> /\ down[Agent] = <<>>
        /\ Box(held[Client]["toAgent"]) = <<>> /\ up[Client] = <<>> /\ typed = <<>>
    BY <1>1, <1>4, Boxes, Directions DEF Init
  <2> QED  BY <1>6, <2>1, Depths DEF KeyboardChain
<1>8. ScreenChain
  <2>1. /\ displayed = <<>> /\ down[Client] = <<>> /\ Box(held[Client]["toClient"]) = <<>>
        /\ up[Agent] = <<>> /\ Box(outbuf) = <<>> /\ ptyOut = <<>> /\ printed = <<>>
    BY <1>1, <1>4, Boxes, Directions DEF Init
  <2>2. ScreenDepth \in 0 .. 3  BY Depths
  <2> QED  BY <1>6, <2>1, <2>2 DEF ScreenChain
<1>9. Endings
  <2>1. ~SomeDone /\ remote[Client] /\ remote[Agent]  BY <1>1 DEF Init, SomeDone
  <2> QED  BY <2>1 DEF Init, Endings, At
<1>10. Exec /\ After  BY <1>1 DEF Init, Exec, Command, After
<1> QED  BY <1>3, <1>5, <1>7, <1>8, <1>9, <1>10 DEF TIInv

LEMMA StepInv == ASSUME TIInv, [Next]_vars PROVE TIInv'
BY SessionInv, ShapeInv, ChainsInv, EndsInv, ExecInv, AfterInv DEF TIInv

LEMMA Invariant == Spec => []TIInv
BY InitInv, StepInv, PTL DEF Spec

\* A stage of a direction holds no more than was sent.
LEMMA ChainBounds ==
  ASSUME NEW out, NEW a, NEW b, NEW c, NEW d, NEW e, NEW all, NEW n \in 0 .. 3,
         Chain(out, a, b, c, d, e, all, n)
  PROVE  Len(a) <= Len(all) /\ Len(c) <= Len(all) /\ Len(e) <= Len(all)
<1>1. /\ Len(out) \in Nat /\ Len(a) \in Nat /\ Len(b) \in Nat /\ Len(c) \in Nat
      /\ Len(d) \in Nat /\ Len(e) \in Nat /\ Len(all) \in Nat
  BY ChainTypes
<1>2. Len(out) + Len(a) + Len(b) + Len(c) + Len(d) + Len(e) <= Len(all)  BY DEF Chain
<1> QED  BY <1>1, <1>2

LEMMA HubTypes == Session => H!TypeOK
<1> SUFFICES ASSUME Session PROVE H!TypeOK  OBVIOUS
<1>1. H!Dir!TypeOK  BY DEF Session, H!Dir!TypeOK
<1>2. H!Audit!TypeOK
  <2>1. entries \in Seq({Client}) /\ Len(entries) = 1  BY DEF Session
  <2>2. H!Audit!Cap = 1  BY DEF H!Audit!Cap
  <2>3. started \in [{Client} -> Nat] /\ ended \in [{Client} -> Nat]  BY DEF Session
  <2>4. active \in Nat  BY DEF Session
  <2> QED  BY <2>1, <2>2, <2>3, <2>4 DEF H!Audit!TypeOK
<1>3. /\ conn \in [H!Conns -> {"none", "open", "closed"}] /\ remote \in [H!Conns -> BOOLEAN]
      /\ copy \in [{Client} -> [H!Ways -> {"none", "read", "write", "done"}]]
  BY DEF Session, H!Conns, Conns
<1>4. reg \in [{Agent} -> [pc : H!AgentState, peer : H!Dir!Peer \cup {Nil}, prev : {Agent, Nil}]]
  BY DEF Session, Peer, H!AgentState, H!Dir!Peer
<1>5. ses \in [{Client} -> [pc : H!SessionState, network : {Network} \cup {Nil},
                            name : {Name} \cup {Nil}, agent : {Agent} \cup {Nil}]]
  BY DEF Session, H!SessionState
<1> QED  BY <1>1, <1>2, <1>3, <1>4, <1>5 DEF H!TypeOK

LEMMA TypesHold == TIInv => TypeOK
<1> SUFFICES ASSUME TIInv PROVE TypeOK  OBVIOUS
<1>1. H!TypeOK  BY HubTypes DEF TIInv
<1>2. Limit \in Nat /\ Limit <= MaxIn /\ MaxIn \in Nat /\ MaxOut \in Nat
  BY BoundsAssumption DEF Limit
<1>3. /\ Len(typed) \in Nat /\ Len(printed) \in Nat
      /\ Len(up[Client]) \in Nat /\ Len(up[Agent]) \in Nat
      /\ Len(down[Client]) \in Nat /\ Len(down[Agent]) \in Nat
  <2>1. /\ typed \in Seq(Nat) /\ up[Client] \in Seq(Nat) /\ down[Agent] \in Seq(Nat)
    BY DEF TIInv, KeyboardChain, Chain
  <2>2. /\ printed \in Seq(Nat) /\ up[Agent] \in Seq(Nat) /\ down[Client] \in Seq(Nat)
    BY DEF TIInv, ScreenChain, Chain
  <2> QED  BY <2>1, <2>2
<1>4. /\ Len(up[Client]) <= Len(typed) /\ Len(down[Agent]) <= Len(typed)
  BY Depths, ChainBounds DEF TIInv, KeyboardChain
<1>5. /\ Len(up[Agent]) <= Len(printed) /\ Len(down[Client]) <= Len(printed)
  <2>1. ScreenDepth \in 0 .. 3  BY Depths
  <2> QED  BY <2>1, ChainBounds DEF TIInv, ScreenChain
<1>6. Len(typed) <= Limit /\ Len(printed) <= MaxOut  BY DEF TIInv, Shape, Bounds
<1>7. \A c \in {Agent, Client} : Len(up[c]) <= MaxIn + MaxOut /\ Len(down[c]) <= MaxIn + MaxOut
  BY <1>2, <1>3, <1>4, <1>5, <1>6
<1> QED  BY <1>1, <1>7 DEF TIInv, Shape, Pieces, Places, Buffers, Bounds, TypeOK, Conns

\* Every variable keeps its type; a buffer is full exactly while its contents
\* are written on, and no queue holds more than was typed or printed.
THEOREM TypeCorrect == Spec => []TypeOK
BY Invariant, TypesHold, PTL

\* A command that ran to its end has shown all of its output, whatever the
\* order in which the shell, the agent's two goroutines, the hub's relay and
\* its two copiers, and the client noticed that the session was over.
THEOREM CommandComplete == Spec => []ExecComplete
<1>1. TIInv => ExecComplete  BY DEF TIInv, After, ExecComplete
<1> QED  BY <1>1, Invariant, PTL

LEMMA KeyboardStep ==
  ASSUME TIInv, [Next]_vars PROVE [Keyboard!Next]_<<typed, consumed>>
<1>1. CASE HandleConnect \/ (\E w \in H!Ways : CopyMsgs(w)) \/ (\E c \in Conns : RemoteGone(c))
  BY <1>1, HubElse DEF TIInv, client, shell
<1>2. CASE Type
  BY <1>2 DEF Type, shell, Keyboard!Next, Keyboard!Send
<1>3. CASE TypeFails \/ Display \/ ClientReadFails \/ Leave
  BY <1>3 DEF TypeFails, Display, ClientReadFails, Leave, Exit, shell
<1>4. CASE Serve
  BY <1>4 DEF Serve, LoopRead, LoopReadFails, LoopWrite, LoopWriteFails, CloseShell, LoopClose, Loop, client, shell
<1>5. CASE Output
  BY <1>5 DEF Output, PumpRead, PumpReadFails, PumpWrite, PumpWriteFails, PumpClose, Pump, client, shell
<1>6. CASE Consume
  <2>1. Len(consumed) < Len(typed) /\ Head(ptyIn) = typed[Len(consumed) + 1]
    <3>1. Chain(consumed, ptyIn, Box(inbuf), down[Agent], Box(held[Client]["toAgent"]), up[Client],
                typed, KeyboardDepth)
      BY DEF TIInv, KeyboardChain
    <3>2. ptyIn # <<>>  BY <1>6 DEF Consume
    <3> QED  BY <3>1, <3>2, Depths, ChainDeliver
  <2> QED  BY <1>6, <2>1 DEF Consume, client, Keyboard!Next, Keyboard!Deliver
<1>7. CASE Emit \/ ShellExits \/ UNCHANGED vars
  BY <1>7 DEF Emit, ShellExits, vars, client, shell
<1> QED  BY <1>1, <1>2, <1>3, <1>4, <1>5, <1>6, <1>7 DEF Next, Conns

LEMMA ScreenStep ==
  ASSUME TIInv, [Next]_vars PROVE [Screen!Next]_<<printed, displayed>>
<1>1. CASE HandleConnect \/ (\E w \in H!Ways : CopyMsgs(w)) \/ (\E c \in Conns : RemoteGone(c))
  BY <1>1, HubElse DEF TIInv, client, shell
<1>2. CASE Display
  <2>1. Len(displayed) < Len(printed) /\ Head(down[Client]) = printed[Len(displayed) + 1]
    <3>1. Chain(displayed, down[Client], Box(held[Client]["toClient"]), up[Agent], Box(outbuf), ptyOut,
                printed, ScreenDepth)
      BY DEF TIInv, ScreenChain
    <3>2. down[Client] # <<>> /\ ScreenDepth \in 0 .. 3  BY <1>2, Depths DEF Display
    <3> QED  BY <3>1, <3>2, ChainDeliver
  <2> QED  BY <1>2, <2>1 DEF Display, shell, Screen!Next, Screen!Deliver
<1>3. CASE Type \/ TypeFails \/ ClientReadFails \/ Leave
  BY <1>3 DEF Type, TypeFails, ClientReadFails, Leave, Exit, shell
<1>4. CASE Serve
  BY <1>4 DEF Serve, LoopRead, LoopReadFails, LoopWrite, LoopWriteFails, CloseShell, LoopClose, Loop, client, shell
<1>5. CASE Output
  BY <1>5 DEF Output, PumpRead, PumpReadFails, PumpWrite, PumpWriteFails, PumpClose, Pump, client, shell
<1>6. CASE Emit
  BY <1>6 DEF Emit, client, Screen!Next, Screen!Send
<1>7. CASE Consume \/ ShellExits \/ UNCHANGED vars
  BY <1>7 DEF Consume, ShellExits, vars, client, shell
<1> QED  BY <1>1, <1>2, <1>3, <1>4, <1>5, <1>6, <1>7 DEF Next, Conns

\* What the shell reads is what was typed, in order, each piece once and none
\* left out, however often the client types and wherever a loop, a copier, a
\* websocket or a process ends.
THEOREM KeyboardCorrect == Spec => KeyboardIsStream
<1>1. Init => Keyboard!Init  BY DEF Init, Keyboard!Init
<1>2. TIInv /\ [Next]_vars => [Keyboard!Next]_<<typed, consumed>>  BY KeyboardStep
<1> QED  BY <1>1, <1>2, Invariant, PTL DEF Spec, KeyboardIsStream, Keyboard!Spec

\* What the client shows is what the shell printed, in the same sense.
THEOREM ScreenCorrect == Spec => ScreenIsStream
<1>1. Init => Screen!Init  BY DEF Init, Screen!Init
<1>2. TIInv /\ [Next]_vars => [Screen!Next]_<<printed, displayed>>  BY ScreenStep
<1> QED  BY <1>1, <1>2, Invariant, PTL DEF Spec, ScreenIsStream, Screen!Spec

\* Both ways at once.
THEOREM StreamsCorrect == Spec => Streams
<1> QED  BY KeyboardCorrect, ScreenCorrect, PTL DEF Streams

------------------------------------------------------------------------------
(* The hub of a session is the hub.                                        *)

HP == INSTANCE HubProofs WITH Networks <- {Network}, Names <- {Name}, Keys <- {Key},
                              AgentConns <- {Agent}, ClientConns <- {Client}, MaxEntries <- 1

\* What is assumed of a hub holds of this one.
LEMMA HubAssumed ==
  /\ {Agent} \cap {Client} = {} /\ Nil \notin {Agent} \cup {Client}
  /\ IsFiniteSet({Client}) /\ 1 \in Int
  /\ Nil \notin {Network} \cup {Name}
       \cup [peer : [network : {Network}, name : {Name}, pubkey : {Key}], conn : {Agent}]
<1>1. IsFiniteSet({Client})  BY FS_Singleton
<1> QED  BY <1>1, EndsAssumption, NilAssumption

\* Its state is one the hub can be in.
LEMMA SessionOfTheHub == Session => HP!IInv
<1> SUFFICES ASSUME Session PROVE HP!IInv  OBVIOUS
<1>1. H!TypeOK  BY HubTypes
<1>2. HP!TypeOK
  BY <1>1 DEF H!TypeOK, H!Dir!TypeOK, H!Dir!Record, H!Dir!Peer, H!Audit!TypeOK, H!Audit!Cap,
     H!Conns, H!Ways, H!AgentState, H!SessionState,
     HP!TypeOK, HP!Dir!TypeOK, HP!Dir!Record, HP!Dir!Peer, HP!Audit!TypeOK, HP!Audit!Cap,
     HP!Conns, HP!Ways, HP!AgentState, HP!SessionState
<1>3. /\ reg[Agent] = [pc |-> "returned", peer |-> Peer, prev |-> Nil]
      /\ dir[Network][Name] = Nil /\ started[Client] = 1 /\ Agent # Client /\ Nil # Agent /\ Nil # Client
  BY EndsAssumption, NilAssumption DEF Session
<1>4. HP!Filed /\ HP!Replaced  BY <1>3 DEF HP!Filed, HP!At, HP!Replaced
<1>5. conn[Agent] \in {"open", "closed"} /\ conn[Client] \in {"open", "closed"}
  BY DEF Session, Conns
<1>6. HP!Handlers  BY <1>3, <1>5 DEF HP!Handlers, Peer, HP!Dir!Peer
<1>7. HP!Brokered /\ HP!Kept
  BY <1>3, <1>5, SessionRecord DEF Session, Peer, HP!Brokered, HP!Kept, HP!Owned
<1>8. HP!Sessions
  <2>1. H!Ways = HP!Ways  BY DEF H!Ways, HP!Ways
  <2> QED  BY <1>3, <1>5, <2>1, SessionRecord DEF Session, HP!Sessions, HP!Live
<1>9. active = HP!Cardinality(HP!Live)
  <2>1. HP!Cardinality({}) = 0 /\ HP!Cardinality({Client}) = 1
    <3>1. HP!Cardinality({}) = Cardinality({}) /\ HP!Cardinality({Client}) = Cardinality({Client})
      BY DEF HP!Cardinality, Cardinality
    <3> QED  BY <3>1, FS_EmptySet, FS_Singleton
  <2>2. HP!Live = IF ses[Client].pc = "returned" THEN {} ELSE {Client}
    BY SessionRecord DEF HP!Live
  <2> QED  BY <2>1, <2>2 DEF Session
<1> QED  BY <1>2, <1>4, <1>6, <1>7, <1>8, <1>9 DEF HP!IInv

\* Its steps are the hub's; the programs and their shell take none with it.
LEMMA StepOfTheHub ==
  ASSUME [Next]_vars PROVE HP!Next \/ UNCHANGED hub
<1>1. CASE HandleConnect
  <2>1. R!HandleConnect(Client)  BY <1>1 DEF HandleConnect
  <2>2. HP!HandleConnect(Client)
    BY <2>1
       DEF R!HandleConnect, R!H!HandleConnect, R!H!TakePeer, R!H!Refuse, R!H!StartRelay, R!H!FirstDone,
       R!H!CloseAgent, R!H!EndRelay, R!H!Close, R!H!Wanted, R!H!audit, R!H!Ways, R!H!Dir!Take,
       R!H!Audit!Start, R!H!Audit!End, R!H!Audit!Record, R!H!Audit!Cap, R!H!Audit!EndsNow, R!H!Audit!IsOpen,
       HP!HandleConnect, HP!TakePeer, HP!Refuse, HP!StartRelay, HP!FirstDone,
       HP!CloseAgent, HP!EndRelay, HP!Close, HP!Wanted, HP!audit, HP!Ways, HP!Dir!Take,
       HP!Audit!Start, HP!Audit!End, HP!Audit!Record, HP!Audit!Cap, HP!Audit!EndsNow, HP!Audit!IsOpen
  <2> QED  BY <2>2 DEF HP!Next
<1>2. ASSUME NEW w \in H!Ways, CopyMsgs(w) PROVE HP!Next
  <2>1. R!CopyMsgs(Client, w)  BY <1>2 DEF CopyMsgs
  <2>2. w \in HP!Ways /\ HP!CopyMsgs(Client, w)
    BY <2>1
       DEF R!CopyMsgs, R!CopyRead, R!CopyReadFails, R!CopyWrite, R!CopyWriteFails,
       R!H!CopyRead, R!H!CopyReadFails, R!H!CopyWrite, R!H!CopyWriteFails, R!H!Copier, R!H!Src, R!H!Dst, R!H!audit,
       HP!CopyMsgs, HP!CopyRead, HP!CopyReadFails, HP!CopyWrite, HP!CopyWriteFails, HP!Copier, HP!Src, HP!Dst,
       HP!audit, H!Ways, HP!Ways
  <2> QED  BY <2>2 DEF HP!Next
<1>3. ASSUME NEW c \in {Agent, Client}, RemoteGone(c) PROVE HP!Next
  <2>1. c \in HP!Conns /\ HP!RemoteGone(c)
    BY <1>3 DEF RemoteGone, R!RemoteGone, R!RemoteReset, R!H!RemoteGone, R!H!audit, HP!RemoteGone, HP!audit, HP!Conns
  <2> QED  BY <2>1 DEF HP!Next
<1>4. CASE Type \/ TypeFails \/ Display \/ ClientReadFails \/ Leave
  BY <1>4 DEF Type, TypeFails, Display, ClientReadFails, Leave, Exit
<1>5. CASE Serve
  BY <1>5 DEF Serve, LoopRead, LoopReadFails, LoopWrite, LoopWriteFails, CloseShell, LoopClose, Loop
<1>6. CASE Output
  BY <1>6 DEF Output, PumpRead, PumpReadFails, PumpWrite, PumpWriteFails, PumpClose, Pump
<1>7. CASE Consume \/ Emit \/ ShellExits \/ UNCHANGED vars
  BY <1>7 DEF Consume, Emit, ShellExits, vars
<1> QED  BY <1>1, <1>2, <1>3, <1>4, <1>5, <1>6, <1>7 DEF Next

\* Refinement: what an established session does to its hub is what Hub allows,
\* from a state that the hub's own invariant admits.
THEOREM SessionRunsTheHub == Spec => HP!IInv /\ [][HP!Next]_hub
<1>1. Init => HP!IInv  BY InitInv, SessionOfTheHub DEF TIInv
<1>2. [Next]_vars => [HP!Next]_hub  BY StepOfTheHub
<1> QED  BY <1>1, <1>2, PTL DEF Spec

\* So what was proved of the hub holds of a session as it is torn down: no end
\* is left open with nobody to close it, and the log counts it while it lives.
THEOREM SessionKeepsTheHub ==
  Spec => [](HP!NoLeak /\ HP!OneOwner /\ HP!OfferedIsOpen /\ HP!Routed /\ HP!AuditIsLive)
<1>1. HP!IInv => HP!NoLeak /\ HP!OneOwner /\ HP!OfferedIsOpen /\ HP!Routed /\ HP!AuditIsLive
  BY HubAssumed, HP!NoLeakInv, HP!OneOwnerInv, HP!OfferedIsOpenInv, HP!RoutedInv, HP!AuditIsLiveInv
     DEF IsFiniteSet, HP!IsFiniteSet
<1>2. TIInv => HP!IInv  BY SessionOfTheHub DEF TIInv
<1> QED  BY <1>1, <1>2, Invariant, PTL
==============================================================================
