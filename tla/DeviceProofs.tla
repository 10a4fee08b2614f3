----------------------------- MODULE DeviceProofs -----------------------------
(***************************************************************************)
(* One identity per device, one DID per key, and what a verifier makes of  *)
(* them, for any number of processes, keys, bytes, radix and letters.      *)
(*                                                                         *)
(* The file: short of a race, whoever creates it is alone, it is not there *)
(* before it is truncated and does not parse before it is written; so      *)
(* nobody runs until then, and nobody writes it after.  The encoding: base *)
(* 58 loses neither a leading zero nor a digit, whatever the length.  The  *)
(* registry: it says of each key what was last said of it, since no two    *)
(* have the same DID.                                                      *)
(***************************************************************************)
EXTENDS Device, SequenceTheorems, WellFoundedInduction, TLAPS

------------------------------------------------------------------------------
(* The identity file.                                                      *)

Alone == \A p, q \in Procs : Creating(p) /\ Creating(q) => p = q
NotYet ==
  \A p \in Procs : /\ proc[p].pc = "creating" => file = Absent
                   /\ proc[p].pc = "writing" => file.part = "empty"
TheFiles == \A p \in Procs : proc[p].pc = "running" => proc[p].id = file

IInv ==
  /\ TypeOK
  /\ ~raced => Alone /\ NotYet /\ TheFiles

\* What a process may be.
LEMMA ProcCases ==
  ASSUME TypeOK, NEW p \in Procs
  PROVE  /\ proc[p].pc = "off" => proc[p] = Off
         /\ Creating(p) => proc[p].id \in Generated /\ proc[p] = [pc |-> proc[p].pc, id |-> proc[p].id]
         /\ proc[p].pc = "running" => proc[p].id \in Parsed
<1>1. proc[p] \in Proc  BY DEF TypeOK
<1>2. CASE proc[p] = Off  BY <1>2 DEF Off, Creating
<1>3. CASE proc[p] \in [pc : {"creating", "writing"}, id : Generated]  BY <1>3 DEF Creating
<1>4. CASE proc[p] \in [pc : {"running"}, id : Parsed]  BY <1>4 DEF Creating
<1> QED  BY <1>1, <1>2, <1>3, <1>4 DEF Proc

\* Nobody runs while the file does not parse, or is being created.
LEMMA NobodyRuns ==
  ASSUME IInv, ~raced, ~Parses \/ \E q \in Procs : Creating(q), NEW p \in Procs
  PROVE  proc[p].pc # "running"
<1>1. ~Parses  BY NilAssumption DEF IInv, NotYet, Creating, Parses, Absent
<1>2. ASSUME proc[p].pc = "running" PROVE FALSE
  <2>1. proc[p].id = file  BY <1>2 DEF IInv, TheFiles
  <2>2. proc[p].id \in Parsed  BY <1>2, ProcCases DEF IInv
  <2> QED  BY <1>1, <2>1, <2>2 DEF Parses, Parsed
<1> QED  BY <1>2

LEMMA InitInv == Init => IInv
<1> SUFFICES ASSUME Init PROVE IInv  OBVIOUS
<1>1. \A p \in Procs : proc[p] = Off  BY DEF Init
<1>2. TypeOK  BY DEF Init, TypeOK, Proc
<1>3. Off.pc = "off"  BY DEF Off
<1>4. Alone /\ NotYet /\ TheFiles  BY <1>1, <1>3 DEF Alone, NotYet, TheFiles, Creating
<1> QED  BY <1>2, <1>4 DEF IInv

LEMMA LoadInv == ASSUME IInv, NEW p \in Procs, Load(p) PROVE IInv'
<1> DEFINE new == [pc |-> "running", id |-> file]
<1>1. /\ UNCHANGED <<file, used, raced>> /\ Parses
      /\ proc' = [proc EXCEPT ![p] = new]
      /\ proc'[p].pc = "running" /\ proc'[p].id = file
      /\ \A q \in Procs : q # p => proc'[q] = proc[q]
  BY DEF Load, IInv, TypeOK
<1>2. file \in Parsed
  BY <1>1 DEF IInv, TypeOK, Content, Absent, Parses, Parsed
<1>3. new \in Proc  BY <1>2 DEF Proc
<1>4. TypeOK'  BY <1>1, <1>3 DEF IInv, TypeOK
<1>5. (~raced => Alone /\ NotYet /\ TheFiles)'
  BY <1>1 DEF IInv, Alone, NotYet, TheFiles, Creating
<1> QED  BY <1>4, <1>5 DEF IInv

LEMMA GenerateInv == ASSUME IInv, NEW p \in Procs, Generate(p) PROVE IInv'
<1> DEFINE new(k) == [pc |-> "creating", id |-> [key |-> k, part |-> "whole"]]
<1>1. PICK k \in Keys \ used : proc' = [proc EXCEPT ![p] = new(k)] /\ used' = used \cup {k}
  BY DEF Generate
<1>2. /\ file' = file /\ file = Absent
      /\ raced' = (raced \/ \E q \in Procs : Creating(q))
      /\ proc'[p].pc = "creating"
      /\ \A q \in Procs : q # p => proc'[q] = proc[q]
  BY <1>1 DEF Generate, IInv, TypeOK
<1>3. new(k) \in Proc  BY DEF Proc, Generated
<1>4. raced' \in BOOLEAN  BY <1>2 DEF IInv, TypeOK
<1>5. TypeOK'  BY <1>1, <1>2, <1>3, <1>4 DEF IInv, TypeOK
<1>6. ASSUME ~raced' PROVE (Alone /\ NotYet /\ TheFiles)'
  <2>1. ~raced /\ \A q \in Procs : ~Creating(q)  BY <1>2, <1>6
  <2>2. Alone'  BY <1>2, <2>1 DEF Alone, Creating
  <2>3. NotYet'  BY <1>2, <2>1 DEF NotYet, Creating
  <2>4. TheFiles'  BY <1>2, <2>1 DEF TheFiles, IInv
  <2> QED  BY <2>2, <2>3, <2>4
<1> QED  BY <1>5, <1>6 DEF IInv

LEMMA TruncateInv == ASSUME IInv, NEW p \in Procs, Truncate(p) PROVE IInv'
<1>1. Creating(p) /\ UNCHANGED <<used, raced>>  BY DEF Truncate, Creating
<1>2. proc[p].id \in Generated /\ proc[p] = [pc |-> proc[p].pc, id |-> proc[p].id]
  BY <1>1, ProcCases DEF IInv
<1>3. [proc[p] EXCEPT !.pc = "writing"] = [pc |-> "writing", id |-> proc[p].id]  BY <1>2
<1>4. /\ proc' = [proc EXCEPT ![p] = [pc |-> "writing", id |-> proc[p].id]]
      /\ proc'[p].pc = "writing"
      /\ \A q \in Procs : q # p => proc'[q] = proc[q]
  BY <1>3 DEF Truncate, IInv, TypeOK
<1>5. file' \in Content /\ file'.part = "empty"  BY <1>2 DEF Truncate, Content, Generated
<1>6. TypeOK'
  <2>1. [pc |-> "writing", id |-> proc[p].id] \in Proc  BY <1>2 DEF Proc
  <2> QED  BY <1>1, <1>4, <1>5, <2>1 DEF IInv, TypeOK
<1>7. ASSUME ~raced' PROVE (Alone /\ NotYet /\ TheFiles)'
  <2>1. ~raced /\ \A q \in Procs : proc[q].pc # "running"  BY <1>1, <1>7, NobodyRuns
  <2>2. Alone'  BY <1>1, <1>4, <2>1 DEF Alone, Creating, IInv
  <2>3. \A q \in Procs : Creating(q) => q = p  BY <1>1, <2>1 DEF IInv, Alone
  <2>4. NotYet'  BY <1>4, <1>5, <2>3 DEF NotYet, Creating
  <2>5. TheFiles'  BY <1>4, <2>1 DEF TheFiles
  <2> QED  BY <2>2, <2>4, <2>5
<1> QED  BY <1>6, <1>7 DEF IInv

LEMMA WriteInv == ASSUME IInv, NEW p \in Procs, Write(p) PROVE IInv'
<1>1. /\ Creating(p) /\ UNCHANGED <<used, raced>> /\ file' = proc[p].id
  BY DEF Write, Creating
<1>2. proc[p].id \in Generated /\ proc[p] = [pc |-> proc[p].pc, id |-> proc[p].id]
  BY <1>1, ProcCases DEF IInv
<1>3. [proc[p] EXCEPT !.pc = "running"] = [pc |-> "running", id |-> proc[p].id]  BY <1>2
<1>4. /\ proc' = [proc EXCEPT ![p] = [pc |-> "running", id |-> proc[p].id]]
      /\ proc'[p].pc = "running" /\ proc'[p].id = file'
      /\ \A q \in Procs : q # p => proc'[q] = proc[q]
  BY <1>1, <1>3 DEF Write, IInv, TypeOK
<1>5. TypeOK'
  <2>1. file' \in Content /\ proc[p].id \in Parsed  BY <1>1, <1>2 DEF Content, Generated, Parsed
  <2>2. [pc |-> "running", id |-> proc[p].id] \in Proc  BY <2>1 DEF Proc
  <2> QED  BY <1>1, <1>4, <2>1, <2>2 DEF IInv, TypeOK
<1>6. ASSUME ~raced' PROVE (Alone /\ NotYet /\ TheFiles)'
  <2>1. ~raced /\ \A q \in Procs : proc[q].pc # "running"  BY <1>1, <1>6, NobodyRuns
  <2>2. \A q \in Procs : Creating(q) => q = p  BY <1>1, <2>1 DEF IInv, Alone
  <2>3. \A q \in Procs : proc'[q].pc \notin {"creating", "writing"}  BY <1>4, <2>2 DEF Creating
  <2>4. Alone' /\ NotYet'  BY <2>3 DEF Alone, NotYet, Creating
  <2>5. TheFiles'  BY <1>4, <2>1 DEF TheFiles
  <2> QED  BY <2>4, <2>5
<1> QED  BY <1>5, <1>6 DEF IInv

\* A process that ends, whatever it leaves in the file it was creating.
LEMMA EndInv ==
  ASSUME IInv, NEW p \in Procs, WriteShort(p) \/ Stop(p)
  PROVE  IInv'
<1>1. /\ UNCHANGED <<used, raced>>
      /\ proc' = [proc EXCEPT ![p] = Off]
      /\ proc'[p].pc = "off"
      /\ \A q \in Procs : q # p => proc'[q] = proc[q]
  BY DEF WriteShort, Stop, Off, IInv, TypeOK
<1>2. file' \in Content \cup {Absent}
  <2>1. CASE WriteShort(p)
    <3>1. proc[p].id \in Generated  BY <2>1, ProcCases DEF WriteShort, Creating, IInv
    <3> QED  BY <2>1, <3>1 DEF WriteShort, Content, Generated
  <2>2. CASE Stop(p)  BY <2>2 DEF Stop, IInv, TypeOK
  <2> QED  BY <2>1, <2>2
<1>3. TypeOK'  BY <1>1, <1>2 DEF IInv, TypeOK, Proc
<1>4. ASSUME ~raced' PROVE (Alone /\ NotYet /\ TheFiles)'
  <2>1. ~raced /\ Alone'  BY <1>1, <1>4 DEF Alone, Creating, IInv
  <2>2. CASE WriteShort(p)
    <3>1. Creating(p)  BY <2>2 DEF WriteShort, Creating
    <3>2. \A q \in Procs : Creating(q) => q = p  BY <2>1, <3>1 DEF IInv, Alone
    <3>3. \A q \in Procs : proc[q].pc # "running"  BY <2>1, <3>1, NobodyRuns
    <3> QED  BY <1>1, <2>1, <3>2, <3>3 DEF NotYet, TheFiles, Creating
  <2>3. CASE Stop(p)  BY <1>1, <2>1, <2>3 DEF Stop, NotYet, TheFiles, IInv
  <2> QED  BY <2>1, <2>2, <2>3
<1> QED  BY <1>3, <1>4 DEF IInv

\* Every step keeps the invariant.
LEMMA Inductive == IInv /\ [Next]_idvars => IInv'
<1>1. ASSUME IInv, UNCHANGED idvars PROVE IInv'
  BY <1>1 DEF idvars, IInv, TypeOK, Alone, NotYet, TheFiles, Creating, Parses
<1> QED
  BY <1>1, LoadInv, GenerateInv, TruncateInv, WriteInv, EndInv DEF Next, Step

LEMMA Invariant == Spec => []IInv
  BY InitInv, Inductive, PTL DEF Spec

\* The file and the processes keep to their types.
THEOREM TypeCorrect == Spec => []TypeOK
<1>1. IInv => TypeOK  BY DEF IInv
<1> QED  BY <1>1, Invariant, PTL

\* All processes of a device run with the identity its file holds, unless two
\* of them were creating it at once.
THEOREM IdentityIsOne == Spec => []OneIdentity
<1>1. IInv => OneIdentity  BY DEF IInv, OneIdentity, TheFiles
<1> QED  BY <1>1, Invariant, PTL

\* A step that writes the file finds it absent or unreadable.
LEMMA StepKeepsFile == IInv /\ Next => KeepsFile
<1> SUFFICES ASSUME IInv, NEW p \in Procs, Step(p), ~raced', Parses PROVE file' = file
  BY DEF Next, KeepsFile
<1>1. ~raced  BY DEF Step, Load, Generate, Truncate, Write, WriteShort, Stop
<1>2. ~Creating(p)  BY <1>1 DEF IInv, NotYet, Creating, Parses, Absent
<1> QED  BY <1>2 DEF Step, Load, Generate, Truncate, Write, WriteShort, Stop, Creating

\* Once it can be read, the file never changes, unless two processes were
\* creating it at once.
THEOREM IdentityStays == Spec => IdentityIsFinal
<1>1. IInv /\ [Next]_idvars => [KeepsFile]_idvars  BY StepKeepsFile
<1> QED  BY <1>1, Invariant, PTL DEF Spec, IdentityIsFinal

------------------------------------------------------------------------------
(* The device.                                                             *)

\* Printing, registering and revoking do not touch the identity file.
LEMMA DeviceStep == [DeviceNext]_vars => [Next]_idvars
<1>1. ASSUME NEW p \in Procs, PrintDID(p) PROVE UNCHANGED idvars
  BY <1>1 DEF PrintDID
<1>2. ASSUME NEW doc, Register(doc) \/ Revoke(doc) PROVE UNCHANGED idvars
  BY <1>2 DEF Register, Revoke
<1>3. UNCHANGED vars => UNCHANGED idvars  BY DEF vars
<1> QED  BY <1>1, <1>2, <1>3 DEF DeviceNext

\* The device's behaviours are behaviours of its identity file.
THEOREM DeviceImplementsIdentity == DeviceSpec => Spec
<1>1. DeviceInit => Init  BY DEF DeviceInit
<1> QED  BY <1>1, DeviceStep, PTL DEF DeviceSpec, Spec

\* Whatever is printed, registered and revoked, a device has one identity.
THEOREM DeviceHasOneIdentity == DeviceSpec => []OneIdentity
  BY DeviceImplementsIdentity, IdentityIsOne, PTL
------------------------------------------------------------------------------
(* The encoding.                                                           *)

\* Every set of naturals has a least element.
LEMMA Least ==
  ASSUME NEW T \in SUBSET Nat, T # {}
  PROVE  \E m \in T : \A k \in T : m <= k
<1>1. \A x, y \in Nat : <<x, y>> \in OpToRel(<, Nat) <=> x < y  BY DEF OpToRel
<1>2. PICK m \in T : \A k \in T : <<k, m>> \notin OpToRel(<, Nat)
  <2> DEFINE R == OpToRel(<, Nat)
  <2>1. IsWellFoundedOn(R, Nat)  BY NatLessThanWellFounded
  <2> HIDE DEF R
  <2>2. \E m \in T : \A k \in T : ~ (<<k, m>> \in R)  BY <2>1, WFMin
  <2> QED  BY <2>2 DEF R
<1>3. \A k \in T : ~ (k < m)  BY <1>1, <1>2
<1>4. \A k \in T : m <= k  BY <1>3
<1> QED  BY <1>4

\* Euclid.
\* Division by the radix.
LEMMA Quotient ==
  ASSUME NEW x \in Nat
  PROVE  /\ x \div Radix \in Nat /\ x % Radix \in 0 .. Radix - 1
         /\ x = Radix * (x \div Radix) + (x % Radix)
<1>1. x \in Int /\ Radix \in Int /\ Radix > 0  BY BasesAssumption
<1>2. x \div Radix \in Int /\ x % Radix \in 0 .. Radix - 1  BY <1>1
<1>3. x = Radix * (x \div Radix) + (x % Radix)  BY <1>1
<1>4. x \div Radix >= 0  BY <1>1
<1> QED  BY <1>2, <1>3, <1>4

\* Dividing makes smaller, so that base58Encode ends.
LEMMA Smaller ==
  ASSUME NEW x \in Nat, x # 0
  PROVE  x \div Radix < x
<1> DEFINE q == x \div Radix
<1>1. q \in Nat /\ x >= Radix * q  BY Quotient, BasesAssumption
<1> HIDE DEF q
<1>2. Radix * q = 2 * q + (Radix - 2) * q  BY <1>1, BasesAssumption
<1>3. (Radix - 2) * q >= 0  BY <1>1, BasesAssumption
<1>4. x >= 2 * q  BY <1>1, <1>2, <1>3, BasesAssumption
<1>5. q < x  BY <1>1, <1>4
<1> QED  BY <1>5 DEF q

\* A number has one last place and one rest.
LEMMA Place ==
  ASSUME NEW B \in Nat, NEW a \in Nat, NEW b \in Nat, NEW c \in 0 .. B - 1, NEW d \in 0 .. B - 1,
         a * B + c = b * B + d
  PROVE  a = b /\ c = d
<1>1. ASSUME NEW u \in Nat, NEW v \in Nat, NEW x \in 0 .. B - 1, NEW y \in 0 .. B - 1,
             u * B + x = v * B + y
      PROVE  ~ (u < v)
  <2>1. (v - u) * B = x - y  BY <1>1
  <2>2. ASSUME u < v PROVE FALSE
    <3>1. (v - u) * B = B + (v - u - 1) * B  OBVIOUS
    <3>2. (v - u - 1) * B >= 0  BY <2>2
    <3> QED  BY <2>1, <3>1, <3>2
  <2> QED  BY <2>2
<1>2. a = b  BY <1>1
<1> QED  BY <1>2

\* However many they are, the leading letters are zeros.
LEMMA ZerosAre ==
  ASSUME NEW s \in Seq(Nat)
  PROVE  \E z \in Nat : Zeros(s) = [i \in 1 .. z |-> 0]
<1> DEFINE t == Append(s, 1)
           I == {i \in 1 .. Len(t) : t[i] # 0}
<1>1. t \in Seq(Nat) /\ Len(t) = Len(s) + 1 /\ t[Len(s) + 1] = 1 /\ Len(s) \in Nat  OBVIOUS
<1>2. I # {} /\ I \in SUBSET (Nat \ {0})  BY <1>1
<1>3. SelectInSeq(t, LAMBDA b : b # 0) = Min(I)  BY <1>2 DEF SelectInSeq
<1> HIDE DEF I
<1>4. \E m \in I : \A k \in I : m <= k  BY <1>2, Least
<1>5. Min(I) \in I  BY <1>4 DEF Min
<1> DEFINE i == Min(I)
<1>6. i \in Nat \ {0}  BY <1>2, <1>5
<1> HIDE DEF i
<1>7. i - 1 \in Nat  BY <1>6
<1> QED  BY <1>3, <1>7 DEF Zeros, i

\* Induction, over a set.
LEMMA Induction ==
  ASSUME NEW T \in SUBSET Nat, 0 \in T, \A n \in T : n + 1 \in T
  PROVE  T = Nat
<1> SUFFICES ASSUME T # Nat PROVE FALSE  OBVIOUS
<1>1. Nat \ T # {}  OBVIOUS
<1>2. PICK m \in Nat \ T : \A k \in Nat \ T : m <= k
  <2> DEFINE U == Nat \ T
  <2>1. U \in SUBSET Nat /\ U # {}  BY <1>1
  <2> HIDE DEF U
  <2>2. \E m \in U : \A k \in U : m <= k  BY <2>1, Least
  <2> QED  BY <2>2 DEF U
<1>3. m # 0 /\ m \in Nat  OBVIOUS
<1>4. m - 1 \in Nat  BY <1>3
<1>5. m - 1 \in T  BY <1>2, <1>4
<1>6. (m - 1) + 1 \in T  BY <1>5
<1> QED  BY <1>3, <1>6

\* A function by recursion: f follows step from the value at back[x].
Descends(back) == back \in [Nat -> Nat] /\ \A x \in Nat \ {0} : back[x] < x
Follows(f, base, step, back) ==
  \A x \in Nat : f[x] = IF x = 0 THEN base ELSE step[x][f[back[x]]]

\* There is such a function, if back goes down: for each n there is one up to n,
\* any two of these agree, and f takes each of its values from one of them.
LEMMA Recursion ==
  ASSUME NEW V, NEW base \in V, NEW step \in [Nat -> [V -> V]], NEW back, Descends(back)
  PROVE  \E f \in [Nat -> V] : Follows(f, base, step, back)
<1> USE DEF Descends
<1> DEFINE Value(g, x) == IF x = 0 THEN base ELSE step[x][g[back[x]]]
           Upto(g, n) == g \in [0 .. n -> V] /\ \A x \in 0 .. n : g[x] = Value(g, x)
<1>1. ASSUME NEW m \in Nat, NEW n \in Nat, NEW g, NEW h, Upto(g, m), Upto(h, n),
             NEW y \in Nat, y <= m, y <= n
      PROVE  g[y] = h[y]
  <2> DEFINE T == {x \in Nat : x <= m /\ x <= n /\ g[x] # h[x]}
  <2> SUFFICES ASSUME T # {} PROVE FALSE  BY <1>1
  <2>1. T \in SUBSET Nat  OBVIOUS
  <2>2. PICK x \in T : \A k \in T : x <= k
    <3> HIDE DEF T
    <3> QED  BY <2>1, Least
  <2>3. x \in Nat /\ x \in 0 .. m /\ x \in 0 .. n /\ g[x] # h[x]  OBVIOUS
  <2>4. g[x] = Value(g, x) /\ h[x] = Value(h, x)  BY <1>1, <2>3
  <2>5. x # 0 /\ back[x] \in Nat /\ back[x] < x  BY <2>3, <2>4
  <2>6. back[x] \notin T  BY <2>2, <2>5
  <2> DEFINE b == back[x]
  <2>7. b \in Nat /\ b < x /\ b \notin T  BY <2>5, <2>6
  <2> HIDE DEF b
  <2>8. b <= m /\ b <= n  BY <2>3, <2>7, <1>1
  <2>9. g[b] = h[b]  BY <2>7, <2>8
  <2> QED  BY <2>3, <2>4, <2>5, <2>9 DEF b
<1>2. \A n \in Nat : \E g : Upto(g, n)
  <2> DEFINE T == {n \in Nat : \E g : Upto(g, n)}
  <2>1. 0 \in T
    <3> DEFINE g == [x \in 0 .. 0 |-> base]
    <3>1. g \in [0 .. 0 -> V] /\ \A x \in 0 .. 0 : x = 0 /\ g[x] = base  OBVIOUS
    <3>2. Upto(g, 0)  BY <3>1
    <3> QED  BY <3>2
  <2>2. ASSUME NEW n \in T PROVE n + 1 \in T
    <3>1. PICK g : Upto(g, n)  OBVIOUS
    <3>2. n \in Nat /\ back[n + 1] \in 0 .. n  OBVIOUS
    <3> DEFINE h == [x \in 0 .. n + 1 |-> IF x = n + 1 THEN step[n + 1][g[back[n + 1]]] ELSE g[x]]
    <3>3. step[n + 1][g[back[n + 1]]] \in V  BY <3>1, <3>2
    <3>4. h \in [0 .. n + 1 -> V]  BY <3>1, <3>2, <3>3
    <3>5. ASSUME NEW x \in 0 .. n + 1 PROVE h[x] = Value(h, x)
      <4>1. CASE x = n + 1  BY <3>2, <4>1
      <4>2. CASE x # n + 1
        <5>1. x \in 0 .. n /\ h[x] = g[x] /\ g[x] = Value(g, x)  BY <3>1, <3>2, <4>2
        <5>2. CASE x = 0  BY <5>1, <5>2
        <5>3. CASE x # 0
          <6> DEFINE b == back[x]
          <6>3. b \in Nat /\ b < x  BY <3>2, <5>1, <5>3
          <6> HIDE DEF b
          <6>4. b \in 0 .. n  BY <3>2, <5>1, <6>3
          <6>1. back[x] \in 0 .. n  BY <6>4 DEF b
          <6>2. h[back[x]] = g[back[x]]  BY <3>2, <6>1
          <6> QED  BY <5>1, <5>3, <6>2
        <5> QED  BY <5>2, <5>3
      <4> QED  BY <4>1, <4>2
    <3>6. Upto(h, n + 1)  BY <3>4, <3>5
    <3>7. n + 1 \in Nat  BY <3>2
    <3> HIDE DEF Upto, h
    <3> QED  BY <3>6, <3>7
  <2> HIDE DEF T
  <2>3. T = Nat
    <3>1. T \in SUBSET Nat  BY DEF T
    <3> QED  BY <2>1, <2>2, <3>1, Induction
  <2> QED  BY <2>3 DEF T
<1> DEFINE some(n) == CHOOSE g : Upto(g, n)
           f == [x \in Nat |-> some(x)[x]]
<1>3. \A n \in Nat : Upto(some(n), n)  BY <1>2
<1> HIDE DEF some
<1>4. \A x \in Nat : some(x)[x] \in V  BY <1>3
<1>5. f \in [Nat -> V]  BY <1>4
<1>6. ASSUME NEW x \in Nat PROVE f[x] = Value(f, x)
  <2>1. Upto(some(x), x)  BY <1>3
  <2>2. f[x] = Value(some(x), x)  BY <2>1
  <2>3. CASE x = 0  BY <2>2, <2>3
  <2>4. CASE x # 0
    <3>1. back[x] \in Nat /\ back[x] <= x  BY <2>4
    <3>2. Upto(some(back[x]), back[x])  BY <1>3, <3>1
    <3>3. some(x)[back[x]] = some(back[x])[back[x]]
      <4> HIDE DEF Upto
      <4> QED  BY <1>1, <2>1, <3>1, <3>2
    <3> QED  BY <2>2, <2>4, <3>1, <3>3
  <2> QED  BY <2>3, <2>4
<1> QED  BY <1>5, <1>6 DEF Follows

\* Digits is defined by its recursion.
LEMMA DigitsEquation ==
  ASSUME NEW x \in Nat
  PROVE  Digits[x] = IF x = 0 THEN <<>> ELSE Append(Digits[x \div Radix], x % Radix)
<1> DEFINE V == Seq(Nat)
           none == <<>>
           step == [y \in Nat |-> [s \in V |-> Append(s, y % Radix)]]
           back == [y \in Nat |-> y \div Radix]
<1>1. step \in [Nat -> [V -> V]] /\ back \in [Nat -> Nat]  BY Quotient, BasesAssumption
<1>2. \A y \in Nat \ {0} : back[y] < y  BY Smaller
<1>3. none \in V  OBVIOUS
<1>4. PICK f \in [Nat -> V] : Follows(f, none, step, back)
  <2>1. Descends(back)  BY <1>1, <1>2 DEF Descends
  <2> HIDE DEF V, step, back, none
  <2> QED  BY <1>1, <1>3, <2>1, Recursion
<1>5. \A y \in Nat : f[y] = IF y = 0 THEN <<>> ELSE Append(f[y \div Radix], y % Radix)
  BY <1>4, Quotient DEF Follows
<1>6. f = [y \in Nat |-> IF y = 0 THEN <<>> ELSE Append(f[y \div Radix], y % Radix)]  BY <1>5
<1>7. Digits = [y \in Nat |-> IF y = 0 THEN <<>> ELSE Append(Digits[y \div Radix], y % Radix)]
  BY <1>6 DEF Digits
<1> QED  BY <1>7

\* The digits of a number do not begin with a zero.
LEMMA DigitsAre ==
  ASSUME NEW x \in Nat
  PROVE  Digits[x] \in Seq(Nat) /\ (x # 0 => Digits[x] # <<>> /\ Digits[x][1] # 0)
<1> DEFINE Good(d, y) == d \in Seq(Nat) /\ (y # 0 => d # <<>> /\ d[1] # 0)
           T == {y \in Nat : ~ Good(Digits[y], y)}
<1> SUFFICES ASSUME T # {} PROVE FALSE  OBVIOUS
<1>1. PICK y \in T : \A k \in T : y <= k
  <2>1. T \in SUBSET Nat  OBVIOUS
  <2> HIDE DEF T
  <2> QED  BY <2>1, Least
<1>2. y \in Nat /\ ~ Good(Digits[y], y)  OBVIOUS
<1>3. CASE y = 0
  <2>1. Digits[y] = <<>>  BY <1>2, <1>3, DigitsEquation
  <2>2. Good(<<>>, y)  BY <1>3
  <2> QED  BY <1>2, <2>1, <2>2
<1>4. CASE y # 0
  <2> DEFINE q == y \div Radix
             r == y % Radix
             d == Digits[q]
  <2>1. q \in Nat /\ r \in Nat /\ y = Radix * q + r /\ q < y
    <3> HIDE DEF T
    <3>1. q < y  BY <1>2, <1>4, Smaller
    <3>2. q \in Nat /\ r \in 0 .. Radix - 1 /\ y = Radix * q + r  BY <1>2, Quotient
    <3> QED  BY <3>1, <3>2, BasesAssumption
  <2>2. Digits[y] = Append(d, r)  BY <1>2, <1>4, DigitsEquation
  <2>3. ~ (q \in T)  BY <1>1, <1>2, <2>1
  <2>4. Good(d, q)  BY <2>1, <2>3
  <2> HIDE DEF q, r, d
  <2>5. CASE q = 0
    <3>1. d = <<>>  BY <2>5, DigitsEquation DEF d
    <3>2. r # 0  BY <1>4, <2>1, <2>5, BasesAssumption
    <3>3. Good(<<r>>, y)  BY <2>1, <3>2
    <3> QED  BY <1>2, <2>2, <3>1, <3>3
  <2>6. CASE q # 0
    <3>1. d \in Seq(Nat) /\ d # <<>> /\ d[1] # 0  BY <2>4, <2>6
    <3>2. Len(d) \in Nat \ {0}  BY <3>1
    <3>3. Append(d, r) \in Seq(Nat) /\ Append(d, r)[1] = d[1] /\ Append(d, r) # <<>>
      BY <2>1, <3>1, <3>2
    <3> QED  BY <1>2, <2>2, <3>1, <3>3
  <2> QED  BY <2>5, <2>6
<1> QED  BY <1>3, <1>4

\* Two numbers do not have the same digits.
LEMMA DigitsDiffer ==
  ASSUME NEW x \in Nat, NEW y \in Nat, Digits[x] = Digits[y]
  PROVE  x = y
<1> DEFINE T == {u \in Nat : \E v \in Nat : Digits[u] = Digits[v] /\ u # v}
<1> SUFFICES ASSUME T # {} PROVE FALSE  OBVIOUS
<1>1. PICK u \in T : \A k \in T : u <= k
  <2>1. T \in SUBSET Nat  OBVIOUS
  <2> HIDE DEF T
  <2> QED  BY <2>1, Least
<1>2. u \in Nat  OBVIOUS
<1>3. PICK v \in Nat : Digits[u] = Digits[v] /\ u # v  OBVIOUS
<1>4. u # 0 /\ v # 0  BY <1>2, <1>3, DigitsEquation, DigitsAre
<1> DEFINE a == Digits[u \div Radix]
           b == Digits[v \div Radix]
<1>5. u \div Radix \in Nat /\ v \div Radix \in Nat  BY <1>2, Quotient
<1>6. a \in Seq(Nat) /\ b \in Seq(Nat)  BY <1>5, DigitsAre
<1>7. Append(a, u % Radix) = Append(b, v % Radix)  BY <1>2, <1>3, <1>4, DigitsEquation
<1>8. a = b /\ u % Radix = v % Radix
  <2> DEFINE c == u % Radix
             d == v % Radix
  <2>1. c \in Nat /\ d \in Nat  BY <1>2, Quotient, BasesAssumption
  <2>2. Append(a, c) = Append(b, d)  BY <1>7
  <2> HIDE DEF a, b, c, d
  <2>3. a = b /\ c = d  BY <1>6, <2>1, <2>2, AppendInjective
  <2> QED  BY <2>3 DEF c, d
<1> HIDE DEF a, b
<1>9. u \div Radix \notin T
  <2>1. u \div Radix < u  BY <1>2, <1>4, Smaller
  <2> QED  BY <1>1, <1>2, <1>5, <2>1
<1>10. u \div Radix = v \div Radix  BY <1>5, <1>8, <1>9 DEF a, b
<1> QED  BY <1>2, <1>3, <1>8, <1>10, Quotient

\* n has the numbers of the beginnings of s.
IsNumber(n, s) ==
  /\ n \in [0 .. Len(s) -> Nat]
  /\ \A i \in 0 .. Len(s) : n[i] = IF i = 0 THEN 0 ELSE n[i - 1] * Base + s[i]

\* One more byte.
LEMMA PlacesAdd ==
  ASSUME NEW x \in Nat, NEW b \in Nat
  PROVE  x * Base + b \in Nat
<1>1. Base \in Nat  BY BasesAssumption
<1>2. x * Base \in Nat  BY <1>1
<1> QED  BY <1>2

\* A sequence is the function of its places.
LEMMA AsFunction ==
  ASSUME NEW S, NEW s \in Seq(S)
  PROVE  \E n \in Nat : n = Len(s) /\ s \in [1 .. n -> S]
  OBVIOUS

\* Number is defined by its recursion.
LEMMA NumberIs ==
  ASSUME NEW s \in Seq(0 .. Base - 1)
  PROVE  \E n : IsNumber(n, s) /\ Number(s) = n[Len(s)]
<1>1. PICK L \in Nat : L = Len(s) /\ s \in [1 .. L -> Nat]
  <2>1. s \in Seq(Nat)  BY BasesAssumption
  <2> QED  BY <2>1, AsFunction
<1> DEFINE zero == 0
           at(i) == IF i \in 1 .. L THEN s[i] ELSE 0
           step == [i \in Nat |-> [x \in Nat |-> x * Base + at(i)]]
           back == [i \in Nat |-> IF i = 0 THEN 0 ELSE i - 1]
           Eq(n) == n = [i \in 0 .. L |-> IF i = 0 THEN 0 ELSE n[i - 1] * Base + s[i]]
<1>2. step \in [Nat -> [Nat -> Nat]]
  <2>1. \A i \in Nat : at(i) \in Nat  BY <1>1
  <2> HIDE DEF at
  <2>2. \A x, i \in Nat : x * Base + at(i) \in Nat  BY <2>1, PlacesAdd
  <2> QED  BY <2>2
<1>3. Descends(back)
  <2>1. \A i \in Nat : back[i] \in Nat /\ (i # 0 => back[i] < i)  OBVIOUS
  <2> QED  BY <2>1 DEF Descends
<1>4. PICK f \in [Nat -> Nat] : Follows(f, zero, step, back)
  <2>1. zero \in Nat  OBVIOUS
  <2> HIDE DEF zero, step, back
  <2> QED  BY <1>2, <1>3, <2>1, Recursion
<1>5. ASSUME NEW i \in 1 .. L PROVE f[i] = f[i - 1] * Base + s[i]
  <2>1. i \in Nat /\ i # 0 /\ back[i] = i - 1 /\ at(i) = s[i] /\ i - 1 \in Nat  BY <1>1
  <2>2. f[i] = step[i][f[back[i]]]  BY <1>4, <2>1 DEF Follows
  <2> QED  BY <2>1, <2>2
<1>6. f[0] = 0  BY <1>4 DEF Follows
<1> DEFINE g == [i \in 0 .. L |-> f[i]]
<1>7. Eq(g)
  <2>1. \A i \in 0 .. L : g[i] = IF i = 0 THEN 0 ELSE g[i - 1] * Base + s[i]
    <3> SUFFICES ASSUME NEW i \in 0 .. L, i # 0 PROVE g[i] = g[i - 1] * Base + s[i]  BY <1>1, <1>6
    <3>1. i \in 1 .. L /\ i - 1 \in 0 .. L  BY <1>1
    <3> QED  BY <1>5, <3>1
  <2> QED  BY <2>1
<1> DEFINE n == CHOOSE m : Eq(m)
<1>8. Eq(n)  BY <1>7
<1>9. Number(s) = n[L]  BY <1>1 DEF Number
<1> HIDE DEF n
<1>10. \A i \in 0 .. L : n[i] = IF i = 0 THEN 0 ELSE n[i - 1] * Base + s[i]  BY <1>8
<1> DEFINE T == {i \in Nat : i <= L => n[i] \in Nat}
<1>11. T = Nat
  <2>1. 0 \in T  BY <1>10
  <2>2. ASSUME NEW i \in T PROVE i + 1 \in T
    <3> SUFFICES ASSUME i + 1 <= L PROVE n[i + 1] \in Nat  OBVIOUS
    <3>1. i \in Nat /\ n[i] \in Nat /\ i + 1 \in 1 .. L /\ i + 1 \in 0 .. L /\ i + 1 # 0 /\ (i + 1) - 1 = i
      OBVIOUS
    <3>2. n[i + 1] = n[i] * Base + s[i + 1]  BY <1>10, <3>1
    <3>3. s[i + 1] \in Nat  BY <1>1, <3>1
    <3> QED  BY <3>1, <3>2, <3>3, PlacesAdd
  <2>3. T \in SUBSET Nat  OBVIOUS
  <2> HIDE DEF T
  <2> QED  BY <2>1, <2>2, <2>3, Induction
<1>12. IsNumber(n, s)
  <2>1. DOMAIN n = 0 .. L /\ n = [i \in DOMAIN n |-> n[i]]  BY <1>8
  <2>2. \A i \in 0 .. L : n[i] \in Nat  BY <1>11
  <2>3. n \in [0 .. L -> Nat]  BY <2>1, <2>2
  <2> QED  BY <1>1, <1>10, <2>3 DEF IsNumber
<1> QED  BY <1>1, <1>9, <1>12

\* Two sequences of one length do not have the same number: from the last place
\* to the first, they have the same places.
LEMMA NumbersDiffer ==
  ASSUME NEW s \in Seq(0 .. Base - 1), NEW t \in Seq(0 .. Base - 1), Len(s) = Len(t),
         Number(s) = Number(t)
  PROVE  s = t
<1>1. PICK L \in Nat : /\ L = Len(s) /\ s \in [1 .. L -> 0 .. Base - 1]
                       /\ L = Len(t) /\ t \in [1 .. L -> 0 .. Base - 1]
  BY AsFunction
<1>2. PICK m : IsNumber(m, s) /\ Number(s) = m[L]  BY <1>1, NumberIs
<1>3. PICK n : IsNumber(n, t) /\ Number(t) = n[L]  BY <1>1, NumberIs
<1>4. ASSUME NEW i \in 1 .. L, m[i] = n[i]
      PROVE  m[i - 1] = n[i - 1] /\ s[i] = t[i]
  <2>1. /\ i - 1 \in 0 .. L /\ i \in 0 .. L /\ i # 0
        /\ s[i] \in 0 .. Base - 1 /\ t[i] \in 0 .. Base - 1
    BY <1>1
  <2>2. m[i - 1] \in Nat /\ n[i - 1] \in Nat  BY <1>1, <1>2, <1>3, <2>1 DEF IsNumber
  <2>3. m[i] = m[i - 1] * Base + s[i] /\ n[i] = n[i - 1] * Base + t[i]
    BY <1>1, <1>2, <1>3, <2>1 DEF IsNumber
  <2>4. m[i - 1] * Base + s[i] = n[i - 1] * Base + t[i]  BY <1>4, <2>3
  <2> DEFINE a == m[i - 1]
             b == n[i - 1]
  <2> HIDE DEF a, b
  <2>5. a = b /\ s[i] = t[i]
    <3>1. Base \in Nat /\ a \in Nat /\ b \in Nat /\ a * Base + s[i] = b * Base + t[i]
      BY <2>2, <2>4, BasesAssumption DEF a, b
    <3> QED  BY <2>1, <3>1, Place
  <2> QED  BY <2>5 DEF a, b
<1> DEFINE T == {k \in Nat : k <= L => m[L - k] = n[L - k]}
<1>5. T = Nat
  <2>1. 0 \in T
    <3>1. L - 0 = L  OBVIOUS
    <3>2. m[L] = n[L]  BY <1>2, <1>3
    <3> QED  BY <3>1, <3>2
  <2>2. ASSUME NEW k \in T PROVE k + 1 \in T
    <3> SUFFICES ASSUME k + 1 <= L PROVE m[L - (k + 1)] = n[L - (k + 1)]  OBVIOUS
    <3>1. k \in Nat /\ L - k \in 1 .. L /\ m[L - k] = n[L - k] /\ L - (k + 1) = L - k - 1  BY <1>1
    <3> QED  BY <1>4, <3>1
  <2>3. T \in SUBSET Nat  OBVIOUS
  <2> HIDE DEF T
  <2> QED  BY <2>1, <2>2, <2>3, Induction
<1>6. ASSUME NEW i \in 1 .. L PROVE s[i] = t[i]
  <2> DEFINE k == L - i
  <2>1. k \in Nat /\ k <= L /\ L - k = i  BY <1>1
  <2>2. m[i] = n[i]
    <3> HIDE DEF k
    <3> QED  BY <1>5, <2>1
  <2> QED  BY <1>4, <2>2
<1>7. s = [i \in 1 .. L |-> s[i]] /\ t = [i \in 1 .. L |-> t[i]]  BY <1>1
<1> QED  BY <1>6, <1>7

\* Two sequences of one length do not have the same encoding: where the digits
\* begin is where the zeros end.
LEMMA EncodingsDiffer ==
  ASSUME NEW s \in Seq(0 .. Base - 1), NEW t \in Seq(0 .. Base - 1), Len(s) = Len(t),
         Encode(s) = Encode(t)
  PROVE  s = t
<1>1. ASSUME NEW u \in Seq(0 .. Base - 1)
      PROVE  u \in Seq(Nat) /\ Number(u) \in Nat
  <2>1. u \in Seq(Nat)  BY <1>1, BasesAssumption
  <2>2. PICK n : IsNumber(n, u) /\ Number(u) = n[Len(u)]  BY NumberIs
  <2> QED  BY <2>1, <2>2 DEF IsNumber
<1>2. PICK y \in Nat : Zeros(s) = [i \in 1 .. y |-> 0]  BY <1>1, ZerosAre
<1>3. PICK z \in Nat : Zeros(t) = [i \in 1 .. z |-> 0]  BY <1>1, ZerosAre
<1> DEFINE d == Digits[Number(s)]
           e == Digits[Number(t)]
           Leads(w) == w \in Seq(Nat) /\ (w # <<>> => w[1] # 0)
<1>4. Leads(d) /\ Leads(e)
  <2>1. ASSUME NEW x \in Nat PROVE Leads(Digits[x])  BY DigitsAre, DigitsEquation
  <2> HIDE DEF Leads
  <2> QED  BY <1>1, <2>1
<1>5. [i \in 1 .. y |-> 0] \o d = [i \in 1 .. z |-> 0] \o e  BY <1>2, <1>3 DEF Encode
<1> HIDE DEF d, e
<1>6. ASSUME NEW a \in Nat, NEW b \in Nat, NEW v, NEW w, Leads(v), Leads(w),
             [i \in 1 .. a |-> 0] \o v = [i \in 1 .. b |-> 0] \o w
      PROVE  ~ (a < b)
  <2> SUFFICES ASSUME a < b PROVE FALSE  OBVIOUS
  <2> DEFINE o == [i \in 1 .. a |-> 0]
             p == [i \in 1 .. b |-> 0]
  <2>1. o \in Seq(Nat) /\ Len(o) = a /\ p \in Seq(Nat) /\ Len(p) = b  OBVIOUS
  <2>2. p[a + 1] = 0  OBVIOUS
  <2> HIDE DEF o, p
  <2>3. v \in Seq(Nat) /\ w \in Seq(Nat) /\ Len(v) \in Nat /\ Len(w) \in Nat  BY <1>6
  <2>4. Len(o \o v) = a + Len(v) /\ Len(p \o w) = b + Len(w)
    <3>1. Len(o \o v) = Len(o) + Len(v) /\ Len(p \o w) = Len(p) + Len(w)
      BY <2>1, <2>3, ConcatProperties
    <3> QED  BY <2>1, <3>1
  <2>5. o \o v = p \o w  BY <1>6 DEF o, p
  <2>6. Len(v) > 0  BY <2>3, <2>4, <2>5
  <2>7. (o \o v)[a + 1] = v[1]  BY <2>1, <2>3, <2>6
  <2>8. (p \o w)[a + 1] = p[a + 1]  BY <2>1, <2>3
  <2>9. v # <<>>  BY <2>6
  <2> QED  BY <1>6, <2>2, <2>5, <2>7, <2>8, <2>9
<1>7. y = z
  <2> HIDE DEF Leads
  <2>1. ~ (y < z) /\ ~ (z < y)  BY <1>4, <1>5, <1>6
  <2> QED  BY <2>1
<1>8. d = e
  <2> DEFINE o == [i \in 1 .. y |-> 0]
  <2>1. o \in Seq(Nat) /\ o \o d = o \o e  BY <1>5, <1>7
  <2> HIDE DEF o
  <2>2. d \in Seq(Nat) /\ e \in Seq(Nat)  BY <1>4
  <2> QED  BY <2>1, <2>2, ConcatSimplifications
<1>9. Number(s) = Number(t)  BY <1>1, <1>8, DigitsDiffer DEF d, e
<1> QED  BY <1>9, NumbersDiffer

------------------------------------------------------------------------------
(* The registry.                                                           *)

\* Two keys do not have the same DID: FromX25519 loses nothing of a key, its
\* leading zero bytes included.
THEOREM OneKeyPerDID ==
  ASSUME NEW k \in Keys, NEW l \in Keys, FromX25519(k) = FromX25519(l)
  PROVE  k = l
<1> DEFINE S == 0 .. Base - 1
<1>1. /\ Tag \in Seq(S) /\ k \in Seq(S) /\ l \in Seq(S)
      /\ Len(k) = KeyLen /\ Len(l) = KeyLen
  <2>1. KeyLen \in Nat /\ k \in [1 .. KeyLen -> S] /\ l \in [1 .. KeyLen -> S] /\ Tag \in Seq(S)
    BY KeysAssumption
  <2> HIDE DEF S
  <2> QED  BY <2>1
<1>2. Tag \o k \in Seq(S) /\ Tag \o l \in Seq(S) /\ Len(Tag \o k) = Len(Tag \o l)
  <2> HIDE DEF S
  <2>1. Len(Tag \o k) = Len(Tag) + KeyLen /\ Len(Tag \o l) = Len(Tag) + KeyLen
    BY <1>1, ConcatProperties
  <2> QED  BY <1>1, <2>1, ConcatProperties
<1>3. Tag \o k = Tag \o l  BY <1>2, EncodingsDiffer DEF FromX25519
<1> HIDE DEF S
<1> QED  BY <1>1, <1>3, ConcatSimplifications

\* A key has the right length, and only all of it does.
LEMMA KeyLength ==
  ASSUME NEW k \in Keys
  PROVE  /\ Len(k) = KeyLen
         /\ \A n \in 0 .. KeyLen : /\ Encodable(SubSeq(k, 1, n)) <=> n = KeyLen
                                   /\ n = KeyLen => SubSeq(k, 1, n) = k
         /\ ~ Encodable(SubSeq(k, 1, KeyLen - 1))
<1> DEFINE S == 0 .. Base - 1
<1>1. KeyLen \in Nat \ {0} /\ k \in [1 .. KeyLen -> S]  BY KeysAssumption
<1> HIDE DEF S
<1>2. k \in Seq(S) /\ Len(k) = KeyLen  BY <1>1
<1>3. ASSUME NEW n \in 0 .. KeyLen PROVE Len(SubSeq(k, 1, n)) = n
  <2>1. SubSeq(k, 1, n) = [i \in 1 .. n |-> k[i]]  BY <1>1, <1>2
  <2> QED  BY <1>1, <2>1
<1>4. SubSeq(k, 1, KeyLen) = k
  <2>1. SubSeq(k, 1, KeyLen) = [i \in 1 .. KeyLen |-> k[i]]  BY <1>1, <1>2
  <2> QED  BY <1>1, <2>1
<1>5. ~ Encodable(SubSeq(k, 1, KeyLen - 1))
  <2>1. KeyLen - 1 \in 0 .. KeyLen /\ KeyLen - 1 # KeyLen  BY <1>1
  <2> QED  BY <1>3, <2>1 DEF Encodable
<1> QED  BY <1>2, <1>3, <1>4, <1>5 DEF Encodable

\* What was printed was made of a key, and what was registered was printed;
\* the registry says of each key what was last said of it; and short of a race
\* the file holds, whole, the key of whatever was printed.
Printed == printed \subseteq {NewDocument(k) : k \in Keys}
Standing ==
  /\ standing \in [Keys -> {"none", "registered", "revoked"}]
  /\ \A k \in Keys : standing[k] = "registered" <=>
       NewDocument(k) \in docs /\ FromX25519(k) \notin revoked
OfTheFile == \A doc \in printed : file.part = "whole" /\ file.key = doc.key

DeviceInv ==
  /\ IInv
  /\ Printed /\ docs \subseteq printed /\ Standing
  /\ ~raced => OfTheFile

LEMMA DeviceInitInv == DeviceInit => DeviceInv
<1> SUFFICES ASSUME DeviceInit PROVE DeviceInv  OBVIOUS
<1>1. IInv  BY InitInv DEF DeviceInit
<1>2. Standing  BY DEF DeviceInit, Standing
<1> QED  BY <1>1, <1>2 DEF DeviceInit, DeviceInv, Printed, OfTheFile

\* The processes and their file.
LEMMA FileStepInv ==
  ASSUME DeviceInv, Next \/ UNCHANGED idvars, UNCHANGED <<printed, anchor>>
  PROVE  DeviceInv'
<1>1. IInv'  BY Inductive DEF DeviceInv
<1>2. (Printed /\ docs \subseteq printed /\ Standing)'
  BY DEF DeviceInv, Printed, Standing, anchor
<1>3. ASSUME ~raced' PROVE OfTheFile'
  <2>1. ~raced
    BY <1>3 DEF Next, Step, Load, Generate, Truncate, Write, WriteShort, Stop, idvars
  <2>2. CASE printed = {}  BY <2>2 DEF OfTheFile
  <2>3. CASE printed # {}
    <3>1. OfTheFile /\ Parses  BY <2>1, <2>3 DEF DeviceInv, OfTheFile, Parses
    <3>2. file' = file  BY <1>3, <3>1, StepKeepsFile DEF DeviceInv, KeepsFile, idvars
    <3> QED  BY <3>1, <3>2 DEF OfTheFile
  <2> QED  BY <2>2, <2>3
<1> QED  BY <1>1, <1>2, <1>3 DEF DeviceInv

LEMMA PrintInv ==
  ASSUME DeviceInv, NEW p \in Procs, PrintDID(p)
  PROVE  DeviceInv'
<1> DEFINE k == proc[p].id.key
<1>1. proc[p].id \in Parsed  BY ProcCases DEF PrintDID, DeviceInv, IInv
<1>2. k \in Keys /\ proc[p].id.part = "whole" /\ Public(proc[p].id) = k
  BY <1>1, KeyLength DEF PrintDID, Parsed, Public
<1>3. printed' = printed \cup {NewDocument(k)} /\ UNCHANGED <<file, proc, used, raced, docs, revoked, standing>>
  BY <1>2 DEF PrintDID, idvars, anchor
<1>4. IInv'  BY <1>3, Inductive DEF DeviceInv, idvars
<1>5. (Printed /\ docs \subseteq printed /\ Standing)'
  BY <1>2, <1>3 DEF DeviceInv, Printed, Standing
<1>6. ASSUME ~raced' PROVE OfTheFile'
  <2>1. proc[p].id = file /\ OfTheFile  BY <1>3, <1>6 DEF DeviceInv, IInv, TheFiles, PrintDID
  <2> QED  BY <1>2, <1>3, <2>1 DEF OfTheFile, NewDocument
<1> QED  BY <1>4, <1>5, <1>6 DEF DeviceInv

LEMMA RegisterInv ==
  ASSUME DeviceInv, NEW doc \in printed, Register(doc)
  PROVE  DeviceInv'
<1>1. PICK k \in Keys : doc = NewDocument(k)  BY DEF DeviceInv, Printed
<1>2. doc.id = FromX25519(k) /\ doc.key = k  BY <1>1 DEF NewDocument
<1>3. UNCHANGED <<file, proc, used, raced, printed>>  BY DEF Register, idvars
<1>4. IInv'  BY <1>3, Inductive DEF DeviceInv, idvars
<1>5. Printed' /\ docs' \subseteq printed'  BY <1>3 DEF DeviceInv, Printed, Register
<1>6. Standing'
  <2>1. standing' = [standing EXCEPT ![k] = "registered"]  BY <1>2 DEF Register
  <2>2. ASSUME NEW l \in Keys
        PROVE  (standing[l] = "registered" <=> NewDocument(l) \in docs /\ FromX25519(l) \notin revoked)'
    <3>1. CASE l = k
      <4>1. standing'[l] = "registered"  BY <2>1, <3>1 DEF DeviceInv, Standing
      <4>2. NewDocument(l) \in docs' /\ FromX25519(l) \notin revoked'
        BY <1>1, <1>2, <3>1 DEF Register
      <4> QED  BY <4>1, <4>2
    <3>2. CASE l # k
      <4>1. standing'[l] = standing[l]  BY <2>1, <3>2 DEF DeviceInv, Standing
      <4>2. FromX25519(l) # doc.id  BY <1>2, <3>2, OneKeyPerDID
      <4>3. NewDocument(l) \in docs' <=> NewDocument(l) \in docs
        BY <1>2, <4>2 DEF Register, NewDocument
      <4>4. FromX25519(l) \in revoked' <=> FromX25519(l) \in revoked  BY <4>2 DEF Register
      <4> QED  BY <4>1, <4>3, <4>4 DEF DeviceInv, Standing
    <3> QED  BY <3>1, <3>2
  <2>3. standing' \in [Keys -> {"none", "registered", "revoked"}]
    BY <2>1 DEF DeviceInv, Standing
  <2> QED  BY <2>2, <2>3 DEF Standing
<1>7. ~raced' => OfTheFile'  BY <1>3 DEF DeviceInv, OfTheFile
<1> QED  BY <1>4, <1>5, <1>6, <1>7 DEF DeviceInv

LEMMA RevokeInv ==
  ASSUME DeviceInv, NEW doc \in printed, Revoke(doc)
  PROVE  DeviceInv'
<1>1. PICK k \in Keys : doc = NewDocument(k)  BY DEF DeviceInv, Printed
<1>2. doc.id = FromX25519(k) /\ doc.key = k  BY <1>1 DEF NewDocument
<1>3. UNCHANGED <<file, proc, used, raced, printed, docs>>  BY DEF Revoke, idvars
<1>4. IInv'  BY <1>3, Inductive DEF DeviceInv, idvars
<1>5. Printed' /\ docs' \subseteq printed'  BY <1>3 DEF DeviceInv, Printed
<1>6. Standing'
  <2>1. standing' = [standing EXCEPT ![k] = "revoked"]  BY <1>2 DEF Revoke
  <2>2. revoked' = revoked \cup {FromX25519(k)}  BY <1>2 DEF Revoke
  <2>3. ASSUME NEW l \in Keys
        PROVE  (standing[l] = "registered" <=> NewDocument(l) \in docs /\ FromX25519(l) \notin revoked)'
    <3>1. CASE l = k
      BY <2>1, <2>2, <3>1 DEF DeviceInv, Standing
    <3>2. CASE l # k
      <4>1. standing'[l] = standing[l]  BY <2>1, <3>2 DEF DeviceInv, Standing
      <4>2. FromX25519(l) # FromX25519(k)  BY <3>2, OneKeyPerDID
      <4> QED  BY <1>3, <2>2, <4>1, <4>2 DEF DeviceInv, Standing
    <3> QED  BY <3>1, <3>2
  <2>4. standing' \in [Keys -> {"none", "registered", "revoked"}]
    BY <2>1 DEF DeviceInv, Standing
  <2> QED  BY <2>3, <2>4 DEF Standing
<1>7. ~raced' => OfTheFile'  BY <1>3 DEF DeviceInv, OfTheFile
<1> QED  BY <1>4, <1>5, <1>6, <1>7 DEF DeviceInv

LEMMA DeviceInductive == DeviceInv /\ [DeviceNext]_vars => DeviceInv'
<1>1. ASSUME DeviceInv, UNCHANGED vars PROVE DeviceInv'
  BY <1>1, FileStepInv DEF vars
<1> QED
  BY <1>1, FileStepInv, PrintInv, RegisterInv, RevokeInv DEF DeviceNext

LEMMA DeviceInvariant == DeviceSpec => []DeviceInv
  BY DeviceInitInv, DeviceInductive, PTL DEF DeviceSpec

\* What the verifier says of a device's document, and of what its processes
\* hold, follows from the invariant.
LEMMA InvAuthorized == DeviceInv => AuthorizedIsDevice
<1> SUFFICES ASSUME DeviceInv, NEW doc \in printed
             PROVE  /\ \A k \in Keys, n \in 0 .. KeyLen :
                         Authorized(doc.id, SubSeq(k, 1, n)) <=>
                           n = KeyLen /\ k = doc.key /\ standing[k] = "registered"
                    /\ ~raced /\ standing[doc.key] = "registered" =>
                         \A p \in Procs : proc[p].pc = "running" => Authorized(doc.id, Public(proc[p].id))
  BY DEF AuthorizedIsDevice
<1>1. PICK l \in Keys : doc = NewDocument(l)  BY DEF DeviceInv, Printed
<1>2. doc.id = FromX25519(l) /\ doc.key = l  BY <1>1 DEF NewDocument
<1>3. Registered(doc.id) <=> doc \in docs
  <2>1. ASSUME NEW d \in docs, d.id = doc.id PROVE d = doc
    <3>1. PICK k \in Keys : d = NewDocument(k)  BY DEF DeviceInv, Printed
    <3>2. FromX25519(k) = FromX25519(l)  BY <1>2, <2>1, <3>1 DEF NewDocument
    <3> QED  BY <1>1, <3>1, <3>2, OneKeyPerDID
  <2> QED  BY <2>1 DEF Registered
<1>4. ASSUME NEW k \in Keys
      PROVE  Authorized(doc.id, k) <=> k = doc.key /\ standing[k] = "registered"
  <2>1. Matches(doc.id, k) <=> k = l
    BY <1>2, KeyLength, OneKeyPerDID DEF Matches, Encodable
  <2>2. standing[l] = "registered" <=> doc \in docs /\ doc.id \notin revoked
    BY <1>1, <1>2 DEF DeviceInv, Standing
  <2> QED  BY <1>2, <1>3, <2>1, <2>2 DEF Authorized
<1>5. ASSUME NEW k \in Keys, NEW n \in 0 .. KeyLen
      PROVE  Authorized(doc.id, SubSeq(k, 1, n)) <=>
               n = KeyLen /\ k = doc.key /\ standing[k] = "registered"
  <2>1. CASE n = KeyLen
    <3>1. SubSeq(k, 1, n) = k  BY <2>1, KeyLength
    <3> QED  BY <1>4, <2>1, <3>1
  <2>2. CASE n # KeyLen
    <3>1. ~ Encodable(SubSeq(k, 1, n))  BY <2>2, KeyLength
    <3> QED  BY <2>2, <3>1 DEF Authorized, Matches
  <2> QED  BY <2>1, <2>2
<1>6. ASSUME ~raced, standing[doc.key] = "registered", NEW p \in Procs, proc[p].pc = "running"
      PROVE  Authorized(doc.id, Public(proc[p].id))
  <2>1. proc[p].id = file /\ file.part = "whole" /\ file.key = doc.key
    BY <1>6 DEF DeviceInv, IInv, TheFiles, OfTheFile
  <2>2. Public(proc[p].id) = l  BY <1>2, <2>1 DEF Public
  <2> QED  BY <1>2, <1>4, <1>6, <2>2
<1> QED  BY <1>5, <1>6

\* A verifier accepts every process of a registered device and nothing else,
\* for any bytes, radix, tag, length and set of keys, and however the device's
\* processes end.
THEOREM DevicesAreAuthorized == DeviceSpec => []AuthorizedIsDevice
  BY DeviceInvariant, InvAuthorized, PTL

\* However often netso did is run, a device prints one document, short of a race.
THEOREM OneDID == DeviceSpec => [](~raced => \A d, e \in printed : d = e)
<1>1. ASSUME DeviceInv, ~raced, NEW d \in printed, NEW e \in printed PROVE d = e
  <2>1. d.key = e.key  BY <1>1 DEF DeviceInv, OfTheFile
  <2>2. PICK k \in Keys : d = NewDocument(k)  BY <1>1 DEF DeviceInv, Printed
  <2>3. PICK l \in Keys : e = NewDocument(l)  BY <1>1 DEF DeviceInv, Printed
  <2> QED  BY <2>1, <2>2, <2>3 DEF NewDocument
<1>2. DeviceInv => (~raced => \A d, e \in printed : d = e)  BY <1>1
<1> QED  BY <1>2, DeviceInvariant, PTL

\* The device's file and processes keep to their types.
THEOREM DeviceTypes == DeviceSpec => []TypeOK
  BY DeviceImplementsIdentity, TypeCorrect, PTL
==============================================================================
