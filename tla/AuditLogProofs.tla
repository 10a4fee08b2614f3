--------------------------- MODULE AuditLogProofs ----------------------------
(***************************************************************************)
(* The audit log's bound, its live count and the finality of its records,  *)
(* for any finite set of sessions, any bound on the history and any clock. *)
(***************************************************************************)
EXTENDS AuditLog, FiniteSetTheorems, SequenceTheorems, TLAPS

\* No session started after now, and none ended that was not started: what
\* makes the first End of a session happen at or after its start.
Timely ==
  \A s \in Sessions :
    /\ started[s] <= clock
    /\ ended[s] # 0 => started[s] # 0 /\ ended[s] >= started[s]

IInv == TypeOK /\ Timely /\ ActiveIsOpen

\* NewLog's bound is positive.
LEMMA CapIsPositive == Cap \in Nat /\ Cap >= 1
BY MaxEntriesAssumption DEF Cap

\* Recording a session keeps the history a sequence of sessions within Cap.
LEMMA RecordBounded ==
  ASSUME TypeOK, NEW s \in Sessions
  PROVE  Record(s) \in Seq(Sessions) /\ Len(Record(s)) <= Cap
<1> DEFINE e == Append(entries, s)
<1>1. e \in Seq(Sessions) /\ Len(e) = Len(entries) + 1 /\ Len(entries) \in Nat
  BY DEF TypeOK
<1>2. Len(entries) <= Cap
  BY DEF TypeOK
<1> HIDE DEF e
<1>3. CASE Len(e) > Cap
  <2>1. /\ Len(e) - Cap + 1 \in 1 .. Len(e) + 1
        /\ Len(e) \in Len(e) - Cap .. Len(e)
    BY <1>1, <1>3, CapIsPositive
  <2>2. /\ SubSeq(e, Len(e) - Cap + 1, Len(e)) \in Seq(Sessions)
        /\ Len(SubSeq(e, Len(e) - Cap + 1, Len(e))) = Cap
    BY <1>1, <2>1, CapIsPositive, SubSeqProperties
  <2> QED BY <1>3, <2>2, CapIsPositive DEF Record, e
<1>4. CASE ~(Len(e) > Cap)
  BY <1>1, <1>4, CapIsPositive DEF Record, e
<1> QED BY <1>3, <1>4

\* Only finitely many sessions are ever open.
LEMMA OpenIsFinite == IsFiniteSet(Open)
BY SessionsAssumption, FS_Subset DEF Open

\* The empty log satisfies the invariant.
LEMMA InitInv == Init => IInv
<1> SUFFICES ASSUME Init PROVE IInv
  OBVIOUS
<1>1. Open = {}
  BY DEF Init, Open, IsOpen
<1>2. TypeOK /\ Timely
  BY CapIsPositive DEF Init, TypeOK, Timely
<1>3. ActiveIsOpen
  BY <1>1, FS_EmptySet DEF Init, ActiveIsOpen
<1> QED BY <1>2, <1>3 DEF IInv

\* Start opens exactly one more session.
LEMMA StartInv ==
  ASSUME IInv, NEW s \in Sessions, Start(s), UNCHANGED clock
  PROVE  IInv'
<1> USE DEF Start
<1>1. TypeOK'
  BY RecordBounded DEF IInv, TypeOK
<1>2. Timely'
  BY DEF IInv, TypeOK, Timely
<1>3. Open' = Open \cup {s} /\ s \notin Open
  BY DEF IInv, TypeOK, Timely, Open, IsOpen
<1>4. Cardinality(Open') = Cardinality(Open) + 1
  BY <1>3, OpenIsFinite, FS_AddElement
<1>5. ActiveIsOpen'
  BY <1>4 DEF IInv, ActiveIsOpen
<1> QED BY <1>1, <1>2, <1>5 DEF IInv

\* The first End of a session closes exactly that one; another changes nothing.
LEMMA EndInv ==
  ASSUME IInv, NEW s \in Sessions, End(s), UNCHANGED clock
  PROVE  IInv'
<1>1. CASE EndsNow(s)
  <2>1. /\ ended' = [ended EXCEPT ![s] = clock]
        /\ active' = IF active > 0 THEN active - 1 ELSE active
        /\ UNCHANGED <<entries, started, clock>>
    BY <1>1 DEF End
  <2>2. Open' = Open \ {s} /\ s \in Open
    BY <1>1, <2>1 DEF IInv, TypeOK, Open, IsOpen, EndsNow
  <2>3. Cardinality(Open') = Cardinality(Open) - 1 /\ Cardinality(Open) \in Nat
    BY <2>2, OpenIsFinite, FS_RemoveElement, FS_CardinalityType
  <2>4. Cardinality(Open') \in Nat
    BY <2>2, OpenIsFinite, FS_Subset, FS_CardinalityType
  <2>5. active' = active - 1 /\ active' \in Nat
    BY <2>1, <2>3, <2>4 DEF IInv, ActiveIsOpen
  <2>6. TypeOK' /\ Timely'
    BY <1>1, <2>1, <2>5 DEF IInv, TypeOK, Timely, EndsNow, IsOpen
  <2>7. ActiveIsOpen'
    BY <2>3, <2>5 DEF IInv, ActiveIsOpen
  <2> QED BY <2>6, <2>7 DEF IInv
<1>2. CASE ~EndsNow(s)
  BY <1>2 DEF End, IInv, TypeOK, Timely, ActiveIsOpen, Open, IsOpen
<1> QED BY <1>1, <1>2

\* Every step of the log keeps the invariant.
LEMMA NextInv == IInv /\ [Next]_vars => IInv'
<1> SUFFICES ASSUME IInv, [Next]_vars PROVE IInv'
  OBVIOUS
<1>1. CASE \E s \in Sessions : (Start(s) \/ End(s)) /\ UNCHANGED clock
  BY <1>1, StartInv, EndInv
<1>2. CASE Tick
  BY <1>2 DEF Tick, log, IInv, TypeOK, Timely, ActiveIsOpen, Open, IsOpen
<1>3. CASE UNCHANGED vars
  BY <1>3 DEF vars, IInv, TypeOK, Timely, ActiveIsOpen, Open, IsOpen
<1> QED BY <1>1, <1>2, <1>3 DEF Next

\* The history never holds more than NewLog's bound, and is well typed.
THEOREM TypeCorrect == Spec => []TypeOK
<1>1. IInv => TypeOK
  BY DEF IInv
<1> QED BY <1>1, InitInv, NextInv, PTL DEF Spec

\* /status counts the sessions started and not ended, however many the bounded
\* history has dropped, and End's guard against a negative count never acts.
THEOREM ActiveCounts == Spec => []ActiveIsOpen
<1>1. IInv => ActiveIsOpen
  BY DEF IInv
<1> QED BY <1>1, InitInv, NextInv, PTL DEF Spec

\* A session's start is never changed, its end is set once, not before it.
THEOREM RecordsAreFinal == Spec => RecordIsFinal
<1> DEFINE Final == \A s \in Sessions :
                      /\ started[s] # 0 => started'[s] = started[s]
                      /\ ended[s] # 0 => ended'[s] = ended[s]
                      /\ ended'[s] # 0 => ended'[s] >= started'[s]
<1>1. IInv /\ [Next]_vars => [Final]_vars
  <2> SUFFICES ASSUME IInv, Next PROVE Final
    OBVIOUS
  <2>1. CASE Tick
    BY <2>1 DEF Tick, log, IInv, TypeOK, Timely
  <2>2. ASSUME NEW s \in Sessions, Start(s), UNCHANGED clock PROVE Final
    BY <2>2 DEF Start, IInv, TypeOK, Timely
  <2>3. ASSUME NEW s \in Sessions, End(s), UNCHANGED clock PROVE Final
    BY <2>3 DEF End, EndsNow, IsOpen, IInv, TypeOK, Timely
  <2> HIDE DEF Final
  <2> QED BY <2>1, <2>2, <2>3 DEF Next
<1> QED BY <1>1, InitInv, NextInv, PTL DEF Spec, RecordIsFinal

------------------------------------------------------------------------------
(* What the history holds.                                                 *)

Indices == 1 .. Len(entries)
Known == {s \in Sessions : started[s] # 0}

\* The entries are sessions that were started, each once, in that order; one
\* that is missing was dropped, for newer ones that fill the history.
Distinct == \A i, j \in Indices : i # j => entries[i] # entries[j]
Begun == \A i \in Indices : started[entries[i]] # 0
Sorted == \A i, j \in Indices : i < j => started[entries[i]] <= started[entries[j]]
Listed(s) == \E i \in Indices : entries[i] = s
Dropped(s) == Len(entries) = Cap /\ \A i \in Indices : started[s] <= started[entries[i]]
Complete == \A s \in Sessions : started[s] # 0 => Listed(s) \/ Dropped(s)
History == Distinct /\ Begun /\ Sorted /\ Complete

\* All but the first of a sequence.
LEMMA Shift ==
  ASSUME NEW S, NEW q \in Seq(S), NEW c \in Nat, Len(q) = c + 1
  PROVE  Len(SubSeq(q, 2, c + 1)) = c /\ \A i \in 1 .. c : SubSeq(q, 2, c + 1)[i] = q[i + 1]
<1> DEFINE m == 2
           n == c + 1
<1>1. m \in Int /\ n \in Int /\ m <= n + 1 /\ n - m + 1 = c
      /\ \A i \in m .. n : q[i] \in S
  OBVIOUS
<1>2. \A i \in 1 .. c : m + i - 1 = i + 1  OBVIOUS
<1> HIDE DEF m, n
<1>3. /\ SubSeq(q, m, n) \in Seq(S)
      /\ Len(SubSeq(q, m, n)) = IF m <= n THEN n - m + 1 ELSE 0
      /\ \A i \in 1 .. n - m + 1 : SubSeq(q, m, n)[i] = q[m + i - 1]
  BY <1>1, SubSeqProperties
<1>4. /\ Len(SubSeq(q, m, n)) = c
      /\ \A i \in 1 .. c : SubSeq(q, m, n)[i] = q[i + 1]
  BY <1>1, <1>2, <1>3
<1> QED  BY <1>4 DEF m, n

\* Recording a session shifts the history by the one entry there is no room
\* for, if any, and puts the session last.
LEMMA RecordShifts ==
  ASSUME TypeOK, NEW s \in Sessions
  PROVE  \E d \in {0, 1} :
           /\ Len(Record(s)) = Len(entries) + 1 - d
           /\ d = 1 => Len(Record(s)) = Cap
           /\ Len(Record(s)) <= Cap
           /\ \A i \in 1 .. Len(Record(s)) :
                Record(s)[i] = IF i = Len(Record(s)) THEN s ELSE entries[i + d]
<1> DEFINE e == Append(entries, s)
<1>1. /\ e \in Seq(Sessions) /\ Len(e) = Len(entries) + 1 /\ Len(entries) \in Nat
      /\ Len(entries) <= Cap
      /\ \A i \in 1 .. Len(e) : e[i] = IF i = Len(e) THEN s ELSE entries[i]
      /\ \A i \in 1 .. Len(e) : e[i] \in Sessions
  BY DEF TypeOK
<1>2. Record(s) = IF Len(e) > Cap THEN SubSeq(e, Len(e) - Cap + 1, Len(e)) ELSE e
  BY DEF Record
<1> HIDE DEF e
<1>3. CASE Len(e) > Cap
  <2>1. Len(entries) = Cap /\ Len(e) - Cap + 1 = 2 /\ Len(e) = Cap + 1
    BY <1>1, <1>3, CapIsPositive
  <2>2. Record(s) = SubSeq(e, 2, Cap + 1)  BY <1>2, <1>3, <2>1
  <2>3. e \in Seq(Sessions) /\ Len(e) = Cap + 1 /\ Cap \in Nat  BY <1>1, <2>1, CapIsPositive
  <2>4. Len(SubSeq(e, 2, Cap + 1)) = Cap /\ \A i \in 1 .. Cap : SubSeq(e, 2, Cap + 1)[i] = e[i + 1]
    BY <2>3, Shift
  <2>5. Len(Record(s)) = Cap /\ \A i \in 1 .. Cap : Record(s)[i] = e[i + 1]
    BY <2>2, <2>4
  <2>6. \A i \in 1 .. Cap : Record(s)[i] = IF i = Cap THEN s ELSE entries[i + 1]
    BY <2>5, <2>1, <1>1, CapIsPositive
  <2> QED  BY <2>1, <2>5, <2>6
<1>4. CASE ~(Len(e) > Cap)
  <2>1. Record(s) = e  BY <1>2, <1>4
  <2> QED  BY <1>1, <1>4, <2>1, CapIsPositive
<1> QED  BY <1>3, <1>4

\* Start adds the newest session; what falls out is the oldest.
LEMMA StartHistory ==
  ASSUME IInv, History, NEW s \in Sessions, Start(s), UNCHANGED clock
  PROVE  History'
<1>1. PICK d \in {0, 1} :
        /\ Len(entries') = Len(entries) + 1 - d
        /\ d = 1 => Len(entries') = Cap
        /\ Len(entries') <= Cap
        /\ \A i \in 1 .. Len(entries') :
             entries'[i] = IF i = Len(entries') THEN s ELSE entries[i + d]
  BY RecordShifts DEF IInv, Start
<1>2. /\ started[s] = 0 /\ started'[s] = clock /\ clock \in Nat \ {0}
      /\ \A r \in Sessions : started[r] \in Nat /\ started[r] <= clock
      /\ \A r \in Sessions : r # s => started'[r] = started[r]
  BY DEF IInv, TypeOK, Timely, Start
<1>3. /\ Len(entries) \in Nat /\ Len(entries) <= Cap /\ Cap \in Nat /\ Cap >= 1
      /\ \A i \in Indices : entries[i] \in Sessions
  BY CapIsPositive DEF IInv, TypeOK, Indices
<1>4. /\ Len(entries') \in Nat \ {0}
      /\ \A i \in Indices' :
           \/ i = Len(entries') /\ entries'[i] = s
           \/ i < Len(entries') /\ i + d \in Indices /\ entries'[i] = entries[i + d]
  BY <1>1, <1>3 DEF Indices
<1>5. \A i \in Indices : entries[i] # s /\ started'[entries[i]] = started[entries[i]]
  BY <1>2, <1>3 DEF History, Begun
<1>6. \A i \in Indices' : i \in Int  BY <1>4 DEF Indices
<1>7. Distinct'
  BY <1>1, <1>4, <1>5, <1>6 DEF History, Distinct
<1>8. Begun'
  BY <1>2, <1>4, <1>5 DEF History, Begun
<1>9. Sorted'
  <2> SUFFICES ASSUME NEW i \in Indices', NEW j \in Indices', i < j
               PROVE  started'[entries'[i]] <= started'[entries'[j]]
    BY DEF Sorted
  <2>1. i < Len(entries') /\ i + d \in Indices /\ entries'[i] = entries[i + d]
    BY <1>4, <1>6 DEF Indices
  <2>2. CASE entries'[j] = s  BY <1>2, <1>3, <1>5, <2>1, <2>2
  <2>3. CASE j + d \in Indices /\ entries'[j] = entries[j + d]
    <3>1. i + d < j + d  BY <1>1, <1>6
    <3>2. started[entries[i + d]] <= started[entries[j + d]]
      BY <2>1, <2>3, <3>1 DEF History, Sorted
    <3> QED  BY <2>1, <2>3, <3>2, <1>5
  <2> QED  BY <1>4, <2>2, <2>3
<1>10. Complete'
  <2> SUFFICES ASSUME NEW r \in Sessions, started'[r] # 0
               PROVE  Listed(r)' \/ Dropped(r)'
    BY DEF Complete
  <2>1. CASE r = s
    <3>1. Len(entries') \in Indices' /\ entries'[Len(entries')] = s
      BY <1>1, <1>4 DEF Indices
    <3> QED  BY <2>1, <3>1 DEF Listed
  <2>2. CASE r # s /\ \E i \in Indices : entries[i] = r
    <3>1. PICK i \in Indices : entries[i] = r  BY <2>2
    <3>2. CASE i - d # 0
      <4>1. i - d \in Indices' /\ i - d # Len(entries') /\ (i - d) + d = i
        BY <1>1, <1>3, <3>2 DEF Indices
      <4>2. entries'[i - d] = entries[(i - d) + d]  BY <1>1, <4>1 DEF Indices
      <4>3. entries'[i - d] = r  BY <3>1, <4>1, <4>2
      <4> QED  BY <4>1, <4>3 DEF Listed
    <3>3. CASE i - d = 0
      <4>1. d = 1 /\ i = 1 /\ Len(entries') = Cap  BY <1>1, <3>3 DEF Indices
      <4>2. \A j \in Indices : started[r] <= started[entries[j]]
        <5>1. ASSUME NEW j \in Indices PROVE started[r] <= started[entries[j]]
          <6>1. CASE j = 1  BY <1>2, <3>1, <4>1, <6>1
          <6>2. CASE 1 < j  BY <3>1, <4>1, <6>2 DEF History, Sorted
          <6> QED  BY <6>1, <6>2 DEF Indices
        <5> QED  BY <5>1
      <4>3. \A j \in Indices' : started'[r] <= started'[entries'[j]]
        BY <1>2, <1>4, <1>5, <2>2, <4>2
      <4> QED  BY <4>1, <4>3 DEF Dropped
    <3> QED  BY <3>2, <3>3
  <2>3. CASE r # s /\ Dropped(r)
    <3>1. Len(entries') = Cap  BY <1>1, <1>3, <2>3 DEF Dropped
    <3>2. \A j \in Indices' : started'[r] <= started'[entries'[j]]
      BY <1>2, <1>4, <1>5, <2>3 DEF Dropped
    <3> QED  BY <3>1, <3>2 DEF Dropped
  <2>4. r # s => Listed(r) \/ Dropped(r)  BY <1>2 DEF History, Complete
  <2> QED  BY <2>1, <2>2, <2>3, <2>4 DEF Listed
<1> QED  BY <1>7, <1>8, <1>9, <1>10 DEF History

LEMMA HistoryInductive == IInv /\ History /\ [Next]_vars => History'
<1> SUFFICES ASSUME IInv, History, [Next]_vars PROVE History'
  OBVIOUS
<1>1. CASE UNCHANGED <<entries, started>>
  BY <1>1 DEF History, Distinct, Begun, Sorted, Complete, Listed, Dropped, Indices
<1>2. CASE \E s \in Sessions : Start(s) /\ UNCHANGED clock
  BY <1>2, StartHistory
<1> QED  BY <1>1, <1>2 DEF Next, End, Tick, vars, log

\* A sequence without repetition has as many elements as it is long.
LEMMA CountDistinct ==
  ASSUME NEW S, NEW n \in Nat, NEW q \in [1 .. n -> S],
         \A i, j \in 1 .. n : i # j => q[i] # q[j]
  PROVE  Cardinality({q[i] : i \in 1 .. n}) = n
<1> DEFINE T == {q[i] : i \in 1 .. n}
<1>1. q \in Bijection(1 .. n, T)
  BY DEF Bijection, Injection, Surjection, IsInjective
<1>2. ExistsBijection(1 .. n, T)  BY <1>1 DEF ExistsBijection
<1> HIDE DEF T
<1>3. Cardinality(T) = n  BY <1>2, FS_CountingElements
<1> QED  BY <1>3 DEF T

\* The history is as long as there are sessions, up to its bound.
LEMMA HistoryLength ==
  ASSUME IInv, History
  PROVE  Len(entries) = IF Cap < Cardinality(Known) THEN Cap ELSE Cardinality(Known)
<1> DEFINE T == {entries[i] : i \in 1 .. Len(entries)}
<1>1. /\ Len(entries) \in Nat /\ Len(entries) <= Cap /\ Cap \in Nat
      /\ entries \in [1 .. Len(entries) -> Sessions]
  BY CapIsPositive DEF IInv, TypeOK
<1>2. Cardinality(T) = Len(entries)
  BY <1>1, CountDistinct DEF History, Distinct, Indices
<1>3. T \subseteq Known  BY <1>1 DEF History, Begun, Indices, Known
<1>4. Len(entries) # Cap => T = Known
  BY <1>3 DEF History, Complete, Listed, Dropped, Indices, Known
<1> HIDE DEF T
<1>5. IsFiniteSet(Known)  BY SessionsAssumption, FS_Subset DEF Known
<1>6. Cardinality(T) <= Cardinality(Known) /\ Cardinality(Known) \in Nat
  BY <1>3, <1>5, FS_Subset, FS_CardinalityType
<1>7. Len(entries) \in Nat /\ Len(entries) <= Cap /\ Cap \in Nat  BY <1>1
<1>8. CASE Len(entries) = Cap  BY <1>2, <1>6, <1>7, <1>8
<1>9. CASE Len(entries) # Cap  BY <1>2, <1>4, <1>7, <1>9
<1> QED  BY <1>8, <1>9

\* Recent gives the newest sessions there ever were, newest first.
LEMMA RecentCorrect == IInv /\ History => RecentIsNewest
<1> SUFFICES ASSUME IInv, History, NEW n \in 0 .. Cap + 1
             PROVE  LET r == Recent(n)
                        shown == {r[i] : i \in DOMAIN r}
                        Least(a, b) == IF a < b THEN a ELSE b
                    IN  /\ Len(r) = Least(n, Least(Cap, Cardinality(Known)))
                        /\ Cardinality(shown) = Len(r)
                        /\ \A i, j \in DOMAIN r : i < j => started[r[i]] >= started[r[j]]
                        /\ \A s \in Known \ shown, i \in DOMAIN r : started[s] <= started[r[i]]
  BY DEF RecentIsNewest, Known
<1> DEFINE r == Recent(n)
           k == IF n > Len(entries) THEN Len(entries) ELSE n
           shown == {r[i] : i \in 1 .. k}
<1>1. /\ Len(entries) \in Nat /\ Len(entries) <= Cap /\ Cap \in Nat
      /\ \A i \in Indices : entries[i] \in Sessions
      /\ \A s \in Sessions : started[s] \in Nat
  BY CapIsPositive DEF IInv, TypeOK, Indices
<1>2. n \in Nat /\ k \in Nat /\ k <= Len(entries)  BY <1>1
<1> HIDE DEF k
<1>3. r = [i \in 1 .. k |-> entries[Len(entries) + 1 - i]]  BY DEF Recent, k
<1>4. \A i \in 1 .. k : /\ Len(entries) + 1 - i \in Indices
                        /\ r[i] = entries[Len(entries) + 1 - i]
                        /\ i \in Nat
  BY <1>1, <1>2, <1>3 DEF Indices
<1>5. r \in [1 .. k -> Sessions]  BY <1>1, <1>3, <1>4
<1> HIDE DEF r
<1>6. DOMAIN r = 1 .. k /\ Len(r) = k  BY <1>2, <1>5
<1>7. k = IF n < (IF Cap < Cardinality(Known) THEN Cap ELSE Cardinality(Known))
          THEN n ELSE (IF Cap < Cardinality(Known) THEN Cap ELSE Cardinality(Known))
  <2>1. Len(entries) = IF Cap < Cardinality(Known) THEN Cap ELSE Cardinality(Known)
    BY HistoryLength
  <2>2. k = IF n < Len(entries) THEN n ELSE Len(entries)  BY <1>1, <1>2 DEF k
  <2> QED  BY <2>1, <2>2
<1>8. Cardinality(shown) = k
  <2>1. \A i, j \in 1 .. k : i # j => r[i] # r[j]
    BY <1>1, <1>4 DEF History, Distinct
  <2> QED  BY <1>2, <1>5, <2>1, CountDistinct
<1>9. \A i, j \in 1 .. k : i < j => started[r[i]] >= started[r[j]]
  <2> SUFFICES ASSUME NEW i \in 1 .. k, NEW j \in 1 .. k, i < j
               PROVE  started[r[i]] >= started[r[j]]
    OBVIOUS
  <2>1. Len(entries) + 1 - j < Len(entries) + 1 - i  BY <1>1, <1>4
  <2>2. started[entries[Len(entries) + 1 - j]] <= started[entries[Len(entries) + 1 - i]]
    BY <1>4, <2>1 DEF History, Sorted
  <2> QED  BY <1>1, <1>4, <2>2
<1>10. \A s \in Known \ shown, i \in 1 .. k : started[s] <= started[r[i]]
  <2> SUFFICES ASSUME NEW s \in Known \ shown, NEW i \in 1 .. k
               PROVE  started[s] <= started[r[i]]
    OBVIOUS
  <2>1. CASE Listed(s)
    <3>1. PICK j \in Indices : entries[j] = s  BY <2>1 DEF Listed
    <3>2. j <= Len(entries) - k
      <4>1. SUFFICES ASSUME ~(j <= Len(entries) - k) PROVE FALSE  OBVIOUS
      <4>2. Len(entries) + 1 - j \in 1 .. k /\ Len(entries) + 1 - (Len(entries) + 1 - j) = j
        BY <1>1, <1>2, <4>1 DEF Indices
      <4>3. r[Len(entries) + 1 - j] = s  BY <1>4, <3>1, <4>2
      <4> QED  BY <4>2, <4>3
    <3>3. j < Len(entries) + 1 - i  BY <1>1, <1>2, <3>2 DEF Indices
    <3>4. started[entries[j]] <= started[entries[Len(entries) + 1 - i]]
      BY <1>4, <3>3 DEF History, Sorted
    <3> QED  BY <1>4, <3>1, <3>4
  <2>2. CASE Dropped(s)  BY <1>4, <2>2 DEF Dropped
  <2>3. Listed(s) \/ Dropped(s)  BY DEF History, Complete, Known
  <2> QED  BY <2>1, <2>2, <2>3
<1>11. {r[i] : i \in DOMAIN r} = shown  BY <1>6
<1> QED  BY <1>6, <1>7, <1>8, <1>9, <1>10, <1>11 DEF r

\* /status shows the newest sessions, all that the history's bound allows.
THEOREM RecentShowsNewest == Spec => []RecentIsNewest
<1>1. Init => History
  BY DEF Init, History, Distinct, Begun, Sorted, Complete, Indices
<1> QED  BY <1>1, InitInv, NextInv, HistoryInductive, RecentCorrect, PTL DEF Spec
==============================================================================
