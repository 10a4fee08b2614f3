------------------------------- MODULE AuditLog ------------------------------
(***************************************************************************)
(* internal/audit: a live count of brokered sessions and a bounded history *)
(* of the recent ones.  A session is known by its handle, the *Session     *)
(* Start returns; its two timestamps are 0 while unset (time.Time's zero). *)
(* Every method runs under the log's mutex, so each is one action.         *)
(***************************************************************************)
EXTENDS Integers, Sequences, FiniteSets

CONSTANTS Sessions,   \* handles, each used for at most one Start
          MaxEntries, \* NewLog's argument
          MaxTime     \* bound on the clock, for TLC only

ASSUME SessionsAssumption == IsFiniteSet(Sessions)
ASSUME MaxEntriesAssumption == MaxEntries \in Int

VARIABLES entries,    \* Log.entries, oldest first
          started,    \* Session.Started
          ended,      \* Session.Ended
          active,     \* Log.active
          clock       \* what now() returns

log == <<entries, started, ended, active>>
vars == <<entries, started, ended, active, clock>>

\* NewLog keeps at least one entry.
Cap == IF MaxEntries < 1 THEN 1 ELSE MaxEntries

Init ==
  /\ entries = <<>>
  /\ started = [s \in Sessions |-> 0]
  /\ ended = [s \in Sessions |-> 0]
  /\ active = 0
  /\ clock = 1

\* Append, then keep the newest Cap entries.
\* Mutants: nothing is dropped; the newest are dropped instead of the oldest.
RecordUnbounded(s) == Append(entries, s)
RecordDropsNewest(s) == IF Len(entries) < Cap THEN Append(entries, s) ELSE entries
Record(s) ==
  LET e == Append(entries, s)
  IN  IF Len(e) > Cap THEN SubSeq(e, Len(e) - Cap + 1, Len(e)) ELSE e

Start(s) ==
  /\ started[s] = 0
  /\ started' = [started EXCEPT ![s] = clock]
  /\ entries' = Record(s)
  /\ active' = active + 1
  /\ UNCHANGED ended

IsOpen(s) == started[s] # 0 /\ ended[s] = 0

\* Only the first End of a session counts.  Mutant: every End does.
EndsAlways(s) == started[s] # 0
EndsNow(s) == IsOpen(s)

End(s) ==
  /\ started[s] # 0
  /\ UNCHANGED <<entries, started>>
  /\ \/ /\ EndsNow(s)
        /\ ended' = [ended EXCEPT ![s] = clock]
        /\ active' = IF active > 0 THEN active - 1 ELSE active
     \/ /\ ~EndsNow(s)
        /\ UNCHANGED <<ended, active>>

Tick ==
  /\ clock < MaxTime
  /\ clock' = clock + 1
  /\ UNCHANGED log

Next ==
  \/ \E s \in Sessions : (Start(s) \/ End(s)) /\ UNCHANGED clock
  \/ Tick

Spec == Init /\ [][Next]_vars

------------------------------------------------------------------------------
\* Recent(n), newest first.  The hub asks for n >= 0.
Recent(n) ==
  LET k == IF n > Len(entries) THEN Len(entries) ELSE n
  IN  [i \in 1..k |-> entries[Len(entries) + 1 - i]]

\* Types; the history keeps within its bound, whatever bound was asked for.
TypeOK ==
  /\ entries \in Seq(Sessions)
  /\ Len(entries) <= Cap
  /\ started \in [Sessions -> Nat]
  /\ ended \in [Sessions -> Nat]
  /\ active \in Nat
  /\ clock \in Nat \ {0}

Open == {s \in Sessions : IsOpen(s)}

\* The live count is the number of sessions started and not ended, those the
\* bounded history has already dropped included: the guard against a negative
\* count in End never has to hide a miscount.
ActiveIsOpen == active = Cardinality(Open)

\* The history, asked for n sessions, gives as many as were ever started up to
\* n and Cap, newest first, and leaves out none newer than one it gives.
RecentIsNewest ==
  \A n \in 0 .. Cap + 1 :
    LET r == Recent(n)
        known == {s \in Sessions : started[s] # 0}
        shown == {r[i] : i \in DOMAIN r}
        Least(a, b) == IF a < b THEN a ELSE b
    IN  /\ Len(r) = Least(n, Least(Cap, Cardinality(known)))
        /\ Cardinality(shown) = Len(r)
        /\ \A i, j \in DOMAIN r : i < j => started[r[i]] >= started[r[j]]
        /\ \A s \in known \ shown, i \in DOMAIN r : started[s] <= started[r[i]]

\* What was recorded is never rewritten: the first End fixes a session's end,
\* at or after its start, and a second one leaves it (and the count) alone.
RecordIsFinal ==
  [][\A s \in Sessions :
       /\ started[s] # 0 => started'[s] = started[s]
       /\ ended[s] # 0 => ended'[s] = ended[s]
       /\ ended'[s] # 0 => ended'[s] >= started'[s]]_vars
==============================================================================
