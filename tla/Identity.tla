------------------------------- MODULE Identity ------------------------------
(***************************************************************************)
(* The identity file of a device (internal/secure, LoadOrCreateIdentity)   *)
(* and the processes that use it: the agent, netso ssh, keygen, did.  The  *)
(* file is read, and if there is none created, truncated and written in    *)
(* separate steps, by processes that may stop at any of them.              *)
(***************************************************************************)
CONSTANTS Procs,  \* runs of a program with this -identity, one after another
          Keys,   \* the keypairs that may be generated, each once
          Nil

ASSUME NilAssumption == Nil \notin Keys

VARIABLES file,   \* whose key it holds, and how much of it
          proc,   \* per process: how far it is, and its identity
          used,   \* the keys generated so far
          raced   \* ghost: two processes were creating the file at once

idvars == <<file, proc, used, raced>>

\* A file that was cut short may still parse, with a public key that is too
\* short; "empty" stands for every content that does not parse.
Content == [key : Keys, part : {"empty", "cut", "whole"}]
Absent == [key |-> Nil, part |-> "absent"]
Off == [pc |-> "off", id |-> Absent]

Init ==
  /\ file = Absent
  /\ proc = [p \in Procs |-> Off]
  /\ used = {}
  /\ raced = FALSE

Creating(p) == proc[p].pc \in {"creating", "writing"}

\* A file that does not parse is an error, and the process exits.
\* Mutant: what can be read is taken.
ParsesAnything == file # Absent
Parses == file.part \in {"cut", "whole"}

Load(p) ==
  /\ proc[p].pc = "off" /\ Parses
  /\ proc' = [proc EXCEPT ![p] = [pc |-> "running", id |-> file]]
  /\ UNCHANGED <<file, used, raced>>

\* The file does not exist: a fresh keypair.
Generate(p) ==
  /\ proc[p].pc = "off" /\ file = Absent
  /\ \E k \in Keys \ used :
       /\ proc' = [proc EXCEPT ![p] = [pc |-> "creating", id |-> [key |-> k, part |-> "whole"]]]
       /\ used' = used \cup {k}
  /\ raced' = (raced \/ \E q \in Procs : Creating(q))
  /\ UNCHANGED file

\* os.WriteFile opens the file, truncating what is there by then, and writes.
Truncate(p) ==
  /\ proc[p].pc = "creating"
  /\ file' = [proc[p].id EXCEPT !.part = "empty"]
  /\ proc' = [proc EXCEPT ![p].pc = "writing"]
  /\ UNCHANGED <<used, raced>>

Write(p) ==
  /\ proc[p].pc = "writing"
  /\ file' = proc[p].id
  /\ proc' = [proc EXCEPT ![p].pc = "running"]
  /\ UNCHANGED <<used, raced>>

\* Part of it is written: the disk is full, or the process is killed.
\* Mutant: the error of WriteFile is not looked at.
WriteShortGoesOn(p) ==
  /\ proc[p].pc = "writing" /\ file.part = "empty"
  /\ file' = [proc[p].id EXCEPT !.part = "cut"]
  /\ proc' = [proc EXCEPT ![p].pc = "running"]
  /\ UNCHANGED <<used, raced>>
WriteShort(p) ==
  /\ proc[p].pc = "writing" /\ file.part = "empty"
  /\ \E part \in {"empty", "cut"} : file' = [proc[p].id EXCEPT !.part = part]
  /\ proc' = [proc EXCEPT ![p] = Off]
  /\ UNCHANGED <<used, raced>>

\* It has done, fails, or is killed.
Stop(p) ==
  /\ proc[p].pc # "off"
  /\ proc' = [proc EXCEPT ![p] = Off]
  /\ UNCHANGED <<file, used, raced>>

Step(p) == Load(p) \/ Generate(p) \/ Truncate(p) \/ Write(p) \/ WriteShort(p) \/ Stop(p)
Next == \E p \in Procs : Step(p)
Spec == Init /\ [][Next]_idvars

------------------------------------------------------------------------------
Generated == [key : Keys, part : {"whole"}]
Parsed == [key : Keys, part : {"cut", "whole"}]
Proc ==
  {Off} \cup [pc : {"creating", "writing"}, id : Generated] \cup [pc : {"running"}, id : Parsed]

\* Types; a process runs with an identity that parsed.
TypeOK ==
  /\ file \in Content \cup {Absent}
  /\ proc \in [Procs -> Proc]
  /\ used \subseteq Keys
  /\ raced \in BOOLEAN

\* The device has one identity, the file's: every process that runs has it,
\* whichever created it and whatever was killed on the way, unless two of them
\* were creating the file at once.  A file left short is nobody's identity.
OneIdentity == ~raced => \A p \in Procs : proc[p].pc = "running" => proc[p].id = file

\* Short of such a race, a file that parses is never written again.
KeepsFile == ~raced' /\ Parses => file' = file
IdentityIsFinal == [][KeepsFile]_idvars
==============================================================================
