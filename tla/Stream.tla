-------------------------------- MODULE Stream -------------------------------
(***************************************************************************)
(* What a session promises of each of its two directions: what comes out   *)
(* is what went in, in order, each piece once, with nothing left out       *)
(* before something delivered.  It may stop short: how far it gets, and    *)
(* when it must get to the end, the composing module says.                 *)
(***************************************************************************)
EXTENDS Naturals, Sequences

VARIABLES sent, got

Init == sent = <<>> /\ got = <<>>

\* A piece is known by its place.
Send == sent' = Append(sent, Len(sent) + 1) /\ UNCHANGED got

Deliver ==
  /\ Len(got) < Len(sent)
  /\ got' = Append(got, sent[Len(got) + 1])
  /\ UNCHANGED sent

Next == Send \/ Deliver

Spec == Init /\ [][Next]_<<sent, got>>
==============================================================================
