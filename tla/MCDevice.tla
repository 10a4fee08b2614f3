------------------------------- MODULE MCDevice -------------------------------
(***************************************************************************)
(* Device, for TLC: keys of two bytes below four, two of which differ in   *)
(* their last byte only.                                                   *)
(***************************************************************************)
EXTENDS Device

SomeKeys == {<<0, 1>>, <<0, 2>>, <<3, 0>>}
Multicodec == <<3, 1>>
==============================================================================
