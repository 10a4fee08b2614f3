------------------------------ MODULE MCOperator ------------------------------
(***************************************************************************)
(* Operator, for TLC: hubs with the default or no replicas, peers with one *)
(* Secret, another, none, or no hub; two operator images.                  *)
(***************************************************************************)
EXTENDS Operator

HubSpec(i, n) == [image |-> i, replicas |-> n, hubRef |-> "", secret |-> ""]
PeerSpec(h, s) == [image |-> "", replicas |-> Nil, hubRef |-> h, secret |-> s]
SomeSpecs ==
  [k \in Kinds |-> IF k = "Hub" THEN {HubSpec("", Nil), HubSpec("own", 0)}
                   ELSE {PeerSpec("h", ""), PeerSpec("h", "s1"), PeerSpec("h", "s2"), PeerSpec("", "")}]
==============================================================================
