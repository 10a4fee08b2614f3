-------------------------------- MODULE Device --------------------------------
(***************************************************************************)
(* What a device is known by: the key of its identity file (Identity), the *)
(* did:key made from it, and the registry that anchors the DID and its     *)
(* revocation (internal/did).  netso did prints the document; an enrolment *)
(* service, outside this repository, registers and revokes it; a verifier  *)
(* asks Authorized.  Keys are sequences of bytes, of a smaller alphabet.   *)
(***************************************************************************)
EXTENDS Identity, Integers, Sequences, SequencesExt

CONSTANTS Base,    \* values of a byte (256)
          Radix,   \* letters of the encoding (58)
          KeyLen,  \* x25519KeyLen (32)
          Tag      \* x25519Multicodec

ASSUME BasesAssumption == Base \in Nat /\ Radix \in Nat /\ Radix > 1 /\ Base > 1
ASSUME KeysAssumption ==
  /\ KeyLen \in Nat \ {0}
  /\ \A k \in Keys : k \in [1 .. KeyLen -> 0 .. Base - 1]
  /\ Tag \in Seq(0 .. Base - 1)

VARIABLES printed,   \* the documents netso did has printed
          docs,      \* MemoryAnchor.docs: the documents registered, one per DID
          revoked,   \* MemoryAnchor.revoked: DIDs
          standing   \* ghost: the last word on the DID of each key

anchor == <<docs, revoked, standing>>
vars == <<idvars, printed, anchor>>

\* base58Encode: one letter for each leading zero, then the digits of the
\* number, most significant first.
Zeros(s) == [i \in 1 .. SelectInSeq(Append(s, 1), LAMBDA b : b # 0) - 1 |-> 0]
Digits[x \in Nat] == IF x = 0 THEN <<>> ELSE Append(Digits[x \div Radix], x % Radix)
Number(s) ==
  LET n[i \in 0 .. Len(s)] == IF i = 0 THEN 0 ELSE n[i - 1] * Base + s[i]
  IN  n[Len(s)]
Encode(s) == Zeros(s) \o Digits[Number(s)]

\* FromX25519 refuses a key of another length.
Encodable(pub) == Len(pub) = KeyLen
FromX25519(pub) == Encode(Tag \o pub)

Matches(did, pub) == Encodable(pub) /\ FromX25519(pub) = did
NewDocument(pub) == [id |-> FromX25519(pub), key |-> pub]

\* The public key of an identity as it was read.
Public(id) == IF id.part = "cut" THEN SubSeq(id.key, 1, KeyLen - 1) ELSE id.key

DeviceInit ==
  /\ Init
  /\ printed = {} /\ docs = {} /\ revoked = {}
  /\ standing = [k \in Keys |-> "none"]

\* netso did, run on the device.
PrintDID(p) ==
  /\ proc[p].pc = "running"
  /\ Encodable(Public(proc[p].id))
  /\ printed' = printed \cup {NewDocument(Public(proc[p].id))}
  /\ UNCHANGED <<idvars, anchor>>

\* Registering clears a revocation.  Mutant: it stays.
RegisterOnly(doc) ==
  /\ docs' = docs \cup {doc}
  /\ standing' = [standing EXCEPT ![doc.key] = "registered"]
  /\ UNCHANGED <<idvars, printed, revoked>>
Register(doc) ==
  /\ docs' = {d \in docs : d.id # doc.id} \cup {doc}
  /\ revoked' = revoked \ {doc.id}
  /\ standing' = [standing EXCEPT ![doc.key] = "registered"]
  /\ UNCHANGED <<idvars, printed>>

\* A DID may be revoked that is not registered, or not yet.
Revoke(doc) ==
  /\ revoked' = revoked \cup {doc.id}
  /\ standing' = [standing EXCEPT ![doc.key] = "revoked"]
  /\ UNCHANGED <<idvars, printed, docs>>

DeviceNext ==
  \/ Next /\ UNCHANGED <<printed, anchor>>
  \/ \E p \in Procs : PrintDID(p)
  \/ \E doc \in printed : Register(doc) \/ Revoke(doc)

DeviceSpec == DeviceInit /\ [][DeviceNext]_vars

------------------------------------------------------------------------------
\* A DID that is not registered is an error, which is no authorisation either.
Registered(did) == \E d \in docs : d.id = did
Authorized(did, pub) == Matches(did, pub) /\ Registered(did) /\ did \notin revoked

\* A verifier that was given a device's document accepts every process of that
\* device, through restarts and kills, and nothing else, exactly while the
\* last word on it was its registration: the encoding never makes one DID of
\* two keys, and a device does not change its key behind its DID.
AuthorizedIsDevice ==
  \A doc \in printed :
    /\ \A k \in Keys, n \in 0 .. KeyLen :
         Authorized(doc.id, SubSeq(k, 1, n)) <=>
           n = KeyLen /\ k = doc.key /\ standing[k] = "registered"
    /\ ~raced /\ standing[doc.key] = "registered" =>
         \A p \in Procs : proc[p].pc = "running" => Authorized(doc.id, Public(proc[p].id))
==============================================================================
