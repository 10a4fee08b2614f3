# netso, modelled and verified

netso gives a shell on a peer that has no open port. An **agent** on the peer
dials out to a **hub** and registers under a network and a name; a **client**
asks the hub for that name; the hub takes the agent's websocket out of its
registry and copies messages between the two websockets until one side ends.
Agent and client run a Noise IK handshake over that relay, so the hub only sees
ciphertext.

This directory models that system in TLA+, checks it with TLC on small
instances, and proves with TLAPS, for every instance, every safety property
that a passing run checks. Sources are cited as paths below `src/`.

## 1. Inventory

| component | source | state | operations | interacts with |
|---|---|---|---|---|
| Registry | `internal/registry` | nested maps network -> name -> (peer, connection), one mutex | Add, Remove, Take, Networks, List | called by the hub |
| Audit log | `internal/audit` | bounded history, live count, two timestamps per session, one mutex | Start, End, Active, Recent | called by the hub |
| Hub | `cmd/netso-hub` | the two above; a goroutine per request, two more per relay | `/agent`, `/connect`, `/peers`, `/status`, relay | websockets of agents and clients |
| Agent | `cmd/netso-agent` | its key, its current websocket, one session at a time | dial, wait, handshake, serve a shell, sleep, dial again | hub, shell, allowlist file |
| CLI client | `cmd/netso`, `internal/hubclient` | its key, the pinned key, one session | keygen, did, peers, ssh (exec or interactive) | hub |
| Secure channel | `internal/secure` | handshake state, two cipher states; identity and allowlist files | Handshake, Read, Write, Close, LoadOrCreateIdentity, LoadAuthorizedKeys | agent, client, browser |
| Transport | `internal/transport` | per connection: a queue of messages, a closed flag | WriteMsg, ReadMsg, Close; Pipe, DialWS | under the secure channel |
| Shell | `internal/shell` | a child process on a PTY | Start, Read, Write, Close | agent |
| DID anchor | `internal/did` | documents and revocations, one mutex | Register, Revoke, Resolve, Authorized; FromX25519, base58 | nothing calls it yet but `netso did` |
| Browser client | `cmd/netso-wasm`, `web/main.js` | current session, 32 queued keystrokes | connect, send, close, callbacks | hub, secure channel |
| Operator | `operator` | none of its own; the API server's objects | reconcile Hub, reconcile Peer | Kubernetes |

What is hard here: the hub's state is touched by as many goroutines as there are
requests, and a registry entry is a live connection that must have exactly one
owner while registrations replace each other and clients race for it; a relay is
three goroutines that end each other by closing the connections under them; far
ends vanish without notice and nobody reads an idle connection; agents, clients
and the hub stop and start independently, and every file and list is read at one
moment and used at another.

What makes each part right:

* Registry: one record per name and network; Take gives a record to one caller;
  a stale Remove never removes a newer registration; the counts of `/status` are
  those of the lists of `/peers`.
* Audit log: the live count is the number of open sessions whatever the bounded
  history dropped; ends are final; Recent shows the newest.
* Hub: a connection is never leaked and never shared; a client reaches the name
  it asked for; nothing listed was closed by the hub; a session ends when an end
  of it does.
* Agent, client, secure channel: both ends of an established session agree on
  each other; an attempt always ends; an agent is always listed again.
* Shell session: output arrives in order and complete; a client that leaves
  frees the agent.
* Transport: each message is delivered once, in order.
* Identity and anchor: a device has one identity, its file's, whatever is killed
  while the file is written, short of a race to create it; its DID authorises it
  and nobody else, exactly while the last word on that DID is its registration.
* Browser: the terminal shows all an agent printed up to the session's end; keys
  reach, in order, the one agent they were typed to; the page never stops, and
  holds the session that is alive, never one that has ended.
* Operator: a Deployment runs what its own Hub or Peer asks, not what the other
  object of the name or an older edit asks; it is never taken over; once changes
  stop, the cluster comes to what the objects say.

`PROJECT.json` lists the hazards, each at its line.

## 2. Modules

| module | models | kind |
|---|---|---|
| `Directory` | what the hub relies on from the registry: a flat map from network and name to at most one record | abstract |
| `Registry` | the nested maps of `internal/registry`, each method one action (one mutex) | detailed, implements `Directory` |
| `AuditLog` | `internal/audit` | component |
| `Hub` | `cmd/netso-hub`: `handleAgent`, `handleConnect`, `relay`, `copyMsgs` as goroutines over `Directory` and `AuditLog` | composition |
| `MCHub` | symmetry for TLC | MC |
| `Relay` | `Hub`'s relay with the messages its copiers carry: two FIFO wires per websocket | composition, over `Hub` |
| `Netso` | `cmd/netso-agent`, `cmd/netso ssh` and the handshake of `internal/secure`, up to the established session, with crashes and restarts | composition, over `Relay` |
| `MCNetso` | who registers as what, symmetry | MC |
| `Stream` | an ordered channel that may stop short | abstract |
| `Tunnel` | one established session: `runExec` and `runInteractive`, the relay, `serve`'s loop and output goroutine, `internal/shell` | composition, over `Relay`; each direction implements `Stream` |
| `Pipe` | `internal/transport`: `Pipe`, with Go's `select` | detailed, implements `Stream` in each direction |
| `Browser` | `web/main.js`, `cmd/netso-wasm` and `JSConn`, on the page's event loop | component |
| `Identity` | the identity file of `internal/secure` and the processes that create, read and cut it short | abstract for `Device` |
| `Device` | `internal/did` over that file: document, registration, revocation, authorisation | composition, implements `Identity` |
| `MCDevice` | keys of two small bytes | MC |
| `Operator` | `operator`: both reconcilers, against an API server that others write to | component |
| `MCOperator` | specs of a Hub and of a Peer | MC |
| `RegistryProofs`, `AuditLogProofs`, `HubProofs`, `NetsoProofs`, `StreamProofs`, `BrowserProofs`, `DeviceProofs`, `OperatorProofs` | theorems | proofs |

**Registry.** `m` is the Go map of maps: a function on the networks present,
each a function on the names present, so that an empty network really is absent
(`Delete` is the code `Remove` and `Take` share). `ImplementsDirectory` maps it
to `Directory`. `Networks` and `List` are the read operators `NetworkCounts` and
`List`, related by `CountsMatchLists`.

**AuditLog.** A session is the pointer `Start` returns. `EndsNow` is the test of
line 78; an `End` that fails it changes nothing and is a step all the same. The
clock may stand still between two calls, as `time.Now` may.

**Hub.** A goroutine's steps are split where it gives up a mutex or may block:
upgrade, `Add`, close of the replaced connection; upgrade, `Take`, `Start`,
wait for the first copier, close one end, close the other, wait for the second,
`End`. A copier alternates a read and a write. The registry's and the log's
mutexes make each of their calls one step. `conn` is the hub's end of a
websocket; `remote` says whether the far end can still be read from. Far ends
appear, leave, send or stay silent as they like. The content of messages is
left out: no property of the hub depends on it. `/peers` and `/status` only read.

Connections are identities. An agent's may be used again (`Recycle`) once
nothing in the hub refers to it, so a finite set of them stands for an unbounded
number of registrations. Clients' are used once: two of them race for a peer.

**Relay.** The hub's steps unchanged, conjoined with what they do to the
messages: a copier takes the first message of the source's wire, holds it, and
appends it to the destination's. A far end that is gone is noticed by FIN, after
all it sent was read, or by a reset, and then what was not read is lost. The
programs at the far ends belong to the module that uses `Relay`.

**Netso.** An agent is the loop of `main` around `serve`: dial, call
`allowlist()`, wait for the hello, answer or refuse, serve, close, sleep, dial
again. A client is `cmdSSH`: get a key (from discovery or from
`-authorized-agent`, which may name any agent), connect, send the hello, check
the answer. The Noise IK pattern is ideal: a hello is made for one agent's key
and shows the client's, an answer is the reply of one agent to one hello, and
neither is made by anybody else; the hub only carries them. Discovery,
connection and handshake are separate steps, so names change hands between
them. An agent crashes and starts again, the hub loses all of its memory, the
authorized-clients file is edited or is unreadable. `-authorized-client` (a
fixed key next to the file's) and `-once` are left out: the file alone already
gives every list, and with `-once` the program ends where the loop begins.
A session's content is `Tunnel`'s: here it may end at any time.

**Tunnel.** Every place where the session waits is there: the client's two
loops, two websockets, the hub's two copiers, the agent's loop and its output
goroutine, the two bounded queues of the PTY. What is typed and printed is
numbered. `Session.Close` of the agent is a step of each of its two goroutines,
in either order; `sh.Close` closes the PTY, kills and reaps. A program that
closes a socket with data unread, or writes to one whose other end has closed,
resets it, as TCP does, and then what is under way may be lost. "The shell"
stands for every process on the PTY.

**Pipe.** Each call is the one `select` it consists of; when both cases are
ready, either is taken. The ghost variables `sent` and `got` record what the
properties compare. Both ends have a `sync.Once` of their own for the one
channel they share, so a second `Close` panics, as a step of the model; and a
`ReadMsg` after a close may return the close while messages are queued. Only
tests use a `Pipe`, so both are remarks, not findings, and no property is about
either.

**Browser.** Go's wasm runtime shares the page's thread: a task of the page
that calls into Go gets control back when every goroutine is blocked. `GoIdle`
says so, and a click, a key or a websocket event is a step only then; goroutines
and the blocked `onMessage` callback (`handler`) are the steps in between.
`main.js`'s `connect` calls into Go twice, so it is two steps (`js`). `events`
holds the websocket's tasks in the order they were queued. `Close` releases the
callbacks: tasks that come later do nothing. The far end answers the handshake,
prints, and ends the connection when it likes. A session may also end on this
side (`GivesUp`): no key can be made, or the answer is not a valid one. The ghost
`hungUp` records every end that began here. A peer's key is what its agent told
the hub, which does not check it; if it does not decode (`BadKey`), the goroutine
calls `onClose` before `netsoConnect` returns, and `main.js:58` then stores an
object that never was a session: what is typed to it goes nowhere until the next
click on Connect. `OneSession` leaves that object out; a session that was dialled
and has ended it does not allow. The ghost `hasty` records a click
on Connect during an attempt, which `close()` does not end: after it an older
session's `onClose` may clear the variable that holds a newer one.

**Identity, Device.** `LoadOrCreateIdentity` reads the file; if there is none it
makes a key, truncates the file and writes it, and a process may stop, or the
disk be full, between any two of these. What is left may not parse, or may parse
to a public key that is too short (`cut`). `Device` adds what is made of the
identity that was read: base58, `FromX25519`, the document, and the anchor's two
maps. Base and radix are constants, so that leading zeros, carries and lengths
are all there with bytes below four. The ghost `standing` is the last of
`Register` and `Revoke` for each key.

**Operator.** A Hub and a Peer of one name share the name of their Deployment.
The custom objects are read from the API server and carry a version (`fresh`
says whether the copy a worker holds is still the object); workloads are read
from a cache that learns of changes later (`seen`, `unseen`), and a write from
an old version, or a creation of what exists, is refused. Each call of a
`Reconcile` is a step: the Deployment, the Service, the status. An error queues
the request again. Users apply and delete, pods become ready or not, somebody
deletes a workload, calls fail before or after they took effect, the operator is
restarted with another image.

## 3. Runs

| run | module | checks | instance |
|---|---|---|---|
| `registry` | Registry | `TypeOK`, `CountsMatchLists`, `ImplementsDirectory` | 2 networks, 2 names, 2 keys, 2 connections |
| `audit` | AuditLog | `TypeOK`, `ActiveIsOpen`, `RecentIsNewest`, `RecordIsFinal` | 4 sessions, history of 2, 3 clock values |
| `hub` | MCHub | `TypeOK`, `NoLeak`, `OneOwner`, `OfferedIsOpen`, `Routed`, `AuditIsLive`, `CloseHasReason` | 2 networks with the same name in each, 3 agent connections, 2 clients |
| `hub_ends` | Hub | `ShutdownEnds`, `SessionEnds` | 1 name, 2 agent connections, 2 clients, `FairSpec` |
| `netso` | MCNetso | `TypeOK`, `Agreement` | 2 agents that register one name, 2 connections; 2 clients, or 1 client, 2 faults and 1 edit of the file |
| `netso_heals` | MCNetso | `AttemptEnds`, `AgentFreed`, `Heals` | 1 agent, 1 client, 2 faults, `FairSpec` |
| `netso_enrol` | MCNetso | `EnrolmentTakesEffect` (violated) | 1 agent, 1 client, 1 edit |
| `tunnel` | Tunnel | `TypeOK`, `ExecComplete`, `Streams`, `WindsDown` | both modes, 2 keystrokes, 2 pieces of output, a PTY of 1 piece, `FairSpec` |
| `pipe` | Pipe | `PipeTypeOK`, `IsStream` | 3 messages each way, channels of 2 |
| `browser` | Browser | `TypeOK`, `ScreenWhole`, `KeysInOrder`, `KeptOnceConnected`, `OneSession`, `Settles` | 2 sessions, queues of 1, 2 messages, 2 keys, `FairSpec` |
| `device` | MCDevice | `TypeOK`, `OneIdentity`, `AuthorizedIsDevice` | 3 processes, 3 keys of 2 bytes below 4, 3 letters |
| `operator` | MCOperator | `TypeOK`, `RunsWhatWasAsked`, `OwnerStays`, `Converges` | 2 specs of a Hub, 4 of a Peer, 2 images, 4 changes, `FairSpec` |

Why these bounds are enough to make the interesting things happen.

* Hub: two networks that use the same name tell routing by name from routing by
  network and name; three connections allow one to be listed, one to be replaced
  and still open, and one in a session, all at once; two clients race for one
  peer, and one may be in a session while the other is refused or replaced.
* Audit: a history of fewer entries than sessions drops sessions that are open.
* Netso: two agents under one name are what makes a pin stale, a registration
  replace another and a client reach an agent it did not ask for; two clients
  race for one of them. The run starts in either of two ways (`MCInit`): both
  clients, both on the list, and no faults; or one client, who may or may not be on it,
  with faults and an edit. All at once is beyond what TLC finishes. The empty
  list comes from an unreadable file.
  Two faults are a crash of the hub and one of the agent, or one of them twice.
  Websockets and their wires are used again after each session, and the agents'
  loops are unbounded.
* Tunnel: two pieces each way let one be overtaken; a PTY of one piece blocks
  writes in both directions, which is when the loops are stuck.
* Pipe: more messages than a channel holds, in both directions.
* Browser: the second session begins before, during or after the first one's
  handshake, and the two end in any order; with queues of one, the second message
  blocks the callback and the second key is dropped.
* Device: three processes, so that two may race and a third read what they left;
  keys with a leading zero, and two that differ in the last byte only, so that the
  cut ones are alike.
* Operator: four changes are enough for both objects, an edit or a deletion of
  one, and a re-creation, a failing call, a restart or a pod in between.

Each mutant in `PROJECT.json`, a plausible slip in the code, is caught at these
bounds.

`CHECK_DEADLOCK FALSE` is said in the hub's, the netso, the tunnel's, the
pipe's, the browser's, the device's and the operator's runs: an idle hub waits
for requests, and once the bounded supply of client connections is used up
nothing need happen; a session ends; a pipe whose readers have stopped and whose
channels are full, a page nobody clicks on, processes that wait on a file that
does not parse and a cluster that has converged have nothing left to do.

**Fairness.** Goroutines and programs that can run do run: weak fairness on the
steps of a handler, of a copier, of an agent's and a client's loop.

* Hub: nothing is assumed of far ends. No message need come, and a write may
  block for ever on a far end that does not read, until the hub itself closes
  that connection. That a read notices a far end that is gone is TCP's FIN, or
  keepalive, on by default in Go's listener. `SessionEnds` has the premise
  `Draining`, that far ends read what they are sent: a copier stuck in a write
  does not see that its source is gone.
* Netso: the far ends are now programs, and they read; connections whose program
  is gone are noticed (`RemoteGone`); a hub that is down is started again. No
  fault, no edit, no end of a session and no user's leaving is ever forced; the
  agent serves on while the connection is open.
* Tunnel: the client shows what arrives and the shell reads what it is sent;
  nobody need type (but exec's one command is sent), and no shell need print
  or exit. Without the shell's reading the agent's loop may stay in `sh.Write`.
* Browser: Go runs a goroutine or a callback that can run, and the browser comes
  to every task it has queued (strong fairness, as goroutines run between two
  tasks). A websocket opens or fails; a client's hello is answered or the
  connection ends; a click on Connect is carried through. Nobody need click, type or print, and no far end need leave.
* Operator: the work queue gives out every request, a request that failed among
  them, the cache catches up with the server, orphans are collected. The number
  of changes is bounded, so they stop; none is forced.

**Finding.** `netso_enrol`: `serve` reads the authorized-clients file when it starts to
wait (`main.go:89`), not when the client comes. A client enrolled meanwhile is
refused by the old list, once; `secure.go:123` says that enrolling takes effect
since the file is read again per session.

Known and said in the code (`cmd/netso-hub/main.go:48`): idle agents are not
read, so a listed agent may be gone. `AttemptEnds` and `Heals` show that this costs
one failed attempt and that an agent that returns displaces its own dead entry.

## 4. Proofs

All theorems hold for every value of the constants, under the modules' named
assumptions: agent and client connections are different things and none is Go's
nil; a session's handles are finitely many; the bounds on faults and edits are
numbers; no name, record, agent or message is nil; the audit bound is an integer; a
channel has room for one message at least; the page's sessions are numbered, and
neither a session nor a callback's session and message is nil; no keypair is
nil; keys are strings of bytes of one length, at least one; the two ends of a
tunnel's session are different, and one keystroke at least may be typed; a spec has the fields of a spec, and the operator starts with one of its
images.

**Registry.** `TypeOK` alone is not inductive for `CountsMatchLists`: the counts
go wrong if an empty network's map stays. `Filed` adds that a network's map
exists only with peers in it, and that each record is filed under its own
network and name. With it every call of Add, Take and Remove has the effect of
`Directory`'s own (`CallByCall`), and so every behaviour is one of `Directory`'s.

**AuditLog.** `ActiveCounts` needs that an ended session was started (`Timely`);
with it the guard `active > 0` in `End` never acts, so the count cannot drift.
`RecentIsNewest` rests on the order of the history: its entries are sessions that
were started, each once and in that order, and one that is missing was dropped
for newer ones that fill it (`History`).

**Hub.** The four ownership properties are about who refers to a connection, and
a step's effect on them depends on how far the goroutine that holds the
reference has got. `IInv` adds that: where the registry lists a connection, its
handler has added it and it is open and nobody else has it (`Filed`); a handler
holds a replaced connection exactly while it has still to close it (`Handlers`,
`Replaced`); a session's agent is open until its relay closed it and registered
under what the client asked for (`Brokered`); a session's record in the log
follows its goroutine (`Sessions`). One lemma per action shows the invariant
kept; the properties, `CloseHasReason` among them, follow. What a handler does to
the registry and to the log is a step of `Directory` and of `AuditLog`
(`KeepsToDirectory`, `KeepsToAuditLog`): together with `Registry`'s refinement of
`Directory`, the nested maps may stand where the hub has the flat one.

**Netso.** `Agreement` relates a client to an agent it has no variable in common
with, so `IInv` follows the one message a handshake has on its way (`Traffic`),
from the client's wire through a copier to the agent's, and back as the answer.
A hello reaches an agent's connection only when the hub has given that connection
to its client, and then it is nobody else's until it is dialed anew (`Given`);
that rests on the hub's own invariant, which `NetsoProofs` takes from `HubProofs`
by INSTANCE: every step here is a step of the hub, leaves it alone, or is a crash,
which brings the hub back to `Init`. An answer is on its way only while whoever
the client is joined to serves it (`Answered`), and so the client that reads it is
in agreement. `Onward` says what of all this a step may not take back; most steps
only lose messages (`Fades`), and four move one on (`TrafficMoved`).

Every step of the network thus is the hub's own, none of it, or its crash
(`RunsTheHub`), and the hub's five state invariants carry over (`HubStaysSound`).

**Pipe** (in `StreamProofs`). `Contents`: what an end has sent is numbered, and
the channel to the other holds the numbers that follow those it has read. Every
step then is a `Send`, a `Deliver` or a stutter of each `Stream`, whatever the
capacity.

**Tunnel** (in `StreamProofs`). A direction is five places in a row: a bounded
queue, two single buffers, two wires. `Chain` says how much of that row still
hangs together: what was delivered and what the first places hold always follow
each other without a gap; the places behind a goroutine that has stopped need
not, since nothing of theirs will come any more. The *depth* says which
places still do (`KeyboardDepth`, `ScreenDepth`); it never grows, and a step
that may lose a piece (a reset, a write that fails, a copier that stops) comes
with a smaller depth. One lemma per kind of move (`ChainFirst` to `ChainFourth`,
`ChainSend`, `ChainDeliver`, `ChainLess`, `ChainLost`) serves both directions,
and every action is one of these moves or leaves the row alone (`Still`). Both
refinements of `Stream` (`Streams`) follow, since what is delivered next is what
was sent next.

`ExecComplete` needs more: while the client of a command stays, *nothing* of the
output may be lost, at any depth (`AllOutput`). That rests on the order in which
the ends are given up (`Winding`): the agent does not close before its pump has
read the PTY to its end, no websocket is reset, and the copier towards the client
is the one that ends first, with its wire empty. `Endings` says who may have
ended and why, `After` what is known when the client has exited. What the hub
does in a session are steps of `Hub` (`SessionRunsTheHub`), from a state its own
invariant admits, so its properties hold here (`SessionKeepsTheHub`).

**Browser.** The types are proved in parts (`TypeParts`). `IInv` says that the
session the page holds has not ended (or never began, its key being bad) and,
short of a hasty click, is the only one alive (`Held`); that a connected session has its loop over `sendCh` as long as its
connection is open (`Written`); and that the keys a session has sent, followed by
those it is to send, are in the order they were typed and no other session's
(`Lines`). `KeysInOrder`, `KeptOnceConnected` and `OneSession` follow. `ScreenWhole` needs
the whole path of a message: `Chain` says, for each session, that what was shown,
what is queued, what a blocked callback holds and what the websocket has still
to deliver follow each other without a gap, and that a connection is closed only
after all of it, unless this side closed it. That is why the `select` of `ReadMsg`
loses nothing here, and may in a `Pipe`: the close is a task behind the messages,
and a task starts only when the reader has emptied the queue.

**Identity, Device.** `IInv` says that short of a race at most one process is
creating the file, that nobody runs while it does, and that the file then holds
what the others read. `DeviceImplementsIdentity` shows that anchoring leaves the
file alone, so the result holds in the composition.

`AuthorizedIsDevice` needs that no two keys have one DID (`OneKeyPerDID`): what
`base58Encode` puts out determines its input, given the length. The induction
over digits and bytes is done without the library's induction theorems, through
sets: a set of numbers that is not empty has a least element (`Least`, from
`WFMin`), so a set with 0 that is closed under successor has all of them
(`Induction`), and the recursive functions satisfy their equations (`Recursion`,
over sets of approximations). `DigitsDiffer` says that the digits determine the
number, `NumbersDiffer` that the number and the length determine the bytes, and
`EncodingsDiffer` that where the zeros end can be told, as the first digit is
never one. `DeviceInv` then adds to `IInv` that the registry says of each key what was
last said of it (`Standing`), and that what was printed is of the file
(`OfTheFile`).

**Operator.** `RunsWhatWasAsked` needs that the objects, and the copies of them
that workers hold, however old, are among what users applied (`Asked`).
`OwnerStays` is about a check and a write with a stale cache between them: the
reconciler looks in the cache for the other object's Deployment, and then writes.
It rests on `CaughtUp`: where the cache has nothing more to learn, it shows what
there is. A write goes through only there, so what was checked is what is written
over (`WriterOwns`).

**Only model-checked.** Liveness (`ShutdownEnds`, `SessionEnds`, `AttemptEnds`,
`AgentFreed`, `Heals`, `WindsDown`, `Settles`, `Converges`), which TLAPS does not
reach. Every other property of a passing run is a theorem.

## 5. Not modelled

* The cryptography, a library's: ideal here. Flags, logging, the wording of
  answers, static files, `/healthz`, the JSON forms of peers, sessions and
  documents, the terminal's raw mode and size.
* The deployment manifests and demo scripts, which have no behaviour of their own.
* `/status` reads three structures under three locks, and `/peers` sorts: each
  part is right for the moment it is read, and no more is promised.
* A crash of the hub or of the agent, or a broken link, in an established session:
  `Netso` has the crashes but no content, `Tunnel` the content but no crashes.
  `runExec` returns on any read error (`cmd/netso/main.go:186`), so a command whose
  output was cut off that way looks complete; `ExecComplete` says nothing of it.
* Frames that the websocket library has buffered and may still return after the
  hub has closed the socket. No property depends on them.
* Power loss, which may undo or reorder what was written; a second short write of
  a file that is already there.
* `listPeers` of the page, which only fills the list a key is pinned from.
* Of the operator: two of them at once during a rolling upgrade, objects of other
  names (they do not meet), the volume that is left over when
  `authorizedClientsSecret` is removed from a Peer, the status of an object that
  has lost the shared name, and a Peer whose `hubRef` is emptied: its agent
  stays, and `Converges` leaves it out.
