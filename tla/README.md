# A TLA+ model of go-tor

go-tor is a Tor client in Go: it builds circuits through three relays, keeps a
pool of them, and carries SOCKS5 connections and DNS queries over them; it can
reach and host onion services, and has a control port and a configuration that
is reloaded while it runs.  This directory models the client, checks it with TLC
on small instances and proves the main invariants with TLAPS for all of them.
Sources are named as under `src/pkg/`.

## 1. The system

SOCKS client onion services control client, file | accept loop (socks.go) | | |
takes a circuit (circuit_pool.go) | OnionClient ControlEvents | opens a stream
(stream.go) | OnionService ConfigReload | cells, windows (circuit.go) | replay
filter (cell/replay.go) circuit | built over a path (path.go, guards.go) of one
consensus (directory.go) | by CREATE2 and EXTEND2 (extension.go, builder.go)
connection to the first relay (connection.go, protocol.go, two pools)

The program is less connected than its packages: BuildCircuit adds hops without
CREATE2 and EXTEND2, and only tests call DeliverRelayCell, PerformHandshake,
the requests of extension.go, ConnectionPool, the circuit breaker and hot reload.
Each part is modelled as it is written and for the use it is written for; where
the program has a caller, the model has that caller's order of calls.

| component | state | operations | hard part | what makes it correct | module |
|---|---|---|---|---|---|
| flow control | package and deliver window, SENDME counters, receive queue | SendRelayCell, DeliverRelayCell, sendCircuitSendme, ReceiveRelayCell | a lock per counter, a goroutine per SENDME, a counter reset that forgets | no conforming cell refused, no stall, credits conserved | CircuitFlow |
| replay filter | next number, window of numbers, digests, per direction | ValidateAndTrack(Auto), GetNextSequence, Reset | numbers from three sources on one window, clean-up at its edge | a number at most once, a content not again inside the window, bounded memory | ReplayProtection |
| circuit registry, builders | id map, next id, circuit states and hops | CreateCircuit, CloseCircuit, Close, BuildCircuit | builds run step by step while others close; ids wrap | an id names its circuit, OPEN means three hops | CircuitManager |
| circuit pool, its users, start and stop | pooled circuits by isolation key, the mutex, the client's list | Get, Put, prebuild, Close; GetCircuit, maintenance, Start, Stop | the mutex is held through builds, the prebuild loop counts and puts under two locks, Start fails half-way | one owner, isolation, everyone answered, Stop ends | CircuitPool, CircuitIsolation |
| SOCKS connections and streams | tracked connections, two goroutines each, stream ids, left-over cells | acceptLoop, handleConnection, relayDataThroughCircuit, Shutdown, OpenStream, ReadFromStream, DNS queries | time-outs with late answers, goroutines that wait for each other | nothing leaks, data to its own client in order, Shutdown drains | SocksRelay |
| directory client | the relays of a document, the parser's current entry | FetchConsensus, parseConsensus | one authority after the other, malformed entries | what a selection may use | Consensus |
| path selection and guards | relays and guards in force, guard list, its file | UpdateConsensus, SelectPath, AddGuard, ConfirmGuard, Save, load | saves overlap, crashes, selections against updates | a path of one consensus, confirmed guards survive | PathSelection |
| connections to relays, two pools | TLS socket, state, entries, channel | Connect, ConnectWithRetry, Close, Get, Put, Remove, clean-ups | Close against Connect, an entry overwritten in use | one user each, nothing out of reach | Connection, ConnectionPool |
| link handshake, extension, relay cells | version, ephemeral key, digests, key streams | PerformHandshake, CreateFirstHop, ExtendCircuit, ProcessCreated2/Extended2, encryptForward, verifyRelayCellDigest | late, double and short answers, sends without any lock | keys of the latest request; the digests of the wire, which a run refutes | RelayLink |
| onion service host | introduction points, descriptor, what HSDirs hold | Start, Stop, maintenance, publishDescriptor | Stop does not stop the loop, restarts append | what is published is known | OnionService, OnionDescriptor |
| onion service client | descriptor cache, fetch attempts, rendezvous | ConnectToOnionService, fetchFromHSDir, DescriptorCache | any answer may be late, wrong or missing | gives up only after all, returns; meets before it says so, which a run refutes | OnionClient |
| configuration and its reload | configuration, modification time, callbacks | Load, Validate, StartWatcher, Reload, OnReload, Stop | callbacks outside the lock, stat after read | no change missed, callbacks and configuration agree | ConfigReload |
| control server | connections, subscriptions, events under way | accept loop, commands, SETEVENTS, Dispatch, Stop | a goroutine per event and subscriber | events as subscribed, Stop returns | ControlEvents |
| circuit breaker, retries | state, counters | Execute, ExecuteWithRetry, Reset, ForceOpen | a result arrives in another state | always decided; the documented limit, which a run refutes | CircuitBreaker |
| padding, health, metrics, tracing, logging, cryptographic primitives, adapters, commands | counters, or none | | | | left out (section 6) |

`PROJECT.json` lists each component with its status and reason, and under
`hazards` what is hard to test in each, at its line, with the properties that
would see it go wrong.

## 2. Modules

| module | what it is |
|---|---|
| `CircuitFlow` | the two windows of a circuit and its receive queue |
| `ReplayProtection` | the replay filter of a circuit |
| `RecentCells` | abstract: a memory of the last n cells, which the filter implements |
| `RememberedCells` | the filter next to its history, and the mapping to RecentCells |
| `CircuitManager` | ids, registry, concurrent builders |
| `CircuitIsolation` | isolation keys: levels, Key, Equals, Validate, the key of a request |
| `CircuitPool` | the pool, its users, the maintenance loop, Start and Stop; extends CircuitIsolation |
| `CircuitLeases` | abstract: a pool that lends circuits out, which CircuitPool implements |
| `LeasedCircuits` | the pool with the mapping to CircuitLeases: where each circuit is |
| `SocksStreams` | abstract: streams that are opened once, get data in order and end, which SocksRelay implements |
| `SocksRelay` | SOCKS connections, streams and queries over pooled circuits |
| `RelayedStreams` | the connections with the mapping to SocksStreams: how far each is, and its stream's name |
| `Consensus` | what the parser and the selector keep of a document |
| `PathSelection` | selector, guard list, state file, crashes; extends Consensus |
| `Connection` | connecting, retrying and closing TLS connections |
| `ConnectionPool` | the two pools of connections; extends Connection |
| `RelayLink` | handshake, extension and cells over a held connection; extends ConnectionPool |
| `OnionDescriptor` | the text of a descriptor and what is read back from it |
| `OnionService` | the host and its HSDirs; extends OnionDescriptor |
| `OnionClient` | the client next to that host; extends OnionService |
| `ConfigReload`, `ControlEvents`, `CircuitBreaker` | the services around the core |
| `MC...` | instances for TLC: model values, symmetry sets, first states, bounds, and sums of parts that do not interact |
| `...Proofs` | the theorems of a module; `OnionProofs` those of the three onion modules, `RelayLinkProofs` those of the pools too, `ServicesProofs` those of CircuitFlow, ConfigReload, ControlEvents and CircuitBreaker, which share no name |

The modules meet at stated interfaces.  SocksRelay takes from CircuitPool that a
pooled circuit is given to one connection at a time (`OnePlace`), and from
CircuitFlow the bounded queue that drops when it is full; CircuitPool takes a
build as a step that succeeds or fails in the end, which is `BuildSettles` of
CircuitManager; PathSelection reads documents as Consensus parses them, and
OnionClient fetches the text that OnionService has uploaded.

Some definitions are marked `Mutant`: slips of the kind such code suffers
(a dropped guard, an early return, a counter off by one).  Each property is
confirmed to fail when one of them replaces the definition it varies.

### CircuitFlow

A sender takes a credit (`decrementPackageWindow`), looks at the state
(`CheckOpen`) and sends (`SendCell`): three steps, since SendRelayCell holds no
lock between them, and a credit taken for a cell that is not sent is `wasted`,
as in the code.  The reader of the link runs DeliverRelayCell as `DeliverData`
(window and count under the lock), `CheckSendme` (a second lock), `PushCell`
(the queue, with its drop after 100 ms), or `DeliverSendme`.  Each SENDME that
CheckSendme decides on is a goroutine: `armed` counts those that have not run,
`CreditSendme` resets the count and credits the window, `CheckOpenSendme`,
`WireSendme` and `FailSendme` are its send.  The peer is external and follows
tor-spec 7.4, which is what makes "conforming" mean something.  The model has one
reader per circuit, the use the function is written for.

The reset sets the count to 0 instead of subtracting 100.  Cells counted between
a decision and its reset are forgotten, and SENDMEs fall behind one per 100
cells.  `NoStall`, `CreditFloor` and `PeerNotStarved` say why this does not stop
a circuit: credit is lost only to a reset that overtakes a check, one credit per
such reset, and an exhausted window always has a SENDME coming.

### ReplayProtection and RecentCells

One action per exported operation, each under the filter's single lock, with
callers free to mix explicit numbers, numbers from GetNextSequence and automatic
ones.  A digest is a model value.  `log` is history: what was accepted, with its
number and the number expected then.  As long as it is used the way a circuit
uses it, the filter implements RecentCells, a memory of the last WindowSize + 1
contents: the history variable `mixed` of RememberedCells says that a caller
has used a number of its own since the last Reset, and the mapping shows an empty
memory from there on.  So a content is accepted again once it has left that
memory: `ReplayOnlyPastWindow` gives the exact guarantee.

### CircuitManager

`CreateCircuit` is the first free id from nextID on, around the end of the id
space.  A Builder goes through `BuildCircuit`, `connectToRelay`, three `AddHop`
and `MarkOpen`; any close may come between two of them.  AddHop looks at the
state and MarkOpen does not, which is the shape of `LiveUnlessClosedLate`: a
build whose third hop is in place overwrites CLOSED by OPEN, also in a Manager
that has been closed.  `SetStateClosed` is the pool closing a circuit behind the
manager's back.  FAILED circuits stay in the registry, and a cancelled
CreateCircuitWithContext still registers its circuit; both are in the model, and
so is its error when the Manager is closed or no id is free (`ReturnCreated`).

### CircuitIsolation and CircuitPool

A key is its level and a field for each level; names and tokens stand for their
hashes.  `RequestKey` is what handleConnection makes of a request: the field of
the configured level if its flag is on, and no isolation at all if the key is not
valid.  Level "session" is always that case, since nothing gives a request a
token, and so is a request without a user name under "credential".

`mu` says who holds the pool's mutex, since it is held through a user's build.
Users are SOCKS handlers, which return their circuit, and `ApiUsers`, callers of
Client.GetCircuit, which need not.  The prebuild loop has its own steps for
counting, building and putting; `CheckCircuits` is the maintenance loop's pass.
Start is `StartPool`, then `StartServes`, or `StartFails` before there is a pool;
a Start whose servers fail later leaves the pool prebuilding with nobody to serve,
which the model has as a StartServes after which nobody is accepted.  Stop is
`Stop`, `CancelPool`, `ClosePool`, `CloseListed` in the code's order, and comes
after Start has returned, as main.go and simple.go call it.  `owner` is history:
whose traffic a user carries, where a RESOLVE request has an owner but asks
without a key, as handleResolve does.  `lent` is what GetCircuit's fallback has
taken from the client's list: it may be in other hands, and OnePlace and
IsolatedCircuitPrivate leave those circuits out.  The mode without a pool, in
which SOCKS refuses every request, is left out.

`CircuitLeases` is the same seen from outside: a circuit is with a user, with the
loop, in the pool, dropped or not made, and may be open.  It says what a caller of
the pool relies on: nobody else has the circuit one gets, it is open then, the
pool forgets only what is not open until it shuts, and does not hand out again
what it forgot or refused.  Keys and the mutex are no part of it.  `LeasedCircuits`
maps the state to it; what GetCircuit's fallback took counts as shared for good.

### SocksRelay

`Accept` and `TrackConn` are two steps, since Shutdown may run between them.  A
handler takes a circuit, creates its stream, sends BEGIN and waits for one cell;
then `up` and `down` are the goroutines of relayDataThroughCircuit.  `Leave` is the
deferred calls, in one step: each touches one structure that no other step reads
together with another.  Cells of the exit go straight to the queue or are dropped
when it is full; an exit acts at any time, so the delay of the network is its own.
Set-up waits have their time-out, after which the exit knows nothing and its cells
are left over for the next user of the circuit.  The write to the client has none
(socks.go:789): with a client that stops reading, `down` is `Stalled` in it until
the connection is closed, and what waits for `down` waits too.  Failed sends are
choices of the sending steps.  Circuits stay open here: a closed one is not put back
and CircuitPool covers it.

Stream ids wrap, and nothing checks that the next one is free.  After 65535
streams a left-over cell with a reused id cannot be told apart from the new
stream's.  `OwnDataInOrder` is stated for every user all the same: what a client
gets is of a stream with its circuit and id, each cell is got once over all
clients, and the cells of a stream come in the exit's order.

`SocksStreams` says the same seen from the clients: data is got
only between the opening of a stream and the end of its connection, only from
streams that had the same circuit and id, and each cell of an exit by one client,
once and in order, although connections take over circuits, ids and left-over
cells from one another.  `RelayedStreams` maps a connection to none, waiting, open
or ended, and names a stream by its circuit and id.  A DNS query waits and ends.

### Consensus and PathSelection

A document is its "r" and "s" lines; an "r" line with too few fields does not end
the entry before it, whose flags the next "s" line then replaces, as in
`parseConsensus`.  A selection holds the selector's read lock from the guard to
the last relay, the Save of a new guard included; `PathOfOneConsensus` says that
this is enough although the guard manager's lock is taken and left several times
on the way.  A Save is truncation, writing and renaming, and Saves overlap, since
they hold the guard manager's lock for reading; `Restart` is a crash or the end
of the process between any two of these.  The file is two names for numbered
contents, so that two Saves that share the temporary file are seen to do so, and
`torn` contents do not parse.  `acked` is what a Save that has returned has
promised.

### Connection, ConnectionPool and RelayLink

Connect is the steps a Close can fall between: the dial, the TLS handshake with
its checks, and the state set to OPEN whatever it is by then.  The two pools, one
under a mutex that is held through Connect and one a channel, share users and
connections.  RelayLink is what one user then does with its connection: the
handshake, in which a time-out leaves a goroutine in ReceiveCell that takes the
next cell and drops it; the requests, each of which replaces the ephemeral key;
and the relay cells.  Digests, keystream positions and keys are the numbers of the
cells or requests they stand for.

An answer is a request's number, whether the target made it, and its length field.
The response's end is a sum of 16 bits, so that 65534 passes the check against the
payload and the slice panics, after which nothing happens (`panicked`).  A request
to a target whose keys the client has not is made with zeros in their place, and an
answer verifies if it was made with what the request was made with: the target's
keys, or the zeros, with which anybody can answer (`Verifies`).  `KeysAgree`
promises the target's answer only to requests with the target's keys.  The keys
themselves are thrown away by ProcessCreated2 and ProcessExtended2; that a caller
of SetCryptoState has to bring its own is not modelled.

SendRelayCell is a read and a write of the digest, a read and a write of each
cipher's place, and the sending: none of the three has a lock over it, and hash and
ciphers have none of their own.  Two writes that nothing orders leave one of the
two or neither's (`Written`, `Mixed`), which is the data race of the code.  A send
that fails after its digest leaves the digest ahead of the wire.

### OnionDescriptor, OnionService and OnionClient

A descriptor's text is its lines, because what ParseDescriptor reads back is not
what EncodeDescriptor was given.  Each Start goes on as its maintenance loop with
the context that was given to Start; Stop cancels another one, so that a loop
outlives Stop and a second Start runs next to it, on the same list without the
lock.  The upload itself is simulated in the code (a wait of 10 ms and a log line,
service.go:543-563): `Upload` is what it stands for, and that an HSDir keeps the
highest revision is the model's.

The client makes one call at a time: cache, fetch with replicas and attempts,
introduction, rendezvous.  Any answer may come late, be of the wrong kind, or not
come; the context may be cancelled at any moment.  Any relay cell may come on the
rendezvous circuit: what was asked for, late or without data, or what nobody asked
for (`OtherArrives`: DROP, TRUNCATED, END, a duplicate).  The waits look at no
command; only a cell without data fails the wait for RENDEZVOUS2.  A relay passes
an INTRODUCE1 on to the service whose key it names, and HandleIntroduce2 then
notes it and looks at no key (service.go:597-632).

### ConfigReload, ControlEvents and CircuitBreaker

A reload is the watcher's or a caller's: stat and read of the file, then
applyConfig's two halves with the callbacks between them.  Loading applies the
file's lines in order to the defaults, and Validate refuses what the code
refuses; seven options stand for the kinds there are.  `hidden` and `torn` are
history and name what the code cannot see: a change with an older time or during
a Reload, and reloads that overlapped.

A control connection is its handler with the command loop, and each event is a
goroutine per subscriber (`flying`), which writes when it gets to it.  The greeting
of a new connection (control.go:181), a few bytes into an empty socket, is taken
to return at once and is part of `Register`.  A SETEVENTS does not wait for events
under way: one that is no longer asked for may be written after its confirmation,
and `EventsAsSubscribed` says that only one from before it is.

The breaker's Execute is a decision and a recording under the mutex, with the
call between them.  `probe` and `letThrough` are history: the call that made the
breaker half-open and those it let through since.  A call that panics leaves
Execute without afterRequest (breaker.go:110-114), the panic going on to Execute's
caller; it is left out, as no function in the program is called through a breaker.

## 3. Runs

| run | instance | shows |
|---|---|---|
| `services` | flow: 2 senders, windows of 3, SENDME every 2, queue of 1, 5 cells out and 7 in; reload: the watcher, a caller and a file that changes twice; control: a connection and 2 types of events; breaker: 3 callers | no conforming cell refused, no stall, bounded loss, credits conserved, both windows reopen; no change missed, callbacks agree; events as subscribed, Stop returns; a half-open breaker is being tried |
| `breaker_limit` | the same | violation: a half-open breaker lets one more through than its limit |
| `replay_paths` | filter: callers mix all operations, 4 contents, window of 2, numbers to 7, 5 cells; paths: 2 builders, 3 relays, 2 authorities, 1 guard, crashes anywhere | a number once, a content once in the window, bounded memory, the filter implements RecentCells; saved guards survive, a path is of one consensus, confirmed guards are kept |
| `manager_host` | manager: 2 builders, a cancellable creator, 3 circuits, 2 ids; host: 2 Starts with their loops, 1 HSDir, 2 seconds | ids name their circuits, no entry overwritten, builds notice closes, builds settle; what is published is known |
| `pool` | a SOCKS and an API user, 2 requests of which one has a name, 2 circuits, pool of 1, Start to Stop | one owner, isolation, listed until Stop, everyone answered, Stop finishes |
| `socks` | 2 connections, 1 circuit, queue of 2, 2 ids, 2 data each; also from a state where ids have wrapped | nothing leaks, own data in order with left-over cells of the same id; Shutdown drains and END ends the connection, unless its client has stopped reading |
| `socks_resolve` | the same | violation: a late answer goes to the next query |
| `onion_client` | 2 HSDirs, 2 attempts, a service that publishes meanwhile, cells nobody asked for | gives up only after all, every call returns |
| `onion_rendezvous` | the same | violation: connected without a RENDEZVOUS2 |
| `link` | 2 users, 3 connections, both pools; then a handshake twice, 2 requests, 1 cell, 1 sender | connections accounted for, keys of the latest request |
| `link_forward` | as `link`, with 3 cells and 2 senders | violation: digests and keystream out of step with the wire |
| `link_versions` | the same | violation: every VERSIONS answer is refused |

Bounds are named in the modules.  They are small but past each turning point:
windows run out and reopen more than once within MaxIn and MaxOut and both
counters pass the increment twice; the queue fills; ids wrap and a search has to
skip a taken one; the pool is full and empty, and every circuit may be in use, so
that a build fails; a user finds another's circuit and another's cells; every
close comes between every two steps of a build; Saves overlap, and a crash leaves
each stage of one; a connection is replaced in the pool while it is in use; a
file changes during a reload and again before the next.  The number of actors is
two wherever the code is symmetric in them; the breaker has three, so that the
third finds it half-open after two.

Parts that do not interact share a run as a sum (MCServices, MCReplayAndPaths,
MCManagerAndHost, and `OneAtATime` in MCRelayLink): each is explored with the
others at their start, where nothing of one could tell the others' states apart.
The sums and instances add bounds of their own.  In MCServices the others move
while there is no file (`ReloadAside`), and nobody calls Reload once Stop has been
called (`NoReloadAfterStop`); in MCManagerAndHost the first publisher to start is
p1, which is symmetry; in MCReplayAndPaths contents are taken in one order
(`TakenInOrder`), which is symmetry too.  MCSocksRelay begins in Init or in
`WrappedInit`, a state that 65535 streams lead to: the ids have wrapped and 1 is
the next one again, a handler that had it left when its wait for CONNECTED timed
out, and its exit has that stream open and goes on sending; so one id has two
streams on one circuit, which counting up to the wrap-around would not reach within
two connections.  MCOnionClient has the host publish once (`PublishesOnce`), and cells
that nobody asked for only in calls that found the descriptor in the cache
(`OthersWhenCached`): from there on the calls are the same.

Deadlock is not checked: every instance has bounded work and
ends, and a circuit, a client or a server may simply stop being used.  Liveness
properties are there to say what must not stop.

Five differences between the code and what it says of itself are runs that expect
a violation, with the quotations under `findings`: queries without an identity
(`socks_resolve`), a rendezvous that takes any cell for RENDEZVOUS2
(`onion_rendezvous`), relay cells sent under no lock (`link_forward`), VERSIONS of
fixed length (`link_versions`), and the probe that a half-open breaker does not
count (`breaker_limit`).  Others are in the models, as exceptions that the
properties name or as behaviour they allow:

* A SOCKS handler returns its circuit after the relay has ended, and the relay
  waits for both directions: a client that has left keeps its circuit until the
  exit ends the stream too (socks.go:387, 776).
* A build overwrites CLOSED by OPEN, also after Manager.Close.
* Session isolation never gets a token and falls back to none (socks.go:323-351);
  DNS queries have no isolation key at all.
* Two Saves share the temporary file, and can leave one that does not parse
  (guards.go:106).  AddGuard confirms an entry that another selection has added
  meanwhile, although nobody has used it (guards.go:150, 192).  A malformed entry
  is not skipped: its flags go to the relay before it (directory.go:194).
* Reloading takes options that a file leaves out from the defaults, not from what
  is in force: pool sizes and flags return to their defaults
  (docs/HOT_RELOAD.md:37-60); default ports are those that are still free.
* The read deadline of 30 seconds also ends a control connection that only
  listens to events (control.go:191).
* SendRelayCell puts in a cell the digest that includes it, as circuit.go:416
  says, and verifyRelayCellDigest compares with the digest without it: a relay
  that digests as this client does is never heard (circuit.go:651 against 416 and
  630; `relayFirst` in DeliverRelayCell).
* An answer with the length 65534 or 65535 passes the check for an incomplete
  payload, because the sum has 16 bits, and the slice panics
  (extension.go:340-345, 401-406; `panicked` in ProcessAnswer).
* ProcessCreated2 and ProcessExtended2 accept an answer of anybody when the target
  has no keys in the consensus (extension.go:146-152).
* A connection accepted before Shutdown and tracked after it is not closed by it;
  with a client that never takes its data, it is not ended either (socks.go:789).
* receiveVersions leaves a goroutine behind, which takes a cell from the next
  attempt.

### Fairness

Only what the Go scheduler and time-outs give.  CircuitFlow: each goroutine that can
run does; for `PackageWindowReopens` and `PeerNotStarved` the peer keeps to tor-spec
and the reader keeps reading, which the properties name as their exceptions when a
send fails or the circuit closes.  CircuitManager: a builder that can step does,
since connecting has its own time-out.  CircuitPool: strong fairness for steps that
take the mutex, because sync.Mutex hands itself to a waiter that has been passed
over; builds end; nobody has to return a circuit, to start the client or to call
Stop.  SocksRelay: goroutines that can run do and set-up waits time out; strong
fairness for the select that sees a cancelled context, since select picks at random;
reading the client and writing to it are only sure to end when the connection is not
open, and what rests on a write to an open one says so (`TakesItsData`); nothing
else is assumed of clients, exits or of whoever stops the server.  OnionClient: the
call runs and its timers fire; no HSDir and no relay has to answer.  ControlEvents:
the accept loop, the handlers and Stop run; what clients send and whether they read
is not relied on.

## 4. Proofs

All proofs are for arbitrary values of the constants under the named ASSUMEs of the
modules, whose only content is that sizes are naturals of the right order, that None
values are outside the sets, that a configuration and a request have the fields they
have in the code, that no user is called like a place, and that sets that are
counted are finite (`BuildersAssumption` of PathSelection: a new file gets a number
that no name and no writer has, which infinitely many writers could use up).  Bounds
such as MaxIn or MaxCells are arbitrary naturals in the proofs.

Every invariant of section 3's passing runs is a theorem, and so are the action
properties and the refinements of RecentCells, CircuitLeases and SocksStreams.  Each
inductive invariant was first checked by TLC on the module's run, and so were the
second and the third refinement, with the quantifier over Nat in SocksStreams
bounded.

* `ServicesProofs`, flow control: TypeOK, NoStall, CreditFloor,
  NoConformingCellRefused, PackageCreditsConserved, NeverOverrunsPeer.  NoStall is
  not inductive: it needs CreditFloor's accounting of waiting cells, armed
  goroutines and overtaken resets, and NoConformingCellRefused needs the ledger
  that ties the window to the SENDMEs by stage (decided, credited, wired, lost)
  and to the peer's window.  Conservation counts senders that hold a credit, a
  finite set that each step changes by one element.
* `ServicesProofs`, the services: HalfOpenIsTried and OneAboveLimit, the bound that
  the breaker keeps instead of its documented one, where HalfOpenCounted says that
  all that were let through are still calling and that the counter is one short of
  their number.  CallbacksAgree needs that a reload that has met no other is alone
  (AloneUnlessMet), and which callbacks have been told what by a reload that is
  still calling them (ToldByWhom).  NoChangeMissed needs, for each step of a reload,
  that what it has read so far leads to the file's content, or that the watcher will
  keep a time that is too early (SeenInTime).  EventsAsSubscribed needs that between
  two commands the dispatcher has what the connection wants (FlightsWanted), and
  that each event under way comes after what was written, unless both were under way
  together (InTurn).
* `ReplayProtectionProofs`: TypeOK, SequenceAcceptedOnce, ReplayOnlyPastWindow,
  FreshCellAccepted, MemoryBounded.  The invariant relates the log to the window:
  every accepted number is below the next one and is either tracked or too old,
  and every digest in memory belongs to the latest acceptance of its content.
  ImplementsRecentCells rests on WindowIsFull: a filter used as a circuit uses it
  tracks exactly the last WindowSize + 1 numbers, each with a content, so that
  the mapping counts and chooses what is there.  Every step is then an Accept, a
  Forget, or none.
* `CircuitManagerProofs`: TypeOK, IdNamesItsCircuit, OpenHasThreeHops,
  LiveUnlessClosedLate and the action property EntryNeverOverwritten.  The
  invariant adds that builders own different circuits (Owned), how far each has
  got (Progress), that unmade circuits are registered nowhere (Fresh) and that a
  made circuit has an id (HasId).
* `CircuitPoolProofs`: first the keys, for any names, targets, ports and flags: Key
  finds the same pool for two keys exactly when Equals says they are equal, and
  two requests that share an isolated pool agree on what the level isolates.
  IsolatedCircuitPrivate by itself says nothing of pooled circuits: PoolInv adds
  that a pool holds the circuits of its key (PooledByKey), that users want the
  key of their own request (WantsOwnKey) and hold what they want (HoldsWanted),
  and, so that a circuit gets its key once, that circuits in use, pooled or listed
  are built (OthersFinished) and builders have different ones (BuildersApart).
  The theorem about keys then leads from key to request.  OnePlace needs PlaceInv:
  a circuit that was not lent is once in a pool, or with one user, or with the
  prebuild loop, and who has one is building or using it.  OpenIsListed
  follows with PoolInv, since a circuit opens in the step that lists it.
  ImplementsLeases says over steps what OnePlace says of states.  Place maps a
  circuit to its user, the loop, the pool, or nowhere; that it has one value rests
  on PlaceInv (PlacesKnown), that a failed build gives up what was its own on
  BuildersApart, and that nothing lent is under construction on LentFinished.  A
  step moves one circuit at most, and the pool lets go of those it found closed
  (MayLeavePool); a Get that reads past them is one Take.
* `SocksRelayProofs`: NothingLeaks from what each place of a handler entails
  (HandlersTyped), that a circuit is pooled exactly when no handler holds it, and
  that a registered stream is its handler's.  OwnDataInOrder needs the order
  of everything on its way, stream by stream: what is queued was sent later than
  what is held or was written (QueuedInOrder, HeldInOrder, GotInOrder), and all
  of it is of streams with this circuit and id.  That a cell is got once over all
  clients (GotOnce) needs that what is about to be written is newer than what
  anyone has got of that stream (NewestHeld), because two who write the data of
  one stream would hold its circuit together (OneWriter).  ImplementsStreams
  rests on the same, and on SidsGiven, which says from when on a stream has a
  name, so that taking a circuit renames none.
* `PathSelectionProofs`: ConfirmedGuardKept and PathOfOneConsensus, and
  SavedGuardSurvives from what the Saves under way will rename over the state
  file: all write the list in force, `.tmp` and the file never name one content,
  and a writer that no other has overlapped has `.tmp` to itself (SavesInv).
* `RelayLinkProofs`: ConnectionsAccountedFor needs that a connection has one
  holder, that Close closes what is set, that a Get holds the mutex through its
  Connect and meanwhile there is no idle entry to overwrite, and that what a user
  lost was replaced or closed (PoolsInv).  KeysAgree, an action property, needs
  that the ephemeral key is the latest ntor request's, remembers whether that had
  the target's keys, and has given no keys yet (KeysInv).
* `OnionProofs`: PublishedPointsKnown is about texts.  PointsText and Parsed are
  functions that recurse over lines, and what they compute cannot be proved by
  the library's induction; but InOrder, which says what may follow each line, is
  local to a line and its successor, so that joining texts keeps it, and that
  Parsed reads only listed points from a text in order is shown from the least
  line at which it would not.  HostInv then says where such texts and what they
  are made of can be (DraftsAreOurs, DescriptorIsOurs, StoredAreOurs), and all of
  it falls away once two Starts have overlapped.  The theorem is about
  ServiceSpec, and HostIsItself carries it to the host next to a client.
  GivesUpOnlyAfterAll needs that an ask has failed exactly when the fetch has
  passed it (RefusedSoFar).

FreshCellAccepted and OpenHasThreeHops are proved, and no run repeats them.

Only model-checked: all liveness (the reopening windows, BuildSettles, that
everyone is answered and that Stop, Shutdown and calls end), which is out of the
prover's reach, and with it anything that needs ENABLED; that the documents
Consensus parses are what the authority meant, beyond the relays being of the
consensus; and the five runs that expect a violation, which need a behaviour and
no proof.

## 5. Plan

In the order of what they would add:

1. An abstract specification of a connection pool as a set of leases, which
   ConnectionPool implements.
2. The address and certificate checks of onion services, when the program calls
   them.

## 6. Not modelled, and why

* Cryptography, hashes, base64 and base32 and the layout of cells: pure functions
  on bytes, left to tests.  Where a result decides, it is a choice of the model.
* NETINFO and what follows VERSIONS: no call reaches it (`link_versions`).
* Padding of a circuit, health, metrics, tracing, logging: counters and observers.
* simple.go, commands, examples, benchmarks, the adapters for net/http and bine,
  the JSON schema of the configuration and its validator: they call the parts
  above or describe them a second time.
* Time as a quantity: each time-out is a step that may come at any moment, and
  the length of a backoff is left out: ConnectWithRetry's delay overflows from the
  29th attempt on (retry.go:108), which no test or default comes near.
