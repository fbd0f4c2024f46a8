# radius-tokio in TLA+

A verification project for `radius-tokio`, an asynchronous RADIUS server and
client library in Rust (UDP and RADIUS/TLS), with an EAP server crate and a
dictionary compiler beside it. The modules follow a packet all the way: the
octets and their readers, builders and seals, the stores and the pipeline, the
tasks of the server, the outgoing clients, the TLS stream below them, EAP
conversations and methods, and the dictionaries all of it is compiled with.
Paths below are relative to the repository.

## 1. Inventory

### Components, their state and their operations

| Component | Source | State it keeps | Operations |
|---|---|---|---|
| Server runtime | `src/server/runtime.rs` | listener tasks in a `JoinSet`, first error, shutdown watch | bind, spawn, join, shut down, drop of `run` |
| UDP listener | `src/server/udp.rs` | packet tasks in a `JoinSet` | receive, admit by source, spawn, drain |
| RadSec listener | `src/server/radsec.rs` | detached connection tasks, `ConnectionRegistry` | accept, admit, handshake, authorize, register, frame loop, `close_for` |
| Packet pipeline | `src/server/pipeline.rs`, `role.rs`, `status.rs` | none of its own | validate, role filter, dispatch, Status-Server responder |
| Duplicate detection | `src/server/dedup.rs` | replies with deadlines and their index; in-flight gates by weak reference | `lookup`, `lock_request`, `insert`, gate cleanup |
| Client cache | `src/server/cache.rs` | resolved and pending slots, deadline index, broadcast channels | `lookup_udp`, `invalidate`, `clear`, `PendingLookup::drop` |
| Stores, clients | `src/server/store.rs`, `client.rs` | client records, CIDR table in insertion order | build, `lookup_udp`, `admit_radsec`, `lookup_radsec` |
| Handlers, routing | `src/server/handler.rs`, `router.rs`, `accounting.rs` | the slots of a router | wire, route, reply, mock |
| Exchange registry | `src/exchange.rs`, `codec/response.rs` | per peer: next identifier, pending exchanges; closed flag | `register`, `deliver`, `close`, `Lease::drop` |
| UDP client | `src/transport/udp.rs` | the registry, a reader task | `send_with` with retransmission, reader, drop |
| RadSec client | `src/client/radsec.rs` | the registry, a bounded command channel, a driver task | `send`, `close`, driver loop, drop |
| CoA originator | `src/server/coa.rs` | a UDP client | send CoA or Disconnect, classify the answer, helpers of the answering side |
| TLS stream | `src/transport/tls.rs` | partial frame, deadline, unflushed ciphertext | `FrameReader::read`, `write_all`, key updates, shutdown |
| Codec | `src/codec/`, `radius-tokio-dict/src/typed.rs` | a packet buffer | parse, walk, encode, seal, verify, dissect |
| Passwords and challenges | `src/auth/`, `src/crypto/password.rs`, `mppe.rs` | none | hide, reveal, verify |
| EAP sessions and handlers | `crates/radius-tokio-eap/src/session.rs`, `handler.rs`, `router.rs` | sessions with idle deadlines; EAP identifiers; tried methods | take, insert, evict, start, step, Nak |
| EAP framing and tunnel | `.../framing.rs`, `tls_tunnel.rs` | fragments of a TLS flight | push, take, fragment, refill |
| EAP methods | `.../eap_*.rs`, `peap.rs`, `mschapv2.rs`, `inner.rs` | phase of the conversation | start, step |
| Dictionaries and generator | `crates/radius-tokio-dict*` | tables, generated files | parse, generate, build, look up |
| Digests, ciphers, certificates, TLS contexts | `src/crypto/` | library handles | bindings |
| Observability | `src/obs.rs` | counters | none that decide anything |

### How they interact

`Server::run` spawns a listener per bound address. A UDP listener asks the
`ClientStore` (often a `CachedStore`, shared by all listeners) about the source
of each datagram and spawns a packet task; a RadSec listener spawns a detached
task per connection, which authorizes the peer's certificate, registers in the
`ConnectionRegistry` and processes one frame at a time. Both run the same
pipeline: `validate`, role filter, then `dispatch_validated`, which consults the
listener's `DedupCache`, takes the request's gate, and runs the handler or the
Status-Server responder. An EAP handler takes its session out of a store for the
time of a round, and gives it to a method, which for three of them drives a TLS
engine through fragments. Outgoing requests go through a `Registry` shared by
the callers and one reader or driver task; callers hold `Lease`s on identifiers.
Accessors, builders and the dissector interpret the same octets, with handles
and tables that the dictionary build has generated.

### What is hard about it

Every hazard is listed with its line in `PROJECT.json`. In short:

* *two tasks and a stale decision*: duplicates that miss the cache before the
  first copy is answered; a gate that is destroyed while the next request
  registers a new one; resolver and waiters of a cache slot; revocation between
  authorization and registration; two responses under one EAP State;
* *cancellation anywhere*: a future dropped at an `await` runs destructors that
  must withdraw exactly what that future had put in shared state (gates,
  pending slots, leases shared with queued commands); a read dropped in the
  middle of a frame and a flush in the middle of its output;
* *the network*: late and duplicated responses to identifiers that were reused,
  proofs of one conversation replayed in another;
* *endings*: a reader or driver that fails with calls in progress, listeners
  that fail or panic, shutdown and drain, a peer that stops reading, methods
  that a peer declines one after the other;
* *limits*: identifier wrap-around, capacity full of pending slots, a command
  channel that abandoned calls fill, flights that are a multiple of a frame;
* *several pieces of code for one thing*: some ten walks of the attribute
  region, two fragmenters, sender and receiver halves of every encoding, three
  lookups in one table.

## 2. The modules

| Module | Models | With |
|---|---|---|
| `Dedup` | `DedupCache` and the tasks in `dispatch_validated` | `ReplyOnce`: what it promises (the mapping is at the end of `Dedup`); `DedupProofs` |
| `ClientCache` | `CachedStore` | `ClientCacheProofs` |
| `Server` | `run`, listeners, packet tasks, connections, revocation | `ServerProofs` |
| `Pipeline` | decisions about one packet, as operators | `PacketPath`: the order in which both transports take them; proofs in `ServerProofs` |
| `Dispatch` | routers, `Request` as a handler sees it, mock requests, behind `Pipeline` | proofs in `ServerProofs` |
| `ClientStores` | client builder, CIDR table, the three lookups | proofs in `ClientCacheProofs` |
| `Exchange` | the registry and `Response::verify`, as operators | `UdpClient`, `RadsecClient`, `DynAuth`; `ExchangeProofs`: lemmas about the operators |
| `UdpClient` | calls, reader and an unreliable network | `UdpClientProofs` |
| `RadsecClient` | calls, closers and driver | `RadsecClientProofs` |
| `DynAuth` | the CoA originator, the network and the NAS end to end | proofs in `UdpClientProofs` |
| `TlsStream` | `AsyncTls` and `FrameReader` between a driver and a socket | `TlsStreamProofs` |
| `WireTypes` | wire types of values, as operators | `TypedValues`: a value from sender to receiver |
| `Attributes` | header and attribute region with all its readers, as operators | `AttributeWalk`: the iterator call by call; `Dissect`: the dissector |
| `Packets` | `PacketBuffer`, `Reply`, `Request`, seals and verification, as operators | `PacketBuilder`: a packet from builder to receiver; `EapWire`: EAP packets in attributes |
| `Credentials` | hiding of passwords and keys; PAP, CHAP, MS-CHAP over a growing attribute list | |
| `EapSession` | session store, both handlers, Nak negotiation | `EapSessionProofs` |
| `Framing` | frames, `Fragmenter`, `Reassembler`, the tunnel's own emitter | `FramePipe`: one direction of a conversation; proofs in `EapSessionProofs` |
| `TunnelMethods` | the tunnel; EAP-TLS, EAP-TTLS, PEAP; a conversation with a peer | proofs in `RadsecClientProofs` |
| `PasswordMethods` | EAP-MD5, MSCHAPv2 inside and outside a tunnel | `PasswordRounds`: conversations with replays; proofs in `EapSessionProofs` |
| `DictParser` | the parser with its include stack | |
| `DictBuild` | handles, lookups and enumerators that are generated; the build script, cargo and the registry | proofs of the builds in `ClientCacheProofs` |
| `MC*` | instances for TLC, and the conjunctions that the runs check | |

An `MC` module with several components is their sum: the variable `part` says
which of them a behaviour is about, `Parts` in the configuration which ones a run
covers, and all variables of the others stay as they are (at their initial
values, or at `None`). A component's actions, invariants and fairness are used
as its module states them. The assumptions on the constants of an instantiated
component are `ASSUME`d by the `MC` module. So a run with ten parts is ten
checks of ten components with their own bounds, never a weaker check of any.

### Dedup

A task is one validated packet inside `dispatch_validated`; `pc` says between
which two critical sections it is. Each region under a `std::sync::Mutex` is
one action: `Lookup` and `Recheck` (`lookup`, which forgets an expired entry),
`Reserve` (`lock_request` up to the `await`), `Reply` (`insert` with its bounded
eviction), `Cleanup` (`RequestCleanup::drop`). Releasing a reservation takes
three steps, because that is how the guard is dropped: `Unlock` (the tokio
mutex), `DropArc` (the strong count), and `Cleanup` when the count fell to
zero. Between the last two, `Weak::upgrade` already fails and another task may
register a new gate for the key; `in_flight` is compared by address, and an
address is reused only when neither a strong nor a weak reference names it.
`Cancel` is an abort or a panic. Keys and replies are opaque.

### ClientCache and ClientStores

`Begin` samples the clock before the lock; `Hit`, `Wait`, `Miss` are the results
of `CacheState::action`; `BackendRead`, `Fetched`, `Store`, `Broadcast`,
`Withdraw`, `Close` follow a resolver to the drop of its last sender. The answer
of the wrapped store is a version number (odd versions stand for an unknown
client), so that staleness is visible; `floor` and `since` are history that
state what an invalidation entitles later lookups to. `ClientStores` has
addresses of a few bits, with the masks computed by shifts as in the code.

### Exchange, UdpClient, RadsecClient, DynAuth

A packet is its identifier, code and Request Authenticator. Authenticators of
Access-Request and Status-Server are random and hence fresh; those of the other
codes are digests over the packet, so a repeated request may repeat its
authenticator, and requests of two codes never share one. In
`UdpClient` a response to anything ever sent may reach the reader at any time,
any number of times or never, which is loss, delay, duplication and reordering.
`RadsecClient` tracks who still holds a lease: the `send` future, the queue, or
the driver; `Drops` releases the identifiers nobody holds after a step. The
future is polled before its timer, as `tokio::time::timeout` does, so an answer
that is there wins over the deadline. `DynAuth` puts a NAS with its reply cache
at the other end, so that an identical request under a reused identifier is a
duplicate to it.

### Pipeline, PacketPath, Dispatch

A packet is what the decisions can tell apart: whether the header parses, its
code, whether its digest verifies, whether its Message-Authenticator is valid,
absent or invalid, and whether it carries EAP. Here digests are verdicts; in
`Packets` they are terms over what they cover.

### Server

`Bind`, `BindFails`, `Join`, `Return`, `RunDropped` are `Server::run`; when it is
cut short, its `JoinSet` aborts the listeners (`Aborted`) at their next `await`,
and theirs abort the packet tasks. Listeners see shutdown first because their
`select!` is biased. Connections go from `handshake` through `authorizing` and
`authorized` to the frame loop (`select`, `processing`, `writing`) and `closing`.
`RemoveClient` followed by `CloseFor` is a revocation as the documentation
describes it. `late` and `revoked` are history.

### TlsStream

Octets and key updates go from the peer through the socket, the input buffer of
the TLS connection and the partial frame of the reader; each `await` of a read
or a flush is a point where the future may be dropped. `peer`, `delivered`,
`produced` and `quiet` are what the properties compare with.

### The octets

`Attributes` and `Packets` work on sequences of small integers with the lengths
of the code's fields as constants (a header of four octets, a tag of one), so
that every boundary occurs in a region of a few octets. Digests, hidden blocks
and authenticators are terms: two are equal exactly when their inputs are.
Recursion over octets is by recursive functions or folds.

### EAP

In `EapSession` a round is between `take` and `insert` while its method runs; a
session is what the handler knows of it, `issued` and `who` are history. In
`TunnelMethods` the engine is external: flights of given lengths, TLS 1.2 or 1.3,
application data behind them. Bytes are numbered, so that one that is sent
twice, lost or moved shows.

### Dictionaries

`DictParser` reads a line per step, with the recursion over included files as a
stack of frames and the one vendor stack they share. `DictBuild` keeps what is on
disk between builds: sources, manifests, generated files, and the program.

## 3. The runs

The passing runs together fire every action. A property of a run is a
conjunction of what its components state; the parts have comments of their own
at their definitions. Each property has a mutant of the code, in
`PROJECT.json`, that violates it.

| Run | Property | Its parts |
|---|---|---|
| `dedup` | `HandlerExclusion` | one handler at a time per request |
| | `NoGateLeak` | the in-flight map does not grow |
| | `LiveReplyKept` | a cached reply is neither lost nor changed during its TTL |
| | `ImplementsReplyOnce` | all of it together, as refinement |
| | `QueueEnds` | nobody waits for ever behind a gate |
| `client_cache` | `SingleFlight`, `FreshAfterInvalidate`, `EveryLookupEnds` | |
| | `EvictionSound` | types, exact index, capacity |
| `clients` | `IdsExact` | UDP identifiers are exclusive, all come back, and keep the limit |
| | `CallsToldRight` | types, `AnswersOwnRequest`, `ClosedTellsAll` |
| | `ClientsEnd` | UDP calls end, RadSec leases return, `close` returns in time |
| `server` | `RegistryExact`, `AtMostOneLateFrame`, `UdpDrained`, `ErrorReported` | |
| | `ServerEnds` | `RunReturns`, `ListenersEnd`, `SignalledEnds` |
| | `StreamIntact` | of the stream: types, `NothingLost`, `OutputExact`, `FramesWhole`, `NoStarvation`, `ClosedClean`, `IdleExact` |
| | `Served` | a frame the socket has reaches its driver |
| `request` | `RightlyDispatched` | `OnlyProvenDispatched`, `HandlerSeesItsRole`, `ProbesAnswered`; `RightHandler`, `StatusIsFirst`, `MockIsLive` |
| | `CodecRoundTrip` | `RoundTrip`, `Canonical`; `ReadsBack`; `EapThrough`, `ParsedIsPrefix` |
| | `ReadersAgree` | `WalkExact`, `Fused`, `ReadersAgree`, `FoundIsPresent`, `RealmSplits`; `Tiles`, `AgreesWithDecode` |
| | `SealsExact` | `SealedVerifies`, `AlteredRefused`, `PasswordReadable`, `SaltsDiffer` |
| | `CredentialsExact` | `PapExact`, `ChapExact`, `V1Exact`, `V2Mutual`, `MppeReadsBack` |
| | `StoresAgree` | `CoversItsPrefix`, `LongestPrefixWins`, `AdmittedHaveClients` |
| | `CoaExact` | types, `OutcomeIsVerdict`, `HandledOnce`, `HelpersVerify` |
| | `StepsSafe` | action properties: `FailureLeavesNothing`, `CursorsMove` |
| `eap_session` | `SessionsExact` | types, `TableExact`, `OneOwner`, `Linear` |
| | `NegotiationSound` | `BoundToIdentity`, `OfferedOnce` |
| | `OnlyEarliestEvicted` | action property |
| `over_tls` | `LeasesSound` | of the RadSec client: types, `LeasesExact` (identifiers in use are those of held leases), `RoomForEveryCall` (only close commands can fill the channel) |
| | `EndedTellsAll` | no call waits for a driver that has gone |
| | `FramesExact` | `RoundTrip`, `TunnelCutsAlike`, `BufferBounded`, `NothingLeaks` |
| | `StreamExact` | EAP-TLS in any fragments; EAP-TTLS and PEAP in flights of one frame |
| | `OnlyEarnedSuccess` | `AcceptsFreshProof`, `AnnouncedFirst`, `OneTry`; `SuccessEarned`, `NotPiggybacked` |
| | `HonestEnds` | conversations with a peer that follows the protocol end as they should |
| `dict` | `ParseExact` | types, `InclusionIsTextual`, `OwnedByItsBlock`, `ErrorNamesItsPlace` |
| | `TablesExact` | `LookupIsFirst`, `ReadsAsShown`, `HandleParents`, `ValueNamesRoundTrip` |
| | `BuildsFresh` | types, `Fresh`, `EveryVendorHasFeatures` |
| | `Ends` | the parser returns |

Four runs are expected to fail, and the findings in `PROJECT.json` quote what
they contradict:

* `server_revoke_doc`: a connection that was authorized but not yet registered
  escapes `close_connections_for`;
* `tunnel_refill_doc`: with EAP-TTLS and PEAP a flight longer than the frame size
  never gets past its first fragment, because every round sets `tx_offset` to 0;
* `dict_groups_doc`: the registry does not ask two groups that are compiled in,
  because they are missing from its list;
* `reply_optout_doc`: `without_message_authenticator`, called after attributes
  were added, truncates them all (`encode.rs:172`) where it says that it discards
  the placeholder. `asked` and `eap` remember everything that was added and
  `emptied` how much of it an opt-out took: `CodecRoundTrip` is about what was
  added since, the run about all of it.

### Bounds, and why they are enough

* `dedup`: two tasks over two keys in one shard, so that an insertion for one
  evicts the other; three tasks over one key (one running, one waiting, one
  arriving while a gate is destroyed); as many gates as tasks, so that
  allocation never blocks; TTL 1 and clock up to 2, so that entries expire and
  are replaced; eviction budget 1, so that eviction leaves entries behind.
* `client_cache`: two lookups of two addresses with capacity 1, so that a full
  cache, an all-pending cache and eviction occur; TTLs 2 and 1, clock up to 2;
  one change of the backend per address.
* `clients`: three UDP calls, two identifiers and a limit of two, so that the
  wrap-around and refusals occur; three exchanges, one retransmission each. Two
  RadSec calls and two closers.
* `server`: one UDP and one RadSec listener, two packet tasks, one connection;
  the theorems cover any number of connections. Of the stream: frames of three
  and four octets, followed by another or by a part of one, a frame that is too
  long and one too short, key updates in a frame and behind it, two writes, and
  room for two items in the socket.
* `request`: `path` is exhaustive. Integers of four octets of base 4; every
  region of up to five octets over the ones that matter and all pairs of slots
  that are right, nearly right or cut off; builders with two operations on
  values about the limits of an attribute and of a packet; EAP packets about the
  ends of one, two and three attributes; passwords about the ends of a block;
  families of two and three address bits; two CoA calls with one identifier,
  which are symmetric (the run checks no liveness; `StepsSafe` is about steps).
* `eap_session`: two concurrent rounds, a table of two sessions, three
  conversations, identifiers that wrap at 3. Rounds are symmetric (no liveness
  is checked in that run).
* `over_tls`: three RadSec calls with a channel of capacity 1, which a closer and
  abandoned calls can fill; messages of up to four bytes in frames of one to four with
  three rogue frames; two conversations with three challenges; TLS flights of
  one to three fragments, eight or nine rounds.
* `dict`: every text of a few lines in two files that may include each other,
  depth 2; groups of a few attributes; two edits between builds.

`MaxTime`, `MaxVersion`, `MaxSends`, `MaxRounds`, `MaxOps` and their like bound
counters. Runs with behaviours that come to a legitimate end switch the deadlock
check off; `dedup` and `client_cache` keep it.

### Fairness

* Spawned tasks and held futures are polled, timers fire, handlers and stores
  return: weak fairness of their steps.
* A tokio mutex queues its waiters: strong fairness of `Acquire` in `Dedup`.
* `tokio::select!` without `biased` draws among the ready branches, so that a
  queued command is taken in the end although frames keep arriving: strong
  fairness of `TakeCommand` in `RadsecClient`.
* `TlsStream`: the driver is polled when it can move, and a deadline that passed
  fires. `DictParser`: a function runs until it returns. `TunnelMethods`: the
  server steps, and the peer does only if it follows the protocol.
* No fairness for the network, for arrivals, for cancellation, for the operator
  or for the peers of the server. A reply is written without a time limit, so
  `SignalledEnds` excepts a revoked connection that stays in that write for ever
  because its own peer does not read, and no other; `run` and the listeners end
  whatever peers do.
* `ServerEnds` and `Served` say "P leads to Q" as `[]<>(P => Q)`: there P, once
  true, stays true until Q, and the two are then equivalent.
* Calls are interchangeable, and so are closers: `ClientsEnd` is stated for one
  of each.

### Sentences that are looser than the code

Met while modelling, and followed as the code has it. Where a sentence and the
code disagree about an outcome, the properties claim nothing for that case,
neither what the one says nor what the other does; the four disagreements
above, which have consequences on their own, have runs.

* `runtime.rs:177` and `README.md:284` speak of draining; RadSec connections are
  detached (`radsec.rs:340`) and `run` does not wait for their frames.
* `radsec.rs:151-153` wants connections closed "without waiting for the peer";
  one that is writing (`radsec.rs:703`) does wait: the exception of `SignalledEnds`.
* `role.rs:6-13` and `66-68` say that the role filter precedes the cryptographic
  checks; both transports apply it after `validate` (as `udp.rs` says itself).
* The single flight that the head of `cache.rs` describes does not extend to the
  waiters of a cancelled resolver, which each ask the backend (`cache.rs:297`);
  `SingleFlight` is about resolvers.
* `router.rs:216-218` says that the Status-Server slot is reached when the policy
  is `Disabled`; `pipeline.rs:294` drops the probe then. `HandlerSeesItsRole` and
  `ProbesAnswered` are about the other policies.
* `handler.rs:196` says `acct_status_type` is `None` for requests that are not
  accounting; the code (`:204`) does not look at the code of the request.
  `StatusIsFirst` is about accounting requests.
* `coa.rs:274-275` describes `UnexpectedReplyCode`; such a reply does not verify,
  and the call times out (`:464`).
* `typed.rs:77` gives tags the range 0x01 to 0x1F; `split_tag` (`:244`) takes 0 for
  a tag, as line 95 says.
* `attributes.rs:251-253` says `get_tlv` wants a parent that walks cleanly; it
  returns at the first match (`:261`).
* `encode.rs:198-199` says that an empty State is rejected; it is written (`:209`).
* `dissect.rs:40-42` says that only the first vendor TLV of a slot is unpacked;
  all are (`:296`). `dissect.rs:43-45` says that offending bytes are printed; the
  top level prints a marker only (`:125`). `Tiles` is about which octets a line
  is for, in order and without overlap: a value of the wrong length is printed
  as its length (`:446-505`) and hex ends after 64 octets (`:606`), and of the
  octets from the first malformed slot on it asks only that one line marks them.
* The dissector shows a tagged integer with its tag octet as part of the number
  (`dissect.rs:464-467`), since `AttrInfo` (`radius-tokio-dict/src/lib.rs:110-119`)
  does not say that an attribute is tagged; handles take the tag off.
  `ReadsAsShown` is about attributes without a tag.
* `codec/eap.rs:107-108` says that Success and Failure have no type; `typ` (`:379`)
  returns the octet behind a header whose Length is above 4.
* `peap.rs:34-38` and `inner.rs:99-103` describe an inner EAP-Success and an empty
  acknowledgement; the code exchanges Result-TLVs (`peap.rs:368`). `SuccessEarned`
  is about who was verified, not about that last message.
* `auth/chap.rs:32-34` says that an oversized challenge is `Malformed`; its length
  is not looked at (`:57`). For one longer than a block, `ChapExact` says only
  that a wrong password does not match.
* `auth/mod.rs:69-76` reserves `Missing` for absent attributes; `verify_v2` gives it
  for wrong lengths too (`mschap.rs:194`).
* `model.rs:11-17` of the generator says that an error names the file and line it
  came from; it names the line of the entry file (`parser.rs:165-168`, which wants
  "the include site"). `ErrorNamesItsPlace` asks for the line that failed or an
  inclusion around it.
* The comment at `codegen.rs:494-496` says that a VALUE for another group's
  attribute is found by the registry; it is in no table (`:497`).

## 4. The proofs

TLAPS checks the theorems for every value of the constants that satisfies the
named assumptions in the modules, which TLC evaluates on every run (those of a
component that is instantiated are `ASSUME`d by the `MC` module, and hypotheses
of its theorems):

* types of the constants, and a non-empty list of listeners;
* `None`, and the `"unused"` of `EapSession`, differ from the values they stand
  beside: they are the missing case of an `Option`;
* in `ClientCache`, a capacity above 0, as `with_capacity` asserts;
* in `Exchange`, at least one identifier (256 in the code), counted modulo
  `IdCount`;
* in `EapSession`, more than two EAP identifiers (256 in the code): with two, a
  response that carries the next identifier would make the request repeat the one
  before it; and a finite set of registered methods;
* in `FramePipe`, messages of octets whose length is at most `MaxTotal`, itself
  within the four octets that carry it, and frames that hold something; in `TunnelMethods`, flights of given lengths, frames
  that hold something (`with_frame_mtu` asserts it), and verdicts that are not
  `None`;
* in `ClientStores`, widths above 0, and that the powers of two are positive,
  of which the provers know only that they are integers;
* in `DictBuild`, that every set of sources has a file, or none, for each group,
  an edit is of a group, a feature set is a set of groups, the RFC group is no
  vendor, and no vendor has the number 0;
* in `PasswordRounds`, that the users with a secret are users and their secrets
  passwords.

The bounds of TLC's counters (`MaxTime`, `MaxSends` and so on) are constants like
the others, so that the theorems hold for every value of them.

`DedupProofs`:

* `TypeCorrect`: types, per action.
* `GatesCorrect`: `GateInv` is inductive given the types. Exclusion by itself is
  not: it follows from facts about places no handler is in. A strong reference
  is always to the gate that the map holds for its key; a gate serves one key;
  whoever is past the lock is the holder; and a gate in cleanup has no strong
  reference left, so that a clean-up either finds its own entry or leaves the map
  alone. `Exclusion` follows: two handlers for a key would hold the same gate.
* `NoLeak`: from the same invariant.
* `CacheCorrect`: the index is exact and no handler runs while an unexpired reply
  is cached; it rests on `InsertEffect` and `ForgetEffect`, lemmas about the
  cache operations. `ReplyKept` follows as an action property.
* `Refinement`: `Dedup` implements `ReplyOnce`. Lookups that hit are `Replay`,
  a recheck that misses is `Admit`, replies `Answer`, declines and cancellations
  `Abandon`; the life of gates, and lookups that miss, are stuttering steps.

`ServerProofs` (the last two are about `Dispatch` and `PacketPath`, and together
are `RightlyDispatched`):

* `RegistryCorrect`, `LateFrames`: `ConnInv` is the types, `RegistryExact` and
  `SignalInv`: only registered connections are signalled, and one that has
  finished a frame since is not working on another.
* `DrainCorrect`, `ErrorsReported`: `RunInv` adds to the two properties that a run
  that was not cut short has joined every listener, and that an error is
  remembered from the moment its listener is joined.
* `TypeCorrect`: types, from both invariants.
* `RoutedRight`: a request goes to the handler that the last call of the builder
  put in the slot of its code, Status-Server before any of them, the handler of
  an accounting request reads its first Acct-Status-Type, and a mock request is what a live one with the same attributes would be. `RouterInv` says
  of the slots that each holds what its last builder call put there; the slot
  of the last of several calls is a maximum over positions (`LeastPosition`).
* `OnlyProvenReach`: only a packet that was proved, in the role of its listener,
  reaches a handler, and a probe gets its answer while the responder is on. `PathInv` says of each stage
  that what precedes it was decided in favour of the packet, and of the end that
  it is the first refusal, or else what the dispatch makes of it.

`ClientCacheProofs`, first the cache, in two layers:

* `CacheSound` is about `CacheState` alone: index and slots agree entry by entry,
  and the occupied slots are finitely many within the capacity. Lemmas say what
  eviction, removal, reservation and storing leave of a cache that is sound; they
  use nothing of the lookups.
* `IInv` adds the lookups. `SingleFlight` by itself is not inductive: that a
  second resolver cannot appear is because a resolver's slot is `Pending` with its
  own channel until it stores or withdraws (`Owned`), and eviction leaves pending
  slots alone. `FreshAfterInvalidate` needs that every value on its way, in a
  slot, with a resolver or in a channel with waiters, is as new as the floor of
  its address (`FloorsKept`, `ChannelsLive`).
* `SingleFlightHolds`, `EvictionSoundHolds`, `FreshAfterInvalidateHolds` follow.

Then the store behind it and the output of the dictionary build:

* `StoresConsistent` is `StoresAgree` for addresses of any width: the mask clears
  exactly the bits behind the prefix (the shift by the whole width, which the
  code avoids, does not occur), so an entry covers the addresses that share its
  leading bits; the first entry that matches is the least, so with the more
  specific entries first it is the longest prefix; and what admits a RadSec peer
  is the lookup that finds its client.
* `BuildsFreshHolds`: a program is never built from a rendering that is older
  than its sources. `BuildSeen` says, while the script runs, that a group is
  rendered or still to be, and, when it does not, that whatever cargo watches and
  holds for clean has been rendered as it is on disk.

`ExchangeProofs` has the lemmas that both clients use: the search of `register`
reaches every identifier (`TriesReachAll`), and ends at a free one if there is
one (`FreeIdIsFree`), which there is when the request is not refused; and what
`register`, `deliver`, `close` and the drop of a lease do to the entries and to
the number of identifiers in use.

`UdpClientProofs`: a call in flight has an entry that is its own and that has a
sender exactly while it has heard nothing (`Linked`), which with `NoIdLeak` gives
`IdsExactHolds`. That an answer is to the call's own packet (`CallsToldRightHolds`)
also needs `RandomFresh`: random authenticators of calls in flight are pairwise
different, and one that has not been sent yet is not among the packets the
network may still answer.

`CoaExactHolds`, in the same module, is about `DynAuth` with its NAS: what a call
returns is the verdict of the NAS on that call's own request, which the NAS has
carried out once for as long as it remembers. `CoaInv` says that entries of the
registry belong to calls in flight, that every reply under way, cached or in a
mailbox is of a decision of the NAS on that very packet, and that a request ran
at most once more than the NAS forgot it, and not once more unless its reply is
cached.

`RadsecClientProofs`: a lease is held by the caller, the queue or the driver.
`Linked` and `NoLeak` say that held leases and entries correspond, over every
order in which futures, commands and the driver are dropped; each command is
made once (`QueuedOnce`). `LeasesSoundHolds` follows: for the room in the channel,
the calls that are queued or about to queue are mapped one to one to
identifiers in use, whose number the limit bounds. `EndedTellsAllHolds` is part
of the invariant; it needs `DroppedAlone`, that the client outlives its calls.

The other half of that module is about `TunnelMethods`, for flights, frames and
peers of any kind:

* `TunnelEarned`: success means that the handshake is done, that everything the
  engine wrote has been sent (and heard in order, if the order was never lost),
  and that EAP-TTLS and PEAP have decided for a user that has a secret, in PEAP
  the one whom the inner method has verified; no flight mixes bytes of the handshake with later ones; the
  stream of EAP-TLS goes out once and in order.
* `TunInv` has four parts. `StreamInv`: what is pending and what the engine has
  not handed over continue the stream that was heard (`Flow`), and between two
  rounds the engine has nothing left. `EapTlsInv`: the state of EAP-TLS says
  whether fragments are pending, so that it asks for the final acknowledgement
  only when all are out, and never refills a message that it has begun to send.
  `VerdictInv`: a verdict is that of an inner method that stands where it can
  have come to it. `FlightInv`: bytes of the handshake and later ones are not in
  one flight, which is so because the inner method writes only where nothing is
  pending.
* `LostOnlyByRefillHolds`, an action property: the order is lost only by a refill
  that finds some fragments of a message out and others not, and never in
  EAP-TLS. This is the finding of `tunnel_refill_doc`, from the other side:
  there is no second way to lose it.

`EapSessionProofs`: `Owned` (a conversation is stored once or with one round),
`AllKnown` (only conversations that have begun and are not over have sessions) and
the exact table carry `SessionsExactHolds`, up to `Linear`. That a conversation
never forks and never repeats an identifier in successive requests needs where
the counter of a session stands: it follows the identifier of the last challenge
while the session waits or runs (`Behind`), and is one ahead of the challenge that
is about to be stored (`Ahead`). `NegotiationSoundHolds` needs that a session's
list of tried methods has no repetition, and that its length is then bounded by
the number of registered ones. `OnlyEarliestEvictedHolds` is an action property:
each way out of the table is a take, the end of a conversation, an expiry, or the
first entry of a full table.

In the same module, two layers below the sessions:

* `FramesExactHolds` (`FramePipe`): between ends that follow the protocol the
  receiver holds exactly the prefix that the sender has cut off, and knows the
  length of the whole (`PipeHonest`); a length in four octets is read back as it
  was written (`BigEndian`, `FrameThrough`). Whatever a peer sends, the buffer
  keeps its limit and starts empty with every message (`PushBounded`).
* `ProofsFresh` (`PasswordRounds`): what was sent in a conversation and the state
  of its method determine each other (`Stands`), challenges of two conversations
  differ and are among those drawn; a method that accepts has then seen a proof
  over its own challenge (`ProvesIt`).

`TlsStreamProofs`: the octets are in five places at once (socket, input buffer,
partial frame, frames delivered, and what the peer has left), and `StreamIntact`
compares sums over all of them, so that the proof is about sequences more than
about steps.

* The library's induction theorems have an operator as a parameter, which the
  provers cannot instantiate. `SetInduction` states induction with a *set* of
  natural numbers in place of the operator, and is proved from the least
  element of a non-empty set (`LeastNatural`). With it come the lemmas on
  `FlattenSeq`: its recursion determines it, the flattening of a concatenation
  is the concatenation of the flattenings, and so `Data` (the octets among the
  items) distributes over every cut that a read or a flush makes (`Cut*`).
* `IInv` has the types and: hellos and key updates are where the phase of the
  connection lets them be (`InOrder`), and the socket is waited for only when the
  input buffer is empty (`Phases`); a target other than that of the header was
  read from the header, which is in the buffer (`HeadRead`); and the parts of
  the property. `HeadRead` is what makes
  `FramesWhole` inductive: a read that is dropped in the middle of a frame leaves
  nothing but the buffer and the target for the next one to go on with.
* `StreamIntactHolds` follows for every plan of a peer and all buffer sizes. Its
  hypothesis `StreamAssumption` (a header shorter than the least frame; items
  that are not octets are not numbers) is `ASSUME`d in `MCServer`, so that TLC
  evaluates it.

The inductive invariants were run by TLC, on instances like those of the runs,
before they were proved, but for the types of the store in `ClientStores`, sets
that TLC does not enumerate.

Left to TLC:

* liveness, fairness and whatever needs `ENABLED` (`QueueEnds`, `EveryLookupEnds`,
  `ClientsEnd`, `Served`, `ServerEnds`, `HonestEnds`, `Ends`);
* `ParseExact`: `DictParser` compares with a textual expansion that is a
  `RECURSIVE` operator, and tlapm has no SMT backend in a module that reaches one;
* what recursive functions and folds compute from octets for every input:
  `CodecRoundTrip`, `ReadersAgree`, `SealsExact`, `CredentialsExact`,
  `TablesExact` and the steps of `StepsSafe` would need induction over data, which
  the installed provers do not have;
* of `OnlyEarnedSuccess`, that a peer with the wrong credentials does not get
  there by following the protocol (`peer.mode # "bad"`); of `StreamExact`, EAP-TTLS
  and PEAP with flights of one frame, the only ones for which it holds.

## 5. Not modelled, and why

* Digests, ciphers, key derivation, certificates and TLS contexts
  (`src/crypto/` but for `password.rs`, `mppe.rs` and the operations of a TLS
  connection): bindings to a library. They are terms and verdicts in the models.
* `RadsecClient::connect`: a sequence of awaits under one time limit, with no
  shared state.
* Socket options, configuration builders and TCP keepalive: no behaviour to
  check.
* Logging and metrics: no decision depends on them.
* The text that the dissector and the generator print (the octets a line covers
  and the statements that become a constant are modelled), and the spelling of
  generated identifiers.
* The application's handlers, stores and identity sources are external: they
  answer, change, decline or panic.

## 6. Plan

The order of work: `Dedup` with `ReplyOnce`; `ClientCache`; the clients;
`PacketPath`; `Server`; proofs of `Dedup` and `Server`; EAP sessions, framing and
methods; codec, stream and credentials; stores, routing and dynamic
authorization; dictionaries; proofs of `ClientCache`, of both clients, of
`EapSession` and of `TlsStream`; proofs of `DynAuth`, routing and packet path,
stores, framing, password methods, tunnel and builds.

Every component with state that two actors share now has its safety properties
proved. What could be added: `WalkExact` and `Tiles`, with the cursor of the
iterator as the induction (as `SetInduction` does it in `TlsStreamProofs`), and
from them the round trips of the codec; `StreamExact` of EAP-TTLS and PEAP under
the hypothesis that every flight fits a frame.
