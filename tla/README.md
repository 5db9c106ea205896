# Antenna in TLA+

Antenna is the engine beside every Resonator radio: a store of RDF triples, a
graph of JavaScript nodes that react to what is inserted into it, a libjami
("carrier") client, and three transports (stdin/stdout, WebSocket, a C ABI for
Flutter) over which Turtle documents come and go. This directory models the
parts of it whose correctness depends on the order of things: threads, rings,
wakeups, late events, failing steps, boots that end half way. Code is cited as
in the repository, `src/src/…` being the crate's sources.

## The system

| part | state | operations | talks to |
|---|---|---|---|
| ring channels, `channel.rs` | byte ring with `u32` head and tail, a clock fd (eventfd or pipe) | `send` (push, signal, bounded retry), `recv` (pop), `consume_clock` | joins every pair of threads below |
| C ABI, `ffi.rs` | `LIVE_HANDLE`, per handle `done`, `poisoned`, two rings, a worker thread | `antenna_create`, `send`, `drain`, `destroy` | isolates of the embedder, the engine, the libjami singleton |
| WebSocket, `ws.rs` | two mpsc channels to the engine, registrations, one client's queue, tungstenite's write buffer | accept thread, forwarder thread | the engine, clients |
| engine, `lib.rs` | active account, one-shots of the first tick | `tick`: clock, carrier events, IN lines, queries, emits, health check | everything |
| dispatch, `dispatch.rs`, `blocklist.rs` | none | strip directives, route a document by `rdf:type`; SPIN, design, block list and carrier handlers, `insert_with_dag` | store, DAG, carrier, OUT |
| theme resolver, `theme.rs`, `theme_resolver.spin.ttl` | none; reads the theme graph and `radio:hasTheme` | `resolve_active_theme`: pick a theme, walk `design:extends`, three CONSTRUCTs | store |
| script DAG, `dag.rs`, `script_vm.rs` | routes, inboxes, emit and query channels, node threads | `broadcast`, `pump_queries`, `pump_emits`, `health_check`; `emit`, `store.query` in scripts | rings, store |
| carrier client, `carrier.rs` | singleton handle, event channel, pending export path | account calls, `iterate`, the event callback | libjami |
| boot and store, `lib.rs`, `store.rs` | default graph, trusted mirror, theme graph, all persistent | `new_with_ttl`, `replace_pipeline`, the queries of `Dag::load` | disk |
| semantic routers, `dag.rs`, `llm.rs` | two latched documents, an LLM backend, the two platform rings all routers share | latch, fire, ask, validate, retry once, emit | rings, HTTP or the host |
| logging, command line | none that others see | formatting, argument parsing | – |

What is hard here: a lock-free ring whose counters wrap; a wakeup that must not
be lost; a worker that may panic between two steps of a caller; registrations
of clients that overtake messages; scripts that block on the worker while the
worker waits for scripts; answers that arrive after their timeout; account
events that arrive after the commands that depend on them; routers that share
rings made for one reader and wait two minutes for a host; a bundle that is sent
piece by piece; a store that outlives crashes. `PROJECT.json` lists the
most important of these hazards at their lines.

What makes the parts correct:
* ring: an unread byte is never overwritten, texts come out whole and in order,
  a reader that sleeps over data is about to be woken, `send` returns;
* C ABI: no caller holds a freed handle, `destroy` returns, accepted lines are
  dispatched unless the handle says that it is poisoned or carrier_iterate fails
  for ever;
* WebSocket: lines in order and none lost by a clean close; documents in order,
  none twice, none to two clients, none lost to a client the forwarder knows;
* engine: every document is handled once, in the order of its source; a script's
  answer belongs to its question and includes the document it runs on;
  nothing waits for ever while the process runs;
* account: the first documents come first and once; a host that waited for
  `AccountReady` has an active account; a backup is of the account asked for;
* semantic routers: a document is used once, an answer goes to the pair it was
  made from, one emit for a firing, and no backend stops a router for good;
* dispatch and theme: a client that sees the end of a theme bundle has the theme
  that is inherited, whole; the walk to it ends; a block list is broadcast to the
  scripts when it is signed, to its end, and not at all otherwise;
* boot: what runs is the pipeline given (where the documents written in between
  type their scripts), the theme is that of the build, and
  what the radio wrote stays.

## Modules

| module | models | interleaving |
|---|---|---|
| `RingChannel` | `RingBuffer`, `Clock`, `ChannelWriter::send`, the poll loops of node threads and of the tick | one step per load or store of a shared variable and per system call |
| `FifoChannel` | what a channel promises: accepted texts are taken in order | – |
| `RingChannel_proofs` | theorems about `RingChannel` | – |
| `FfiHandle` | `ffi.rs`; rings are FIFOs with a bound | one step per lock, flag, push, join |
| `FfiHandle_proofs` | theorems about `FfiHandle` | – |
| `WsServer` | `ws.rs`; tungstenite and sockets external | one step per channel operation or socket call |
| `WsServer_proofs` | theorems about `WsServer` | – |
| `Engine` | `tick`, dispatch by kind of document, broadcast, node threads, `emit`, `store.query` | one step per document and broadcast; scripts run in between |
| `Engine_proofs` | theorems about `Engine` | – |
| `Account` | tri-state bootstrap, first tick, all carrier commands, `AccountReady`, auto-export | one step per event and command |
| `Account_proofs` | theorems about `Account` | – |
| `SemanticRouter` | router threads of `Dag::load`, the retry, the three backends, the platform rings | one step per poll, clock, pop, push and call |
| `SemanticRouter_proofs` | theorems about `SemanticRouter` | – |
| `Theme` | `resolve_active_theme` and its queries | one step per query |
| `Dispatch` | `dispatch` and its handlers but the carrier's, block lists; extends `Theme` | one line at a time, one step per document sent or inserted |
| `Dispatch_proofs` | theorems about `Dispatch` and `Theme` | – |
| `Boot` | `new_with_ttl`, `replace_pipeline`, `Dag::load`'s queries and the backends it needs | one step per store operation, a crash after any |
| `Boot_proofs` | theorems about `Boot` | – |
| `MC…` | constants of the runs | – |

`FfiHandle`, `Engine`, `WsServer` and `SemanticRouter` use rings and queues as
bounded FIFOs; that this is what a ring is, is the refinement `ImplementsFifo`.
It needs one writer and one reader, which the platform rings do not have: there
`Racing` adds what two that collide may do, a request that is lost and a response
that is popped twice. Frames torn by such a collision are left out.

How state and actions correspond:
* `RingChannel`: `head`, `tail`, `buf` are the fields of `RingBuffer`. `wpc` and
  `rpc` are places in `send`/`push` and in the loop around `pop`. `PushLoad`
  is the Acquire load of `tail` and the free-space test, `PushByte` one store
  into the buffer, `PushStore` the Release store of `head`, `Signal` the
  `write(2)`. A byte is a pair of a message and an offset; the prefix is the
  length, repeated. `wpos`, `rpos`, `sent`, `received` are history.
* `FfiHandle`: a *build* is one pass of `antenna_create` through the
  constructor and names its handle, worker, rings and node threads. `slot` is
  `LIVE_HANDLE`, `carrier` the libjami singleton. `IsolateDies` is a hot
  restart. A batch is one `antenna_send`, pushed line by line. `worker` "iterate" is
  the part of a tick before its input: `WorkerIterates` is a `carrier_iterate` that
  succeeds, `WorkerTickFails` one that fails, after which the worker logs the error
  and ticks again with all its input still there.
* `WsServer`: `fpc` and `hpc` are the places of forwarder and accept thread,
  `regs` the registration channel, `current` is `current_client`. `ReadText` takes
  a frame, whose lines `text` holds until `PassLine` has passed on each; the
  engine may take lines in between. `said` counts the lines with text a client
  has sent, `aim` records for the messages in `Followed` whom the server was
  serving when they were sent.
* `Engine`: `pc` is the place in `tick`; `cur` and `ret` the document inside
  `insert_with_dag` and where to go on. `transport` is also who calls `tick`: the
  worker of the C ABI over rings, which goes on after an error (`IterateFails`), or
  `AntennaContext::run` over WebSocket and stdin, which returns it and ends the
  process (`RunEnds`). Documents carry source, number and
  kind: `raw`, `bad` (the store refuses it) or `command`.
* `Account`: accounts are numbered as they come into being; the tables
  `AccountCommands` to `DeviceCommands` have one entry per `match` arm of
  `handle_carrier`, with the fields whose absence is an error, and `UseAccount`
  runs any of them: on the account it names or else the active one, refused for a
  missing field or by the carrier. `ImportAccount` behaves as `Create`, `Link`
  makes an account without a backup, and an unknown command is only logged.
* `SemanticRouter`: `slot` is `slot_a` and `slot_b`, `ready` the `revents` not yet
  served, `pc` the place in the thread: `call` before `complete`, `await` in the
  `poll` of the platform backend, `resp` in its `recv` loop. Documents are
  numbered; an answer carries the pair its prompt was built from (`Pair`), so
  that an answer to somebody else's prompt can be told. Of a completion only
  what `validate_turtle` says matters: `valid`, `invalid`, or `error` for a call
  that fails. `Mine` takes request ids for different; `contains` in `llm.rs:183`
  compares substrings of ids that begin with the time in milliseconds.
* `Theme`: an item is a role, the name of a token or the stroke width; `gives`
  says which theme has a value for it. `chain` is the table of `@@CHAIN@@`, its
  order the depth. `Solutions` is the pattern the three queries share, with its
  `FILTER NOT EXISTS`. `Met` and `InheritsFrom` are the reference: the nearest
  theme on the way up, defined by sets closed under `extends`, without depths.
* `Dispatch`: a line is a record of what `extract_type` and `extract_property`
  find in it, `steps` what its handler has still to send or insert. A broadcast is
  `before` or `after`, with `Full` when an inbox had no room and the script behind
  it was left out; the code does not tell the two apart. `Applied` is the one host
  update that matters here, which selects a theme. Whether a signature verifies is
  part of the line.
* `Boot`: graphs are sets of triples, a pipeline is a set of triples. `Stop`
  ends a boot or a run at any place. `Routers` is `query_semantic_routers` and
  `Constructible` whether `create_backend` succeeds for all of them.

Operators named as faulty variants, each before the definition it varies, are
bugs this code could have had; they show that a property can fail.

## Runs

Each run takes under three minutes on two workers.

| run | shows | bounds |
|---|---|---|
| `RingNode` | the ring and a node thread, its inductive invariant `RingInv` and the refinement | capacity 8, counters modulo 16, prefix 2, texts that need 3, 6 and more than 8 bytes, 5 sends, 2 attempts, a pipe of 3 bytes: both counters wrap, frames straddle the end of the buffer, the ring and the pipe fill up |
| `FfiHandle` | C ABI with isolates one after the other | 2 builds, one batch of 2 lines sent up to twice, rings of 1: a full ring, a rebind and a rebuild all happen; any tick may fail or panic |
| `WsSafe` | order and completeness of lines and documents | 2 clients, 3 messages, 2 frames of two lines around a blank one, a socket buffer of 1 so that `WouldBlock` is common |
| `WsLive` | delivery and release | 2 clients, 1 message |
| `EngineOrder` | order, answers, `afterInsert` | two scripts in a chain, inboxes of 1 that overflow, 1 line of each kind, 2 emits and 2 questions per script, ticks that fail, rings, WebSocket or stdin as transport, of which the last two end at the first failure |
| `EngineLive` | everything handled, answered, reported | 1 line, 1 event, 1 emit and 1 question per script, ticks that fail, rings as transport |
| `Account` | bootstrap, onboarding, backup | all three modes, 3 commands of a host that follows the onboarding flow |
| `Router` | freshness, one emit, right answer, progress | a router with each backend type and an unknown one, 3 documents on each side or empty ones, inboxes of 2, platform rings of 1: newer documents replace latched ones, rings fill, answers come late |
| `Dispatch` | the theme sent, the end of its walk, block lists | every `extends` relation of 3 themes, cycles and self-loops included; a role any theme may bind, a token and a stroke width; lines of every kind, up to 2 solutions, a list of 2 entries, a store that may fail and inboxes that may be full at any of them |
| `Boot` | the store across boots | 3 boots, 2 builds (with and without `peer-scripting`), 3 pipelines of which one does not parse, 2 bundle files, 3 documents |
| `RingNodeEventfd`, `BootBackend` | disagreements, below | as above |

Why the bounds suffice: every property speaks about at most two messages, clients,
scripts or boots at once, and each bound leaves room for one more than that or
fills the buffer concerned; what the runs check of safety is proved for every
value of the bounds (see Proofs). `CHECK_DEADLOCK FALSE` stands where the
environment is bounded and the program, with nobody left to serve, has nothing to
do (`WsSafe`, `WsLive`, `Router`, `Boot`).

`AfterInsertMeansStored` is checked in `EngineOrder` for documents of dispatch
(no carrier events there); for carrier events it does not hold, see below.

### Fairness
* ring: the writer inside `send` and the reader's loop keep running; both are OS
  threads that block only in `poll` with a timeout or in a bounded sleep. Nobody
  has to call `send`.
* C ABI: a call that has been entered and the worker keep running; hosts call
  when they like. A panic is never required and never excluded. `carrier_iterate`
  does not fail for ever (strong fairness of `WorkerIterates` in `FairSpec`): an
  assumption about libjami that nothing in the code enforces, so that
  `RunningSpec` states the fairness without it, and `FfiIterateFails` shows what
  then becomes of accepted lines. `DestroyReturns` does not need it, as the worker
  looks at `done` after each tick, failed or not.
* WebSocket: forwarder and accept thread run (all their waits have timeouts,
  except `accept`), and a client reads what has reached it.
* engine: the worker and the node threads run, and over rings `carrier_iterate`
  does not fail for ever (strong fairness of `Iterate`). Over WebSocket and stdin
  one failure ends the run, and the properties ask for progress until then
  (`RunHasEnded`). The five-second timeout of
  `store.query` is not fair: questions are answered without it. Scripts are
  assumed to return.
* semantic routers: the threads run, each call ends at its deadline at the latest,
  and a host that is there reads its requests. Nobody is obliged to answer.
* account: the worker runs. Strong fairness of `IterateReports` says that
  libjami brings a registration to its end and that `carrier_iterate` does not
  fail for ever; both are assumptions about libjami.

## Disagreements

Two are runs, with a finding in `PROJECT.json` that quotes what the code says
of itself:
* `RingNodeEventfd`: on Linux the clock is an eventfd and `Clock::signal` writes
  one byte, which an eventfd refuses. A node thread drains only when its clock
  is readable, so nothing is ever delivered to it. (The tick drains after a
  timeout as well, so IN and OUT are only late.)
* `BootBackend` (`GivenPipelineBoots`): the reset of `replace_pipeline` leaves
  `SemanticRouter` definitions in the default graph. One whose backend the build
  lacks fails `Dag::load`, and goes on failing it when the pipeline that had it
  has long been replaced (`lib.rs:88-89` says that pipeline.ttl is the "single
  source of truth").

Others have a configuration of the same name here, and can be run by hand (with
the `MC` module of the same prefix where there is one). A configuration that
serves several claims has one of them in force and the others commented out, as
TLC stops at the first that is violated:
* `FfiClaims` (`PoisonedRejects`): `antenna_send` reads the poison flag before
  it pushes; a panic in between lets a poisoned handle accept lines, where
  `ffi.rs:55-56` says that it "rejects further input".
* `WsClaims` (`RegisteredGetsAll`): the forwarder takes one registration per
  look. With the one of a client that has already gone still queued, the first
  message for its successor is lost, the loss that `ws.rs:70-79` says is closed.
* `AccountBackup` (`BackupIsOfNewAccount`): with an account already active, the
  archive written for `carrier:autoExportPath` is that of the active account and
  not of the new one (`carrier.rs:1137-1139`: "right after Create").
* `RouterUnwired` (`RequestIsRead`): `Dag::load` takes no reader of the request
  ring and no writer of the response ring, so nothing the platform backend asks
  is ever read (`dag.rs:273`: "so host can subscribe"; `Cargo.toml:26-27`:
  "`platform` … still works for on-device LLMs") and every call ends at its
  deadline. The other router runs are of an engine where a host has those ends.
* `RouterShared` (`NoAnswerIsStolen`): all platform routers read one response ring
  and throw away what does not carry their own id, also the answer another one
  waits for. `channel.rs:283` relies on there being "only one reader".
  What the same configuration checks shows that even so nobody takes a foreign
  answer for its own.
* `DispatchClaims` (`DeclaredIsParsed`): a line that declares a prefix which
  `insert_turtle` does not is stripped of the declaration and then refused by the
  store, without a reply (`dispatch.rs:36-38`: "redundant and safe to discard").
* `DispatchLossy` (`MarkerFollowsBundle`): a send that gives up on a full OUT ring
  leaves a gap in a theme bundle whose marker may still arrive; the client can
  tell by `design:bundleSize`, which `dispatch.rs:135-137` does not ask of it.
* `DispatchClaims` (`SignedListIsSeen`): `Dag::broadcast` ignores that a full inbox
  has not taken a document, so a script that is slow, or that waits in
  `store.query` for the very worker that goes through the list, misses entries of a
  signed block list for good (`dag.rs:534-541`).
* `FfiIterateFails` (`AcceptedIsDispatched`): a `carrier_iterate` that fails for
  ever leaves every tick before its input; the worker logs that and the handle
  goes on accepting lines nobody reads (`ffi.rs:228-230`, `lib.rs:337`).
* `EngineRunEnds` (`EndLosesNothing`): over WebSocket and stdin the first failing
  `carrier_iterate` ends `AntennaContext::run` and the process, with what is queued
  (`lib.rs:450`). `EngineWs` shows that until then the liveness properties of
  `EngineLive` hold over WebSocket too.
* `AccountRefusedBackup` (`BackupIsAskedFor`): the export path of a create that
  libjami refuses stays, and a later create without one is backed up there
  (`dispatch.rs:372-388`).
* `AccountLoadRefused` (`DeferredLoadIsShown`): a deferred `load_account` that is
  refused is only logged (`lib.rs:312-314`), and the host hears nothing of the
  account it asked for.
* `BootUntyped` (`LoadedIsGiven`): an `antenna:body` written about a subject that
  has no type yet outlives the reset, and becomes a body of the source that a later
  pipeline declares under that name.
* `FfiClaims` (`PanicReported`): the `antenna:Error` of a panic goes to an
  OUT ring that may be full, and is dropped (`ffi.rs:56-58` promises it).
* `FfiClaims` (`CreateGivesRunningWorker`): a hot restart after a panic
  is handed the dead handle (`ffi.rs:113-114` says "already-running worker").
* `FfiClaims` (`NodeThreadsEnd`): node threads never end, `antenna.h:119-120`
  says destroy will "release all resources owned by the handle".
* `FfiRetry` (`DispatchedOnce`): retrying a batch refused with -3, as
  `antenna.h:99` says, dispatches its first lines twice.
* `FfiOverlap` (`HeldIsLive`): an isolate that rebinds while another is entering
  `antenna_destroy` keeps a freed handle.
* `RingTickPipe` (`BlocksWhenIdle`): nothing consumes the IN clock of the tick,
  so with a pipe its poll never blocks again after the first message.
  `RingTick` shows that the tick still delivers on an eventfd, `RingStalled`
  that `send` returns when the reader has stopped.
* `WsClaims` (`ConnectedGetsAll`): a message sent between the handshake and
  the registration is lost.
* `EnginePipe` (`ClockKeepsTicking`): an open, silent stdin blocks the tick in
  `read_line`. `EngineEof` shows that all is handled once stdin ends.
* `EngineNames` (`DeadAreReported`): of two dead nodes whose URIs have the same
  last segment one is never reported.
* `EngineBadEvent` (`AfterInsertMeansStored`): a carrier event the store refuses
  is broadcast on `afterInsert` all the same.
* `BootBackend` with the invariant `RoutersAreGiven` instead: a `SemanticRouter`
  that a new pipeline no longer has stays in the default graph and keeps running.

Seen while reading, without a configuration: nothing is ever broadcast on
`antenna:mainIn`, which `ARCHITECTURE.md:91` lists as a built-in channel.

## Proofs

`RingChannel_proofs` proves, for every capacity, prefix, set of texts and
number of attempts, from `RingAssumption` (the capacity is positive, divides the
range of the counters and is smaller; the prefix is not empty) and
`LoopAssumption`:
`RingInvariant`, `TypeCorrect`, `FifoDeliveryHolds`, `UsedIsExactHolds`,
`NoDataRaceHolds`, `NoLostWakeupOnPipe` and `Refinement` (the ring implements
`FifoChannel`).

None of the properties is inductive: that the bytes read are those written
depends on where they are, and the counters that say where wrap. `RingInv`
places frames at absolute positions, which never wrap: head and tail are
`wpos` and `rpos` modulo the range (`Positions`), frames lie end to end and the
reader stands at the start of the next (`Layout`), cell `p % Capacity` holds
byte `p` of what is unread (`Stored`), and what writer and reader have done so
far agrees with that (`Writing`, `Reading`). `NoLostWakeupOnPipe` needs in
addition that the clock is a pipe: with an eventfd the statement is false.

The argument rests on few lemmas about division: the remainder is unique
(`ModUnique`), wrapping before taking the index changes nothing when the
capacity divides the range (`WrapMod`, `IdxOfPosition`), two positions less
than a capacity apart have different cells (`CellsDistinct`), and the wrapped
difference is the real one (`WrapDistance`). Then one lemma per action.

`Boot_proofs` proves, for every set of pipelines, builds, documents and number
of boots, from `BootAssumption` and `ScriptAssumption`: `BootInvariant`,
`BootTypeCorrect`, `GatedLoadsGiven`, `BundleOnlyHolds`, `ThemeIsOfBuildHolds` and
`RadioDataKeptHolds`. `ScriptAssumption` is about the files of a release: in a
pipeline whatever has an `antenna:body` or a script source has the type the DELETEs
look for, and a node has one body; the emoji catalog and the seed declare no
scripts. Of the documents written while the antenna runs it says nothing, as
`insert_with_dag` stores any Turtle. `LoadedIsGivenHolds` has the hypothesis
`DocsAreTyped` that those documents type their scripts too: without it a build
with `peer-scripting` may run a body that is not of the pipeline (`BootUntyped`),
while one without reads the mirror and is served by `GatedLoadsGiven`. `BootInv`
says what each step can rely on: no script nodes after the first DELETE, nothing
about scripts after the second (this needs that the whole graph is well typed, and
so `DocsAreTyped`), the rows of the pipeline after the insert, an empty mirror
before it is filled.

`FfiHandle_proofs`, from `FfiAssumption` (finitely many isolates, every bound
positive). `HandleInvariant` holds for isolates that overlap as they like, two
that build at once included, as no call of the model waits for another's: a
host holds a handle exactly while its calls need one (`HoldsInCall`), a build is
that of one call (`BuildIsOwn`), the libjami singleton belongs to the one context
alive (`OneContext`, proved as `OneContextAlive`), `LIVE_HANDLE` names no handle
that `antenna_destroy` is past clearing (`SlotIsLive`, proved as `RebindIsLive`),
and a freed handle has no worker. `AloneInvariant` adds, for one isolate at a
time, that a live context is always somebody's: named by the registry, held, or
on its way in or out. `HeldHandleIsLive` and `CarrierIsFree` need that. The
hypothesis `Cardinality(Hosts) = 1` says that isolates follow one another, as
hot restarts do; `FfiOverlap` shows that `HeldIsLive` is false otherwise.

`WsServer_proofs`, from `WsAssumption` alone. Order of what clients read is not
inductive without everything on the way: `WsInv` says that what a client has
read, what is in its socket, in tungstenite's buffer and in its queue is one
rising sequence, the greeting in front (`Delivery`), below the message the
forwarder holds and those it has not had (`Outgoing`), and that a client that is
not registered has nothing (`Connections` orders clients by when they are
served). For the lines, what has arrived, the rest of the frame in hand and the
frames in the socket are one sequence without gaps (`Following`), a Close frame
is the last frame (`Inbound`), and what has arrived is of clients served so far
(`OfServed`). From these follow `LinesArriveInOrder`, `CloseIsClean` and
`ClientsReadInOrder`. The lemmas on rising sequences (`RisingAppend`,
`RisingTail`, `RisingConcat`, `RisingSplit`) carry the steps that move messages.

`Engine_proofs`, from `EngineAssumption` (node names differ from the sources
`in` and `carrier`; the built-in channels exist), for every pipeline of scripts.
`EngineInv` numbers what each source has produced and dispatch has not taken
(`Numbered`), also while emits sit in the batch of `pump_emits`, which gives the
action property `SourcesKeepTheirOrder`. `AnswersIncludeTrigger` rests on `Seen`:
whatever a script has been given or has in an inbox is in the store, or in the
hands of the worker at a place from which it reaches the store before any
question is answered. `Told` is that and `AnswersAreToLastQuestion` together.
`AfterInsertIsStored` has the hypothesis `WellFormed`: no carrier event is
refused by the store, and no script emits to `afterInsert` itself. Without the
first it is false (`EngineBadEvent`), without the second the channel carries
what the script says.

`Account_proofs`, from `AccountAssumption`. `AccountInvariant` needs where the
boot stands (`BootProgress`) and that the snapshot of a tick and the commands of
a host that knows an account come after it was set (`AccountKnown`); it gives
`BootIsOrdered` and `ReadyHostIsServed` for every host and every mode.
`BackupIsNew` has the hypothesis `Patient`, that the host makes accounts as the
onboarding flow does, one at a time and none once one is ready, and the invariant
`Onboarding` that goes with it; for other hosts it is false (`AccountBackup`).

`SemanticRouter_proofs`, from `RouterAssumption`, for every set of routers that
share the platform rings, so also where requests are lost and responses popped
twice. `RouterInv`: inboxes are newer than slots and slots newer than what was
used, except during the call, when they are the pair fired on (`Fresh`); an id
is given once, and whatever carries the id a router waits for carries its pair
(`IdsAreUnique`); emits are of firings that are over (`EmitsArePast`). With it
`AnswersMatch`, `OneDocumentPerFiring` and the action property
`FiresOnlyOnFresh`. That `NoAnswerIsStolen` is violated is no contradiction: an
answer may be thrown away, but it is never taken for another.

`Dispatch_proofs`, for every `extends` relation on every finite set of themes,
from `ThemeAssumption` (items of the three queries are disjoint),
`DispatchAssumption` and `HandlerAssumption`. The reference `InheritsFrom` is
defined by sets closed under `extends` and the code walks a chain, so the argument
is an induction along the walk, done as an invariant: each theme of the chain is
met on the way up whatever set stops the way behind it (`Reached`), the chain has
no theme twice, and it ends where there is nothing new (`Ended`).
`ThemeIsInherited` follows, also for cycles, and as no theme is in the chain twice
so does `WalkEnds`: the chain is no longer than there are themes. (That the walk
is at its end then is `Walk`, each step of which adds a theme or ends it.)
`ListsAreOffered` is about what is broadcast; who gets it depends on the inboxes.
For the handlers, what is done and what is left to do are together the answer to
the line (`ListProgress`, `MarkerInv`): `ListsAreOffered`, and `MarkerIsLast`
under the hypothesis `~Lossy` that OUT takes everything (`DispatchLossy` shows
what happens otherwise). `HandlerAssumption` says of `parse_entries` that a
selection of the lines of a list is a list of its lines. It is true of
`SelectSeq`, but that is defined by recursion on the length, which the provers
cannot use; TLC evaluates the assumption in the run `Dispatch`.

What is proved and listed by no run: type correctness and `UsedIsExact` and
`FifoDelivery` of the ring (consequences of `RingInv`), `OneContext`,
`SlotIsLive`, and the inductive invariants other than `RingInv`.

Only model-checked:
* liveness, in every module: it needs fairness and `ENABLED`, which are out of
  the prover's reach (`Delivered`, `SendReturns`, `BlocksWhenIdle`,
  `DestroyReturns`, `AcceptedIsDispatched`, `AdoptedGetsAll`, `LeaverIsReleased`,
  `EverythingIsHandled`, `QuestionsAreAnswered`, `ClockKeepsTicking`,
  `DeadAreReported`, `RegistrationIsShown`, `PairIsFired`);
* what is violated, here and under Disagreements: a counterexample needs no
  proof.

## Not modelled

* What the carrier commands do inside libjami, and the text of the events
  `carrier.rs` formats (`Event` in `Engine`).
* SPARQL updates of a host other than those that select a theme: one can change
  any graph, so `RadioDataKept` speaks of what is inserted and not of what a host
  deletes, and so do `AnswerSeesTrigger` and `AfterInsertMeansStored`.
* Which triples a token consists of, and the values themselves: a theme either
  gives an item or does not.
* Prompts, JSON and Turtle escaping in `llm.rs`; a completion is what
  `validate_turtle` says of it.
* QuickJS, Oxigraph, tungstenite, ureq, ed25519 and libjami, except by what the
  code uses.
* The debug build's overflow check in `RingBuffer::push`, which panics when a
  frame straddles 2^32: the model is of the release build.
* A script that is its own subscriber and emits at every document, which keeps
  `pump_emits` from ending: emits are bounded in `Engine`.
* Logging, the command line and the build script.

## Plan

Done: ring, C ABI, WebSocket, engine, account, boot, semantic routers, theme
resolver, dispatch; proofs of every safety property and action property that a
passing run checks.

Next, in this order:
1. Refinement: `Engine` implements a queue per source (what `HandledInOrder`
   says as a specification of its own), step by step as `RingChannel` implements
   `FifoChannel`.
2. The safety that liveness rests on, as theorems: a worker that is joined has
   been told to stop (`DestroyReturns`), a script that asks has its question in
   the queue or its answer on the way (`QuestionsAreAnswered`), a client that is
   adopted stays so until its connection ends (`AdoptedGetsAll`).
3. A composition of `FfiHandle` with the account part of the tick: the late
   `account_id` as `antenna_account_id` sees it from another thread.
