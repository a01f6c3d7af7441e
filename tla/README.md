# A verification of Bytewire in TLA+

Bytewire is a framework for server-driven user interfaces.  The server keeps one
session, with its own tree of nodes, for each browser; the browser runs a small
Go/WASM client that sends what the user does and applies binary patches.  This
directory holds TLA+ modules of its core (one per component), TLC
configurations that check them on small instances, and proofs for TLAPS.
`PROJECT.json` lists the runs, maps every definition to the lines it models, and
lists findings, hazards, mutants and theorems.

Run TLC with `tlc -config X.cfg M`, where the pairs are those under "Runs", and
TLAPS with `tlapm M.tla` for the eight modules whose names end in `Proofs`.

## 1. Inventory of the system

| Component | State | Operations | What makes it correct |
|---|---|---|---|
| Connection handlers, `engine/server.go` | `Server.sessions` under `Server.mu`, two session metrics, a transport and a context per session | accept, check the pool, register, count, hooks, hello, mount, read, clean up; `Shutdown` | registry and metrics say which sessions live; every way out undoes what was done; hooks in order; shutdown ends everything |
| Session, `engine/session.go` | tree of nodes with dirty marks and pending operations, current path, handlers, pending challenge, prefetch cache | `Mount`, `HandleIntent`, `BeginAuth`, `PrefetchRoute`, `flushDirtyNodes`, `Close` | what a handler changes reaches the browser; requests are answered; panics are contained |
| Rate limiter, `ratelimit` | tokens, time of the last call | `Allow` | burst plus rate bounds every window; refused calls are free |
| Signals, `dom/signals.go` | value and list of observers under a lock | `Set`, `Update`, `Append`, `Observe`, unsubscribe | every observer of a change is told once, and in the end has the present value; nobody hangs |
| Keyed lists and conditionals, `dom/reactive.go` | `nodeMap`, children, pending operations, the active branch | the observers of `For` and `If`, `lisIndices`, `emitInsertTree` | the browser ends with the tree of the session, in its order |
| DOM patching, `wasm/patch.go` | map from IDs to DOM nodes, deferred inserts | one case per opcode | the same, and the map holds what is shown |
| Client connection, `wasm/main.go`, `transport.go`, `offline.go`, `indexeddb.go` | connection, `IsOnline`, offline queue, requests to IndexedDB, backoff | connect, lose, reconnect, queue, drain, persist, load | it reconnects or says so; no intent vanishes unaccounted for, none is sent twice or out of order |
| Broadcast, `engine/broadcast.go` | slices of channels under a lock | `Subscribe`, `Publish`, `Unsubscribe` | all subscribers get a message, slow ones may miss it, nobody crashes |
| Router, `router/router.go` | routes, current path and child | `Mount`, `navigate`, `swapRoute`, `match` | page, address bar and router agree |
| Wire format, `protocol` | - | encoders, `Decode`, `DecodeFrame`, `DecodeAll` | what fits is decoded to itself; frames cannot be confused |
| Passkeys, `webauthn`, `wasm/auth.go` | the pending challenge | `BeginAuth`, `handleClientAuth`, `parseCOSEP256` | an assertion is judged once, by its own challenge; a key gives its coordinates or an error |
| Server-side rendering, `dom/ssr.go` | counter of node IDs | `RenderHTML`, hydration | the client takes over the page |
| Tree diff, `dom/diff.go` | - | `Diff` | its operations turn one page into the other |
| Plugins, metrics, handshake, DevTools | lists of hooks; counters and gauges; versions | `Run*`; `Inc`, `Dec`; hellos; a snapshot | see the handlers and the session |
| Components, styles, charts, certificates, command line | - | - | not modelled, section 8 |

How they interact: a handler goroutine (one per connection) owns its session and
calls `HandleIntent` for each frame it reads; a handler of the application sets
signals; their observers, run by the same goroutine, mark nodes or queue
operations; the flush after the handler encodes them into one frame and writes
it; the client applies it.  Shared between goroutines are the registry (a lock),
the metrics (atomics), signals (a lock for the value only), nodes (no lock), the
pending challenge (no lock) and the hub of broadcasts (a lock that does not cover
the walk of `Publish`).

What is hard: handlers, peers and shutdown in any order; signals changed by
goroutines of components while the reader flushes; observers that change the
signal they observe; functions that run, or panic, under the lock of a signal;
inserts that are deferred while removes in the same frame are not; branches that
appear and change in one flush; frames on separate QUIC streams; a reconnection
with intents, IndexedDB requests and reloads under way; clicks and history moves
while frames are under way; challenges that overlap; slices that share an array.
`hazards` in `PROJECT.json` has each at its line, with the properties that watch
it.

## 2. Modules

| Module | Models | Run by |
|---|---|---|
| `SessionLife` | abstract: the life of a session as `SessionCount` and plugins see it | implemented by `SessionRegistry` |
| `SessionRegistry` | both connection handlers, registry, metrics, life-cycle hooks, shutdown | itself |
| `RateLimiter` | the token bucket | through `Intents` |
| `Intents` | `HandleIntent` and what is behind it apart from DOM events; the client's side of passkeys, hovering, DevTools, handshake; extends `RateLimiter` | itself |
| `SessionFlush` | signal, observer, node marks, intents, flush, transport, client | `MCSessionFlush` |
| `Signals` | values, observers, locks, nesting, panics, unsubscribing | itself |
| `Lis` | `lisIndices` | used by `KeyedList` |
| `KeyedList` | `For`, the operations it queues, the client that applies them | `MCKeyedList` |
| `Browser` | the client's patching of the DOM | used by `DomTree`, `TreeDiff` |
| `DomTree` | `If`, bound texts, attributes and styles, mount, flush, hydration; extends `Browser` | `MCDomTree` |
| `ClientConnection` | connection, backoff, offline queue, IndexedDB, reload | itself |
| `Broadcast` | the hub, down to the shared array | `MCBroadcast` |
| `Navigation` | router, links, browser history and documents, frames under way, reconnection | `MCNavigation` |
| `WireFormat` | layouts, encoders, decoders | `MCWireFormat` in `MCAlgorithms` |
| `TreeDiff` | `Diff`; extends `Browser` | `MCAlgorithms` |
| `CoseKey` | the parser of public keys | `MCAlgorithms` |

The theorems about a module `M` are in `MProofs`, which extends it; there are
eight: `SessionRegistryProofs` (with the refinement of `SessionLife`),
`IntentsProofs` (with those about `RateLimiter`), `SessionFlushProofs`,
`KeyedListProofs` (with the correctness of `lisIndices`), `SignalsProofs`,
`ClientConnectionProofs`, `BroadcastProofs` and `NavigationProofs`.

`KeyedList`, `DomTree`, `SessionFlush`, `Navigation` and `Intents` each compose a
server part, a channel and a client part.  Operators named as mutants (their
comments say so) are not part of the models: each is a plausible mistake that a
property must notice.  The type invariant `TypeOK` of a module is a conjunct of
one invariant of its run.

### State and actions against the code

**SessionRegistry.** `pc[c]` is the place of connection `c`'s handler; a step ends
at a lock, an atomic counter, a hook or a write.  `handleConnection` and
`handleWebSocket` have the same sequence of such steps and share the actions;
they differ in what wakes the reader (`ReaderEnds`: a bad frame ends a WebSocket,
and only its stream on WebTransport) and in what the shutdown does to them.
`WriteMayFail` and `WriteMaySucceed` leave the result of a write to a peer that is
gone open.  `raced` records that two connections were between check and
registration together.

**SessionLife.** What remains without locks, counters and transports: a session is
opened, announced, mounted or lost or refused, told to have ended, and leaves.
The refinement mapping (`Life` in `SessionRegistry`) takes the registry and the
hooks as they are and reads `refused`, `lost` and `cut` off the places of the
handlers and the links.  `LifeSteps` is the safety part, `LifeProgress` the
liveness part.

**Intents.** `toServer` is the one stream of the client, read in order; a message
of the server has a stream of its own, so that `toClient` is a set.  `reader` is
where the reading goroutine is inside `handleClientAuth`: between the check of the
pending challenge, its use and its clearing, a goroutine of the application may
call `BeginAuth`.  A message that is too long (`TooLong`) ends `handleStream`.
Whether a credential is found and a signature valid is left open. `WriteMessage` may fail (`WriteFails`): the error of an answer is logged by
`handleStream` and nothing else, so that the answer counts as unsent.  `messages`
(with the fate of each), `verdicts` and `overlapped` are history.

**SessionFlush.** The fields of a node are read and written one by one, since no
lock covers them: `ObserverText`, `ObserverDirtyAttrs`, `ObserverDirty`,
`ObserverDirtyText` on one side, `CollectDirty`, `Collect`, `Clear`, `ClearDirty`
on the other.  `attributed` says which nodes are elements with a bound attribute
(styles go the same way); the others are texts.  A text is the version of the
value it was formatted from.  `Throw` is the end of the process when two
goroutines are at one map of a node and one of them writes.  The client of this
repository opens one stream, so that a session has one reader.  `Sets` says which
goroutine changes which signal.  A frame may overtake an older one, since
`wtWriter` opens a stream for each (on a WebSocket the order is kept: those are
the behaviours of the model without overtaking).  History variables say how a
change can have been lost: `raced` (an observer wrote to the node while it was
being flushed, or crossed another observer of the same attribute), `dropped` (the
write of its frame failed), `overtaken` and `crashed`.

**Signals.** `calls[g]` is the stack of the calls of a goroutine; one in `notify`
may be inside an observer, which may change the signal again.  `lock` is the
goroutine that runs the function of an `Update`; `FnWaits` is that function using
the signal, `Panic` unwinds all calls and leaves the lock as it is.  `kind`
selects what differs: `Signal` ignores an equal value, `ListSignal` takes a second
snapshot after the lock.  `Computed` is an observer that sets another signal.
`told`, `audience`, `left`, `overlap` and `panicked` are history.

**RateLimiter.** A token is `Unit` units, so that fractions are exact; rounding of
`float64` is abstracted away.  `spent`, `spentAt` and `lastGrant` are history.

**Lis, KeyedList.** `lisIndices` is the code's binary search and chain of
predecessors.  `SetItems` is the whole observer of `For`; `Flush` is the flush and
the application of the frame, with `ApplyOp` one case per opcode and
`AttachDeferred` the end of the frame.  The observer is split as the code is:
`Removal` (what disappears), `Survivors` and `OldNodes` (what stays, in the old and
in the new order), `Placement` (the swap, or the rebuilding).  Several changes may
precede a flush.  A node is a key and the number of its rendering.  Keys are
unique, as `For` requires.  `tailEdits`, `unchanged` and `hasty` are history:
whether the list was only edited at its end, the children before the changes that
wait for a flush, and which of a clear, a swap and a bulk insert were queued behind
a waiting insert of an earlier change, so that the client applies them before it.

**Browser, DomTree.** DOM nodes are numbered; `dom` holds their parents, children,
text, one attribute and one style, `reg` is the client's map.  The session's nodes
are numbered in the order in which they are made, which is also the order of their
IDs above `base`; those of a discarded branch stay, as their observers do.  `Page`
is the component, one record for each place.  `Set` runs all observers of a
signal, `Flush` encodes the dirty nodes of the tree in the order of the walk, the
texts last, and the client applies the message.  `Init` chooses between an empty
page, a page rendered by this process and one rendered before a restart, whose IDs
are given out again (`Collides`).  `doubled` is history.

**ClientConnection.** An action is what runs between two waits of the single
threaded client.  `BlockedCallbackStopsEvents` says what a callback that blocks does to the event
loop; see `blocked_reconnect`.  Each use of IndexedDB opens the database.  Either
that fails, which `loadPersistedQueue` takes for an empty store and the others do
not notice, or a callback panics and the program ends (`Crash`): the one that
should create the object store calls the property `objectStoreNames` as a method
(`indexeddb.go:48`, `:103`, `:122`), and a transaction on the missing store throws.
Nothing is ever stored, so the model has no store.  An intent that is sent over a
transport that is up arrives; `forgone` is history: the intents lost on one of five
occasions.

**Broadcast.** One topic.  `header` is the slice in the map, `arrays` the backing
arrays; `Publish` keeps its copy of the header and reads elements one by one,
`Unsubscribe` moves elements one by one under the lock (the order of the moves is
left open).

**Navigation.** Segments and queries, not characters.  `toServer` is the one stream of the client
and ordered; the limiter or a hook may drop what is read from it
(`DropNavigation`).  A frame of the server has a stream of its own: any of those in
`toClient` may be applied next (`ApplyFrame`), be given up by the client
(`LoseFrame`) or fail to be written (`WriteMessage`), after the flush has cleared
its operations.  A frame is what it removes, inserts and pushes; children of a
container that the browser does not have are attached nowhere.  An entry of the history belongs to a document; moving to an entry of
another document, or clicking a link that a component rendered, loads the page and
starts a client and a session (`Load`).  `swapRoute` includes the flush of its
operations.  A connection of a document is lost once, with what is under way.
`lost`, `overtaken` and `dropped` are history and begin anew with each session.
`ClientConnection` has the end of the program that IndexedDB may cause during a
reconnection, and the blocking that prevents it.

**WireFormat.** `Layout` gives the fields of each opcode; bytes have `Base` values
and length fields wrap.  A batch holds plain frames; a batch inside a batch is
not modelled.

**TreeDiff.** `Diff` case by case, on trees with one attribute and one style per
element; `Browser` applies what it emits.

**CoseKey.** The parser, byte by byte, with a slice that begins past the end of the
data as a panic; `MapBytes` is the reference, how CBOR writes a map.

## 3. Runs that pass

| Run (cfg, module) | Shows | Bounds, and why they are enough |
|---|---|---|
| `registry` (`SessionRegistry.cfg`, `SessionRegistry`) | `RegistryInv` (with `TypeOK` and `PoolLimitUnlessRaced`) and what follows from it (`GaugeAgreesAtRest`, `NothingLeftBehind`); that it implements `SessionLife` (`LifeSteps`, `LifeProgress`); `ShutdownEndsWebTransport` | three connections, one on WebTransport, one slot: two can race for the slot with a third holding it; the theorems cover any number |
| `intents` (`Intents.cfg`, `Intents`) | `WindowBound`, `NoCreditLost`, `OneVerdictPerChallenge`, `AssertionsJudged`, `RequestsAnswered` | burst 2, 3/2 ticks a token, 2 ticks: fractions, cap and empty bucket occur (the bounds of the bucket are proved in general); two challenges, which can overlap; three messages; a cache of one path for two links; a write may fail at any answer |
| `flush` (`SessionFlush.cfg`, `MCSessionFlush`) | `NoLostUpdate`, `UnflushedOnlyAfterPanic`, `HandlerUpdateArrives` | two nodes, each a text or an attribute (single and batched update), one changed by handlers only and one by a goroutine too; two intents, so that a flush can follow a panic or a lost frame |
| `keyed_list` (`KeyedList.cfg`, `MCKeyedList`) | `SameChildren`, `TailEditsKeepOrder`, `MovesAreMinimal` | three keys, two renderings each, bulk insert from two items, one or two changes per flush: every path of `For` occurs, alone and behind a change that waits; the theorems cover lists of any length and any number of changes |
| `dom` (`DomTree.cfg`, `MCDomTree`) | `NothingMissing`, `NoCopies`, `OnlyTextsLeak`, `BindingsFollow` | a conditional inside a conditional, one with and one without an else; three values, one of them empty; four changes, so that a branch can come, go and come again within and across flushes; a second connection |
| `client` (`ClientConnection.cfg`, `ClientConnection`) | `FirstOutageInOrder`, `IntentsAccounted` (with `TypeOK`) | five intents for a queue of two, so that intents reach a server, a full queue and a broken drain before and after an outage; two losses, one reload; the theorems cover any number |
| `broadcast` (`Broadcast.cfg`, `MCBroadcast`) | `ListHoldsOpenChannels`, `UnracedPublishIsExact` | three channels (arrays of 1, 2 and 4 places), two publishers, channels of size one; the theorems cover any number |
| `navigation` (`Navigation.cfg`, `MCNavigation`) | `PageShowsRoute`, `QueryIsNotAnothers`, `AddressReached` | a literal and a parameter route that overlap, a path without a route, one with a query; three moves: forth, back and once more before any frame arrives; one frame of each connection that gets lost, any number that are overtaken or dropped; the theorems cover any number of moves and losses |
| `signals` (`Signals.cfg`, `Signals`) | `EveryChangeToldOnce`, `LastToldIsCurrent`, `CallsReturn` | two goroutines, an observer that sets, two changes: one nested in, or overlapping with, the other |
| `algorithms` (`Algorithms.cfg`, `MCAlgorithms`) | `ExactLimits`, `StreamIntact`, `DiffFollows`, `KeyParsed` | bytes of four values, so that 4 and 16 are the limits of one and two bytes, texts on both sides of both, up to three frames cut at every byte; trees of depth three with up to two children; keys of three and four fields in every order, cut at every byte, and all short strings over the bytes that matter |

Deadlock is not checked where users or clients may simply stop; `keyed_list`
never does.  Symmetry is used for the channels and publishers of `broadcast` and
for the keys of `keyed_list`, whose first list is empty; neither has a liveness
property.

## 4. Where code and documents disagree

Two runs refute a statement of the repository; the quotations and lines are
under `findings`.

| Run | Refuted statement | What happens |
|---|---|---|
| `blocked_reconnect` (`BlockedReconnect.cfg`) | auto-reconnect | `reconnect` waits inside a callback that stops the event loop |
| `link_click` (`LinkClick.cfg`) | clicks on links are intercepted | the listener of `#bw-root` stops the event before the one that would; the browser loads the page |

The blocking is not the only obstacle to a reconnection: with a host that went on
serving events `loadPersistedQueue` could still end the program
(`indexeddb.go:48`), which `client` has as a step.

Other disagreements are behaviours of the models too.  For most of them a passing
property (or a theorem) marks the boundary: it says nothing of this way of going
wrong, so that it would hold of the repaired code as well, and shows that within
the model there is no other.  Where the last column has "-", no property is near.

| What a document or comment says | What the code does | Boundary |
|---|---|---|
| the pool size is the maximum of concurrent sessions (`server.go:109`) | check and registration are two critical sections; connections that race exceed it | `PoolLimitUnlessRaced` |
| `SessionCount` and `SessionsActive` count active sessions (`server.go:165`, `defaults.go:18`) | a failed hello stays in both, a failed mount in the registry | `GaugeAgreesAtRest` leaves such sessions out, `NothingLeftBehind` regular ends only |
| the server shuts down (`server.go:230`) | a WebSocket registered after the loop of `Shutdown` is served on | `ShutdownEndsWebTransport` |
| signals are thread-safe and drive updates (`PRD.md:441`) | a change between the reading of the text and the clearing of its mark is lost; so is one whose frame cannot be written or is overtaken; two goroutines at a map of a node may end the process | `NoLostUpdate`, `HandlerUpdateArrives` |
| the node is updated when the signal changes (`elements.go:119`), observers learn of every change (`signals.go:108`) | with two goroutines, or an observer that sets the signal, the older value may be told last | `NoLostUpdate`, `LastToldIsCurrent` |
| a panic of a handler is recovered (`session.go:181`) | one in the function of an `Update` leaves the signal locked | `CallsReturn` |
| there is a flush loop (`architecture.md:203`) | only intents flush; what a goroutine changes waits for the next one | `HandlerUpdateArrives` |
| `For` renders the list, its moves bring the items into order (`reactive.go:68`, `:137`) | all moves and inserts append at the end: an insertion in the middle is shown last | `TailEditsKeepOrder` |
| one `ClearChildren` replaces N removes (`reactive.go:93`), one `SwapNodes` two moves (`reactive.go:158`) | with two changes in one frame, a deferred insert survives the clear, and a swap with a node whose insert is deferred calls a method of null | `SameChildren`, unless `hasty` has a clear or a swap; `KeyedListProofs` shows that there is no other exception as long as each frame arrives, and in order (lost and overtaken frames are the matter of `SessionFlush`) |
| new items are inserted in bulk (`reactive.go:225`) | a bulk insert overtakes inserts of an earlier change in the same frame | `TailEditsKeepOrder`, unless `hasty` says so |
| returning "" removes the attribute (`elements.go:133`) | an attribute that is "" at first is sent empty | `BindingsFollow` says nothing of it |
| `StyleF` binds an inline style (`elements.go:157`) | a subtree that appears later is sent without styles | `BindingsFollow`, from the first change of the signal on |
| an insert shows a node once | a container that is new and flips in the same flush is sent twice, and its texts are shown twice | `NoCopies` |
| removed nodes are forgotten (`patch.go:651`) | texts below a removed element stay in the map | `OnlyTextsLeak` |
| 30 s until the client gives up (`architecture.md:316`, `main.go:275`) | the total is compared after the sleep: six waits, 35 s | - |
| the queue is FIFO and is drained on reconnection (`PRD.md:1308`) | it is flushed before it is sent: what a new connection that drops does not take is lost | `IntentsAccounted`, `FirstOutageInOrder` |
| queued events are persisted (`architecture.md:326`; `indexeddb.go:17`: in IndexedDB); "A full page refresh loses queued intents" (`PRD.md:1339`) | the two contradict each other; the object store is never created, nothing is kept, and the attempt may end the program | `IntentsAccounted` |
| `IsOnline` tracks the connection (`offline.go:59`); interactions are buffered, not lost (`PRD.md:1285`) | it is not set again after a reconnection, so that later clicks wait for the next loss; a queued click names a node that the new session does not have | - (`IntentsAccounted` only says that they wait) |
| `Publish` sends to all subscribers (`broadcast.go:28`) | `Unsubscribe` shifts the array under a running `Publish`, which skips one, serves one twice, or sends on a closed channel and panics | `UnracedPublishIsExact` |
| after a reconnection the page is as before | the new session is at "/", or where the queue leads, whatever the address says | `AddressReached` speaks of the first connection only |
| a navigation changes the page | the limiter or a hook drops it, its frame is lost after the operations have been cleared, or overtakes an older one | `PageShowsRoute`, `AddressReached` |
| requests are answered | the error of a write is logged only (`server.go:436`) | `RequestsAnswered` |
| the route's query is current (`session.go:306`) | a navigation that changes the query only is ignored by the router, and the back button sends no query | `QueryIsNotAnothers` |
| the back button works | it pushes an entry: what was forward is gone | - (`AddressReached` only says that page and address agree in the end) |
| a challenge is answered | a second `BeginAuth` meanwhile: the late assertion uses up, or its answer erases, the newer challenge | `AssertionsJudged` |
| messages are handled in order | one of more than 65536 bytes ends the reading, not the connection | `RequestsAnswered` |
| `Diff` emits the mutations needed (`diff.go:5`) | nodes of another kind are not replaced, styles not removed, inserts may name an unknown parent | `DiffFollows`, where the trees are comparable |
| "byte/text string" (`verify.go:206`) | a text string is refused | `KeyParsed` leaves that open |
| `DecodeAll` reads all frames (`decoder.go:330`) | `Decode` has no case for 0x0E, 0x0F and 0x14 to 0x16 (`ServerOps`), at which `DecodeAll` stops | `StreamIntact`: a beginning in any case, all of it where there is a case for each opcode |

## 5. Fairness

- `SessionRegistry`: weak fairness of each handler's steps (the Go scheduler runs
  what can run), of a reader whose link is down (the read returns an error) and of
  a shutdown that has begun.  None for clients, peers or the decision to stop.
  `Progress` of `SessionLife` follows from it.
- `SessionFlush`: weak fairness of the reader's steps between two intents, of
  observers that have begun and of the arrival of frames.  None for intents.
- `Intents`: weak fairness of the session's reader and of the arrival of its
  messages.  None for users, the browser's prompts or the clock.
- `Signals`: weak fairness of the steps of calls that have begun; observers and
  functions return.  None for new calls, nor for a function that waits or panics.
- `ClientConnection`: weak fairness of the close event, of IndexedDB and of the
  steps of `reconnect` (timers fire, an attempt succeeds or fails).  None for
  users, losses or reloads.
- `Navigation`: weak fairness of the reading of navigations and of the arrival of
  frames, whatever becomes of them then (handled or dropped, applied or given up).
  None for users and losses.

## 6. What is proved

The proof modules follow one pattern: an inductive invariant, its initial case,
lemmas on the operators of the model, one lemma per action or group of actions,
the theorem, and corollaries.  Each inductive invariant was first checked by TLC
on small instances.  The theorems hold for every value of the constants that
satisfies the named assumption of the module, the bounds (`Max...`) included, so
that they speak of any number of moves, changes, messages and losses.

| Module (assumption) | Theorems |
|---|---|
| `SessionRegistryProofs` (`RegistryAssumption`) | `RegistryInvariant`, `TypeCorrect`, `PoolLimitHolds`, `GaugeAgrees`, `RegularEndIsClean`, `HooksInOrder`, `RegistryImplementsLife` |
| `IntentsProofs` (`LimiterAssumption`) | about `RateLimiter`: `LimiterInvariant`, `LimiterTypeCorrect`, `WindowBounded`, `CreditKept` |
| `IntentsProofs` (`IntentsAssumption`, `LimiterAssumption`) | `IntentInvariant`, `SessionUsesLimiter`, `SessionWindowBounded`, `OneVerdict`, `AssertionsOwnChallenge` |
| `SessionFlushProofs` (`SessionAssumption`) | `FlushInvariant`, `NoUpdateLost`, `FlushedUnlessPanic` |
| `KeyedListProofs` (none) | about `Lis`: `LisCorrect` |
| `KeyedListProofs` (`ListAssumption`) | `KeyedListInvariant`, `ChildrenSame`, `TailEditsInOrder`, `MovesMinimal` |
| `SignalsProofs` (`SignalsAssumption`) | `SignalInvariant`, `ToldOnce`, `LastTold` |
| `ClientConnectionProofs` (`ConnectionAssumption`) | `ConnectionInvariant`, `OutageInOrder`, `NoIntentVanishes` |
| `BroadcastProofs` (`BroadcastAssumption`) | `BroadcastInvariant`, `ListExact`, `PublishExact` |
| `NavigationProofs` (`NavigationAssumption`) | `NavigationInvariant`, `PageExact`, `QueryOfPath`, `SettledAddress` |

The assumptions give the constants their types (a queue, a channel or a unit is
not empty, channels and connections are finitely many), say that `Nil` is none of
the things it stands beside, that a signal has a value and a page a node, and
that the reader is not one of the background goroutines.

**SessionRegistry.**  None of the properties is inductive as it stands: that the
gauge is never negative, for example, needs to know who is counted.
`RegistryInv` therefore states that `sessions`, `active` and `total` are exactly
determined by the places of the handlers (`RegistryExact`, `GaugeExact`,
`TotalExact`), that closed sessions have no transport and hooks fit the places
(`LifeExact`), and the pool limit.  `Move` says what the move of one handler does
to the cardinality of the handlers in a set of places; each of the step lemmas
(`RegistryStep`, `GaugeStep`, `TotalStep`, `LifeStep`, `TypeStep`, `HoldersStep`)
has one step per action and uses it.  For `RegistryImplementsLife`, initial states
map to initial states, and under `RegistryInv` each action maps to one action of
`SessionLife` or to a stuttering step.  The invariant is needed because the guards
of the abstract actions speak of the registry and the hooks (a session that is
mounted has had its connect hook and is registered) where the code only knows the
place of the handler.

**RateLimiter.**  `WindowBound` is not inductive: the bucket may hold tokens that a
window has yet to grant.  `LimiterInv` bounds the sum of what a window has granted
and what the bucket could grant at once (`Potential`); a tick raises both sides by
at most `Rate`, a grant moves a token from one summand to the other, a refusal
changes neither.

**Intents.**  `SessionUsesLimiter` says that the session implements the limiter
(each action is a step of `RateLimiter` or leaves its variables alone), so that
the theorems on the limiter hold behind `HandleIntent`.  `StreamInv` ties the
messages on the way to the counters: what was read is a prefix, each message of
it counted once.  `OneVerdictPerChallenge` alone does not exclude that a challenge
which was judged is judged again; `VerdictInv` says that every judged challenge is
older than the pending one and than the one being judged, which a `BeginAuth` in
the middle of `handleClientAuth` preserves.  `FlightInv` says that without an
overlap one challenge at most is on the way, in one of four places (a frame, a
prompt, the client's stream, the reader's hands), that it is the last, and that it
is pending.

**SessionFlush.**  The property speaks of states of rest; the invariant of every
state between them.  `FlushInv` says of each node that was not raced: it is being
observed, or marked, or its text is in the updates of the running flush, or in the
newest frame on the way that carries the node, or with the client, or it was
dropped or overtaken.  That its marks can be trusted is `MarkInv`; that an update
is not older than the text unless the node is marked again is in `FlushInv` too;
`SetterInv` ties the text to the signal where one goroutine sets it.  `HandlerInv`
is for `UnflushedOnlyAfterPanic`: a node that handlers alone change is clean
whenever neither a handler nor a flush is at it, unless there was a panic.

**Lis.**  `LisCorrect` is the correctness of an algorithm: for every sequence of
integers `lisIndices` marks an increasing subsequence, and no increasing
subsequence is longer.  The binary search returns the number of tails below the
value (`LowerBoundExact`, by induction on the length of the range).  `LoopInv` is
the invariant of the loop: the tails increase, the links lead back to smaller
values, the tail of length n ends a linked chain of length n (`Depths`), and no
increasing subsequence of what was read is longer than the tails or ends lower
than the tail of its length (`Best`).  `ChainFacts` follows the links.

**KeyedList.**  `SameChildren` and `TailEditsKeepOrder` speak of states with an
empty queue, so they are not inductive.  `ListInv` speaks of `Played`, the client as
it would be if the queue were applied now: it knows exactly the children of the
list, has each once in the browser or among the deferred inserts (`ShownInv`), and
with edits at the end shows them, and then attaches them, in the order of the list
(`OrderInv`).  `ServerInv` ties the children to `nodeMap` and says that what was
removed was rendered before and never comes back, so that a new node is known
neither to the list nor to the client.  A change appends to the queue, so that its
effect on `Played` is that of its own operations (`AppliedConcat`), which are
followed part by part: the removes or the clear (`RemovalShown`), then the swap or
the rebuilding (`PlacementShown`, with `RebuildShown` along the loop).  The flush
reads the parent of an insert when it encodes it, where `Played` does not know of
removals; `OrphansOnlyDefer` shows that the two clients differ only in deferred
inserts of nodes that have been removed again.  `MovesMinimal` follows from
`LisCorrect`: what the operations move is exactly what `lisIndices` left unmarked
(`RebuildMoves`, `PlacementMoves`).

**Signals.**  `PlaceInv`: an observer has one place in the list, which it keeps
until it unsubscribes.  `TellInv`: every call that tells has a change that no
other call has, and the list it still has to walk names each observer once, and
none that has been told.  Then nobody is told twice (`ToldInv`), and whoever was
registered has been told or is named by such a list (`DoneInv`), through all
nesting.  `LastInv` is the same for the value that is told last.

**ClientConnection.**  `IntentsAccounted` is not inductive: that a queued intent
has not been received needs to know that what waits is newer, and that an intent
that is sent at once finds the queue empty.  `OrderInv` says that what was received
ascends and what waits ascends after it, over any number of losses, drains and
loads of the page; `NothingWaits` that nothing waits while `IsOnline` is 1.

**Broadcast.**  `ListInv` states the property for the list as it will be when the
running `Unsubscribe` has moved its elements (`Elem`, `Members`), and so holds
between the moves.  `ExactInv` is about the slice that a publisher has copied:
without an `Unsubscribe` since then, appending writes behind it or to a new array,
and the channels up to the publisher's index are those that were dealt with.

**Navigation.**  `PageShowsRoute` speaks of settled states; the invariant of what
is on the way.  `LeavesInv`: what the browser shows, or a frame will insert, and
the router does not, will be removed by a frame behind it, or would have been by one
that was lost.  `ArrivesInv`: what the router shows is shown, will be inserted, or
was lost, and the tree is there or comes first.  Both hold until a frame is
overtaken, over any number of lost frames and dropped navigations.  `QueryInv`: the
router's page is in the history, or the last frame pushes it, or it was lost.
`ChainInv`: without losses each frame but that of `Mount` pushes.  `AddressInv`: if
nothing on the way will push an entry (`NoPush`), router and address agree;
`NoPush` is weaker than being settled, as a navigation on the way to where the
router already is pushes nothing.  The frames that stay when one is taken out of the
middle are named by `Before` and `After` (`TakesOut`).  `match` takes the least
index, so that a lemma on the minimum of a set of numbers is needed (`LeastNumber`).

### What the proofs changed

- `QueryIsNotAnothers` had been limited to the first connection, and
  `EveryChangeToldOnce` to observers that had not left.  Neither limit is needed.
- `KeyedList` had been checked with one change per flush, because more than one
  breaks `SameChildren`.  The proof needed to know exactly when: a clear or a swap behind an insert of an earlier change in the same frame, and
  nothing else as long as frames arrive in order (for the order of the items, a bulk
  insert too).  `hasty` records it, and the model, the run and the
  theorems now cover any number of changes per flush.  The folds of the observer
  and of the frame became operators of their own, so that lemmas can be stated
  about them; the binary search of `Lis` is a function of the pair of its bounds.

### Only model-checked

- Liveness: `LifeProgress`, `ShutdownEndsWebTransport`, `RequestsAnswered`,
  `HandlerUpdateArrives`, `CallsReturn`, `ReconnectDecides` and `AddressReached`
  (its safety part is `SettledAddress`).  The prover has no rules for fairness.
- `DomTree` and `Browser` (`NothingMissing`, `NoCopies`, `OnlyTextsLeak`,
  `BindingsFollow`), `TreeDiff` (`DiffFollows`), `CoseKey` (`KeyParsed`) and
  `WireFormat` (`ExactLimits`, `StreamIntact`) are recursive over trees, bytes and
  frames, with RECURSIVE operators, with which the prover loses its arithmetic.

What a recursive function computes can be proved when it is written as a function
over an interval and the induction is stated with sets: the library's induction
theorems take an operator as a parameter, which the provers cannot instantiate, but
a set of numbers that has 0 and with n also n + 1 has all of them (`AllNumbers`),
and the same goes for sequences (`AllSequences`).  `KeyedListProofs` does all its
inductions that way.  The modules above would have to be rewritten so.

## 7. Plan

Done: the modules and theorems above.  Next, in the order of what they are worth:

1. `WireFormat` and `CoseKey` with functions in place of RECURSIVE operators, and
   the inductions of `KeyedListProofs` for them.
2. `KeyedList` with items that are trees, on top of `Browser`.
3. The pool of buffers.

## 8. Not modelled

Components, charts and the canvas (static builders and drawing), styles (tables
of names and text output), certificates, command line and examples.  Hashing,
JSON and signatures of passkeys: one choice of the environment.  Within modelled
components: logging, the HTML of the page shell, TLS, `float64` rounding, several
topics, nested batches, `OpReplaceText` (nothing sends it), the error overlay, a
mismatch of protocol versions (which only shows it), `EncodeBatch` and the pool of
buffers (only tests call the one; the other changes no bytes for the callers there
are), the second bound text of an item in bulk HTML (`reactive.go:358`), the panic
of a navigation handler, which nothing recovers and which ends the program
(`session.go:209`).
