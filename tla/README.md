# A verification development for RoM

RoM (`src/`) is a Rust workspace around a Minecraft-compatible server: the server
itself, the libraries of its protocol, game and world, an installer that builds a
server instance from official artifacts, and an importer that analyses Java
bytecode. This directory holds TLA+ models of the parts where threads, bounded
channels, shared state, files and long sequences of operations meet, the TLC
configurations that check them, and TLAPS proofs of the results that matter most.

Paths below are relative to `src/crates/`. `PROJECT.json` maps every definition to
the lines it was translated from, lists the hazards of the code with the properties
that watch them, and gives every property a mutant: a plausible bug in a mapped
definition under which its run fails.

## 1. Inventory

### 1.1 Components, state and operations

| component | where | state it keeps | operations |
|---|---|---|---|
| Bounded input queue | `ferrum-runtime/src/lib.rs` | a FIFO and a next sequence number per `ConnectionId`, a hand-kept counter | `push`, `drain_tick`, `remove_connection` |
| Fixed-rate clock | `ferrum-runtime/src/lib.rs` | next deadline, next tick | `take_due` |
| Worker hub | `ferrum-runtime/src/worker.rs` | a command channel, registered output channels, the input queue | `try_connect`, `try_send_*`, `try_disconnect`, `ingest_available`, `try_send_output`, `try_broadcast_output` |
| Authoritative Play runtime | `ferrum-server/src/authoritative_runtime.rs` | per connection: pending keep-alive, last request, ticks since | `poll`, the handlers of a tick |
| Connection endpoints | `ferrum-server/src/{play_connection,play_input,play_writer,shared_runtime}.rs` | the two halves of a connection, the writer thread | submit, receive, write, close |
| Protocol session and handshake | `ferrum-protocol/src`, `ferrum-server/src/main.rs` | a phase and its marks beside the handler's place in the code | `receive`, `send`, `handle_connection_protocol` |
| Live Play loop, chunk view | `ferrum-server/src/play_runtime.rs` | keep-alive round, chunk view, position, session | `run_play_loop_with_bridge` |
| Shared world | `ferrum-server/src/play_runtime.rs` | chunks, an update queue per connection | `apply_event`, `drain_block_updates_for`, `chunk` |
| Game and world snapshot service | `ferrum-server/src/{game,world}_service.rs` | a thread, a command channel and a file each | `save_now`, autosave, `shutdown`, load |
| Game runtime, replication | `ferrum-server/src/game_{runtime,replication}.rs` | the game state under a lock, subscribers; active connections and their pending outputs | operations and publication; register, activate, dispatch, flush |
| Game state | `ferrum-game/src/{state,player,entity,command,persistence}.rs` | players, names, entities, vitals, modes | connect, move, damage, respawn, commands, capture, restore |
| Inventory and containers | `ferrum-game/src/{inventory,container,state}.rs` | slots, cursor, open container, drag, state number | clicks, creative slots, give, clear, death |
| Server life cycle, console, admin GUI | `ferrum-server/src/{main,admin_gui}.rs` | admission counts, guards, the shutdown flag | accept, `try_enter_play`, `save-all`, `stop`, shutdown |
| Chunks, Anvil regions, persistence format | `ferrum-world/src`, `ferrum-play/src/lib.rs`, `ferrum-server/src/world_service.rs` | sections, palettes, region files | import, encode, save, load |
| Version packs | `ferrum-rompack`, `rom-bootstrap/src/extract.rs`, `ferrum-server/src/main.rs` | packet and registry records | generate, validate, build a profile |
| Bootstrap installer | `rom-bootstrap/src` | the files of an instance | `prepare`, `generate`, `setup`, `install-local`, `doctor`, `run` |
| Importer | `ferrum-importer/src/bytecode.rs` | none | decode, control-flow graph, lowering |
| Packet framing, other codecs, model, CLI | `ferrum-server/src/codec.rs`, `ferrum-nbt`, `ferrum-configuration`, `ferrum-model`, `ferrum-cli` | none | encode, decode, print |

### 1.2 How they interact

A connection's **handler thread** takes a client from its first packet through login
and configuration (`ProtocolSession` beside it) into the Play loop. There it reads
packets, hands every decoded input to the **authoritative runtime** through the hub's
command channel, changes the **shared world** and the **game state** directly under
their locks, and sends its client what it should see through the same channel. One
**runtime thread** owns the hub: it ingests commands, runs the due ticks over the drained
inputs and sends to each connection's output channel. One **writer thread** per connection
drains that channel to the socket. Each of these sends is a `try_send`: what does not
fit is lost or handed back.

Operations on the game state publish events; the **replication thread** turns them into
packets for every active connection. The **game service** and **world service** threads
save snapshots on request of the console and the admin GUI, by interval and at
shutdown. The **main thread** accepts connections, joins them once a stop is requested, and
shuts replication, runtime, game service and world service down in order.

Before all that, `rom-bootstrap` builds an instance on disk and a version pack in it,
from which the server takes its packet ids.

### 1.3 What is hard here, and what makes each part correct

* *Queue*: counter, numbering and round robin must survive removals between drains, rounds
  cut by the budget and FIFOs that run empty inside one.
* *Hub*: two workers can share an id; a `Disconnect` travels behind inputs of one
  and in front of another's. Its revocation must hit exactly the former.
* *Authoritative runtime*: a keep-alive exchange crosses four bounded queues; state
  that late inputs create again must be forgotten.
* *Sessions*: the handler's place and the `ProtocolSession`'s phase must never part; a
  position lives in the loop, in the game state and in the client.
* *Shared world*: snapshots, coalesced and bounded update queues and a player's own
  changes all write one client's picture.
* *Snapshot services*: what was reported saved must be what a restart loads, across
  failed file operations and kills; nobody may wait for ever.
* *Replication*: events are published after the lock is released and dispatched against the
  state as it is by then.
* *Game state, inventory*: names, players and entities must agree; items must neither
  vanish nor double; the client must be told of everything.
* *Life cycle*: admission in three steps, undone one by one; a shutdown with early
  returns must leave nothing unsaved.
* *Worlds, packs, instances*: damaged regions, edited packs, killed installers.
* *Importer*: two decoders of one byte string must agree.

## 2. The modules

    InputQueue ── WorkerHub (refines InputQueue)      FixedRateClock
        └─ AuthoritativeRuntime
    Connection ── PlayLoop                            SharedWorld   SnapshotService
    GameState     Containers (refines ItemLedger)     EntityMotion  ItemOutputs
    Replication   Server     Bytecode                 Instance      VersionPack   WorldData

A line is EXTENDS. `MC…` modules give the constants their values. A `…_proofs` module
extends every component it is about (section 5). Components that share no variable are checked side by side in one
run: `MCServer` (the life of the process, and queue and clock, the two parts of its tick),
`MCWorkerHub` (the hub that carries a player's inputs, and the inventory they act on), `MCSharedWorld` (the world
and the service that saves it), `MCGameState` (the state and two views other clients have of
it), `MCDisk` (instance, packs, world files). In each, one part moves while the others rest,
and a property of a part at rest holds trivially there.

* **InputQueue.** `pending`, `nextSequence`, `len` are the fields of `BoundedInputQueue`.
  `Push` and `RemoveConnection` are single steps; `drain_tick` is modelled iteration by
  iteration (`BeginDrain`, `BeginRound`, `Visit`, `EndDrain`), so that the loop's own
  invariants can be stated. While it runs nothing else happens: the code holds `&mut self`.
  `served` and `consumed` are history.
* **FixedRateClock.** `PollDue`, `PollEarly`, an error at the end of tick numbers;
  `ran` and `dropped` count what happened to each tick.
* **WorkerHub** adds the command channel, the registrations, the output channels and the
  workers to the queue's variables. `UsesQueue == QueueSpec` says that what the hub does to
  its queue is a behaviour of the queue's specification. A ghost field `n` of the
  payload numbers a worker's inputs.
* **AuthoritativeRuntime.** The owner's `poll`: ingest, forget the unregistered, run ticks
  (`ExecuteInput`, the keep-alive pass). The connection's threads and its client are the
  environment. Connections that are not followed appear only as the ids they use up (`AskOther`).
* **Connection.** The handler from the handshake over status, login and configuration to Play,
  with each of its `ProtocolSession` calls, against a client that conforms or sends anything,
  over two FIFO streams.
* **PlayLoop.** The bootstrap acknowledgements and every branch of the loop: ticks, keep-alive
  rounds, movement with its checks and the chunk view, respawn, chat, commands, ignored
  packets. The entity's position is changed by commands too, under another lock.
* **SharedWorld.** The store as a map of block states, one update queue per subscriber, the part
  of the loop that touches them. `Interact` is the check under the first lock, `Apply` the
  change under the second. `view` is what the client has been sent.
* **SnapshotService.** A service thread, its channel and its callers, `write_atomic` file
  operation by file operation, each of which may fail; the process may be killed anywhere
  and started again. `state` is a version count. Both services run this protocol.
* **Replication.** Sessions (from `try_enter_play` to the drop of the guard), the console and the
  replication thread around the game state. An operation is two actions: one under the lock,
  which leaves its event in `unpublished`, and `Publish`. `picture` is what a client will
  have made of all that is queued for it, `entities` what the connection tracks. A queue that overflows tries a
  Disconnect, which the runtime's full channel may refuse; `cut` is the history of these.
* **GameState.** The operations of `GameState` on players, names, entities, vitals and modes, the
  commands with their permissions and targets, capture, restore and detach.
* **Containers** and **ItemLedger.** Every operation of a container session and of an inventory,
  with all the clicks that the decoder lets through; `ItemLedger` is the abstract specification: items stay, are reported as
  dropped, or come and go by an operation that keeps the books (and may drop some on the way,
  as closing a container does with a cursor that finds no room).
* **EntityMotion.** The packets of a movement (relative, rotation, head, teleport) and what a client makes
  of them, in units finer than a packet's.
* **ItemOutputs.** Which stacks reach a player's own client and which equipment reaches others, with stacks that
  cannot be encoded and a hand that changes between event and dispatch.
* **Server.** The accept loop, a thread per connection with `try_enter_play` and its rollbacks, the
  guard's drop, the console and the GUI, and the shutdown with its early returns.
* **Instance.** `rom-bootstrap`'s commands over the files of an instance, step by step, with kills, failed
  steps, lost files and republished artifacts.
* **VersionPack.** The pack generated from two reports, edits of it, its validation by `doctor` and by the
  server, the profile built from a pack, the built-in one or the configuration, and the checks
  before the server listens.
* **WorldData.** Regions with damaged, misplaced and misfit chunks, the flat world, sections with their
  counts, palettes as they are sent, and the snapshot of the world with its validation.
* **Bytecode.** A method is written nondeterministically, decoded, cut into blocks, lowered and then executed,
  so that the reports can be compared with executions. Lowering keeps the table of locals: a load pushes a value of
  the type declared for its slot, or inferred from the first store there, whatever its opcode says.

## 3. The runs

| run | what it shows | bounds |
|---|---|---|
| `hub_and_inventory` | revoked inputs never reach a tick; the hub refines the queue; a disconnect takes effect | two workers of one id, 2 and 1 inputs, command channel 2, output channel 1, queue 2: every channel is full most of the time |
| | drags resolve; events tell all; the ledger | 2 items (one stacks, one does not), a slot per range, a chest slot, 2 items in all, state numbers that wrap at 2 |
| `authoritative_runtime` | a client that answers stays; rounds go on; state is reclaimed | 1 followed connection, channels of 2, 2, 1, interval 2, ids saturate at 3 |
| `snapshot_restart` | *violation*, section 7 | as in `shared_world` |
| `shared_world` | the client's blocks are the world's or the update is queued; updates leave; reported saves are on disk; calls return | 4 blocks in 2 overlapping views, queue of 2 drained one by one: coalescing and overflow both happen; two callers as in the program, 2 changes, 3 starts: a loss can be followed by a save and another restart |
| `replication` | a quiet server shows every living player as it is; who plays is served, or was given up for an overflow, once | 2 players, 3 sessions (two of one player, so that an old guard meets a new session), 4 operations on one of them; subscription of 2, 2 pending outputs, flushes with room for none or 2: events are lost and queues overflow |
| `replication_overflow` | *violation*, section 7 | as in `replication` |
| `game_state` | registries agree; captures restore; events tell changes; movements add up; items are current | 2 players, 3 spellings of 2 names, entity ids up to 4 (they run out), health 2; fractions and turns of 2, steps that are short and long, 2 movements behind; 2 hotbar slots and a helmet, one stack that can be encoded and one that cannot, 3 changes |
| `session` | session and handler agree; a conforming client understands, shows its place, stays | every configuration, a conforming client or any packet, radius 1, moves of at most 1 (a step is just allowed), 3 acts of the client, 2 keep-alive rounds, 5 ignored packets |
| `server_and_tick` | one session per player; exit is complete; a stop completes | 2 connections of one player, 1 change, 1 order each of console and GUI |
| | accounting and numbering, fairness inside every drain; the clock never drifts, repeats or loses a tick uncounted | 3 ids, capacity 5, 3 numbers each, budgets 0, 2, 3, 5: a budget ends at the first, a middle or the last place of a round; interval 3, catch-up 2, polls early, on time and up to four ticks late, ten ticks |
| `bytecode` | executions follow the graph; the IR's operands are the executed ones | every method of 5 instructions of a common kind, or fewer around rare ones, a rare instruction or a handler weighing two (weight 5), and methods of 5 constants, loads and stores of either width and `pop2`; one local, with any declared type; stacks up to 3 |
| `disk` | records match; setup repairs and is idempotent; packs start or are refused for cause; worlds load, are shown and saved | 3 faults, 2 artifacts, 2 reports; 1 region pair, 23 sources, palettes that overflow, 2 changes; every subset of 12 packet records |
| `live_session_packets` | *violation*, section 7 | as in `disk` |

Why these are enough. The queue treats connections alike but for their order, so three suffice
to have one before, at and after the place where a budget ends (and this is proved for all).
In the hub only workers that share an id interact beyond the queue. In the authoritative
runtime connections share only the id counter and the capacities, both exercised by the
environment. Peers in the world act on a player only through changes and the queue they fill. In
replication a connection is touched by one event at a time and by its own session. In
the game state a name concerns one holder and one claimant. In the server a second player
changes only a count. `MaxOps`, `MaxActs`, `MaxOrders`, `MaxFaults`, `MaxChanges`, `MaxStarts`, `MaxVersion`,
`MaxRounds`, `MaxItems`, `MaxMoves` bound how long the environment goes on; the other constants
are capacities of the code at a smaller scale.

Deadlock checking is off where a system may really come to rest: bounded inputs are used up, the
process or the connection has ended, a method has returned. Type invariants are definitions of
the modules (`…TypeOK`); most are proved (section 5), for the others other properties would
break first, so no run spends time on them.

## 4. Fairness

* *Hub*: `SF(Ingest)` and `WF` of the steps of a drain under way: the owner's thread polls for
  ever and each poll ingests before it ticks; ingestion is disabled during a drain, hence the
  strong form. Nothing is assumed of workers.
* *Authoritative runtime*: the owner polls for ever with a clock that keeps falling due, a tick's
  budget (1024) exceeds what the players of the program can have queued, the writer writes, and,
  for `KeepAliveRounds` only, the client keeps ticking and answering.
* *Snapshots*: the service thread runs; it calls `recv_timeout` between any two autosaves, so a
  waiting command is taken infinitely often if it can be. File operations return, with success or an error. Neither
  callers, nor kills, nor restarts are fair.
* *Shared world*: the loop runs on; a socket read returns within its timeout, and each pass ends
  with a drain. Nothing is assumed of the client or of peers.
* *Server*: main, connection threads and operators' calls run on, and players leave in the end. The last is
  not enforced by the code: a Play loop does not look at the shutdown flag, so a stop waits
  until every player has left (`main.rs:739`). The greeting phases end by their 10 s timeouts.

## 5. Proofs

A proof module extends all the components it is about; but for the hub and its queue these share no
variable.

| module | about | for every | theorems |
|---|---|---|---|
| `Server_proofs` | queue | set of connections, capacity, budget | `QueueIsCorrect`, `DrainIsFair`, `DrainDelivers` |
| | clock | interval, catch-up limit, delays | `ClockIsAccurate` |
| | hub | workers, capacities | `HubRefinesQueue`, `IngressBalances`, `RevocationHolds` |
| | server | clients and the players they name, orders | `OneSessionPerPlayer`, `ExitSavesEverything` |
| `Runtime_proofs` | the runtime | connections, interval, largest id, capacities | `AnsweringClientsStay` |
| | inventory, containers | items, maximum counts, layout, container sizes, counts given | `ContainersTypeCorrect`, `DragSlotsAlwaysResolve`, `EventsTellTheInventory`, `InventoryKeepsTheLedger` |
| `PlayLoop_proofs` | connection and loop | configurations, limits, places, chunks of places, radius | `SessionStaysWithHandler`, `ClientUnderstandsTheServer`, `ClientIsShownItsPlace`, `HonestClientIsKept` |
| `SharedWorld_proofs` | the world | connections, positions, chunks, queue limit, drain limit | `ClientsSeeTheWorld`, `WorldTypeCorrect` |
| | snapshot services | callers, channel, changes, starts | `SnapshotTypeCorrect`, `SavesAreOnDisk` |
| `Replication_proofs` | replication | players, sessions, places, queue limits, events lost | `PicturesAreCurrent`, `PlayersAreServed`, `ReplicationTypeCorrect` |
| `GameState_proofs` | game state | players, names, positions, modes, limits | `RegistriesStayInAgreement`, `SavesCanBeLoaded`, `OperationsTellTheirChanges` |
| | movements | sizes of coordinate and angle, places, lag | `ErrorsDoNotAddUp` |
| | items | slots, stacks, encodable or not | `ClientsKnowTheItems` |
| `Disk_proofs` | instance | artifacts, reports, faults | `InstanceTypeCorrect`, `RecordsMatch`, `SetupAlwaysRepairs`, `SetupKeepsWhatIsReady` |
| | version pack | packet kinds, numbers, configurations, edits | `RunningServersHavePackets`, `GeneratedPacksStart` |
| | world files | sources, edges of sections and regions, bits of words and indexes, blocks | `SavedWorldsLoad`, `ClientsReadTheChunks`, `SeedsAreTheRegions` |
| `Bytecode_proofs` | importer | operations, length and depth of methods, exception tables | `CfgIsFollowed`, `IrFollowsExecutions` |

Each proof has the same shape: an invariant that implies the property, a lemma that it holds at
first, a lemma for every action (or for a group of actions that touch the same parts), and the
temporal step.

* **Queue.** `QueueInv` joins the types, the counter (`len` is the cardinality of the set of
  occupied slots, hence the slot lemmas) and `RoundInv`: a round in progress only contains
  connections that still have inputs. The last is what makes `Visit` safe: the code unwraps
  `pop_front` on keys of a snapshot. `FairShare` alone is not inductive, as it does not say who is
  behind: between two rounds everybody who waits has been served as often as the most served, inside
  one exactly those not visited yet are behind by one. `DrainDelivers`: what is drained and what is
  left add up.
* **Hub.** Each action maps to one of the queue or to a stutter, so all that is proved of the queue
  holds inside the hub. `RevokedInputsGone` needs `ChannelOrder`: a worker's inputs travel in the
  order of their numbers, above what was ingested and up to what was submitted.
* **Clock.** The property is inductive with its types; the proof is the arithmetic of one split of
  the ticks that are due.
* **Server.** Which session stands for a connected player: the invariant names the threads between
  the first step of admission and the last of the guard's drop. `ExitIsComplete` rests on an order:
  once the main thread has joined, no connection changes anything, so what a service saved when it
  went down stays all there is (`ClientsAreJoined`, `LastSavesAreComplete`), and which services are
  down follows from main's place (`ServicesAreStopped`).
* **Authoritative runtime.** `Exchange`: the one request or answer of an open connection is in
  exactly one of the outbox, the client, the command channel and the queue, with the id the runtime
  waits for; it is nowhere while the runtime waits only if a full queue dropped it. `Fresh` adds
  that nobody asks for the removal of an open connection and that one the hub does not know has sent
  nothing but commands still on their way. A wrong answer then has nowhere to come from.
* **Connection and loop.** `SessionFits` says for each step of the handler which calls on its
  `ProtocolSession` are behind it; it must hold for a client that sends anything. The second theorem
  needs the packets in flight: `Conversation` lists, for every phase a conforming client can be in,
  the steps the handler may be at and exactly what may be on its way in both directions, in Play too.
* **The place of a client.** A stream in flight is a path: `Becomes(q, s, x, R)` says that the packets
  of `q`, one after the other, each by a step of `R`, lead from `s` to `x`, and the first lemmas say what
  appending and taking a packet do to such a path, so that no fold is unrolled in the proofs of
  the steps. `PlaceInv` uses it three times: the views on their way lead from what the client shows
  to what the loop has loaded (`ViewArrives`), the moves on their way lead from the entity, or from
  the loop's copy between its refresh and its synchronize, to where the client is, unless a teleport is still
  to come (`Walked`), and deaths and respawns on their way, published or sent, lead from the life the
  client shows to that of the entity (`LifeIsShown`). `Boot` orders what the bootstrap waits
  for, so that a first move is never ahead of its acknowledged teleport.
* **The honest client.** `HonestInv` adds, while no command has teleported the player and the runtime
  has not asked it (`Honest`): an answer or a request in flight is the one the session waits for
  (`Heartbeat`); no life is lost or given twice (`ProperLife`), and a wish to respawn has at most one
  grant, with no move behind it until it is granted (`OneWish`); teleports lead to the spawn
  (`HomeOnly`), in the bootstrap with the id it waits for (`OnlyFirstTeleport`); each leg of the walk in flight is one
  that the loop accepts (`Route`); and each packet that the loop or the bootstrap ignores, read or on
  its way, is an act of the client (`Known`, `Early`). In the configuration `AuxiliaryInv` counts the client
  informations. `Ended` then looks at each place where the handler fails.
* **Shared world.** `QueuesAreCurrent` is stronger than the property needs of the moment: whatever
  waits in a queue is the world's last word on its position even when the client has not got the
  chunk, for it may be sent the chunk next. With `ViewsAreCurrent` (a position not queued is seen as
  it is, unless stale) and `ShownIsKnown` (a client ignores an update only of chunks it lacks) a
  push, which may drop the front of a full queue and replaces an older update of its position, keeps
  the client right.
* **Snapshots.** What was reported saved is covered by what a start would load, outside the window
  of section 7. The property says nothing of a save before its last step, so the induction needs
  `Covers` (a snapshot being written has captured what was acknowledged), `Requests` (a waiting
  caller has one request), `Behind` and `Phases`.
* **Replication.** An event is about an entity id, a connection about a player, and ids are handed
  out while events wait. `Owning` and `Connected` therefore speak of a map from ids to players that
  only grows, so that a late event never touches another player's entity. `Telling`: the last
  undispatched event about a player is still true of it. `Tracking`: what a connection tracks of a
  player is right in every respect of which no event is to come. The dispatch of one event restores
  what that event was about; activation spawns all at once, by a fold over the players online.
  `PlayersAreServed` adds where each session's own connection is on the way into the game, or that
  the thread has given it up (`Accounted`); it holds whether the runtime's channel takes a Disconnect or refuses it.
* **Game state.** The two indexes are not enough: that a name leads to its bearer is kept by a join
  only if no two players share one (`NamesAreOfOnePlayer`), and a capture can be loaded only if who
  is away has no entity (`AwayHasNoEntity`). The loading lemmas show that a start leaves no entity
  behind; the largest id of a file exists because ids are bounded. `EventsTellChanges` is an action
  property: operation by operation, what changed of each connected player is told (`Told`), which
  for an entity needs that no two players have the same.
* **Motion.** What a client has never leaves the interval between the packet coordinate that the
  connection remembers and the next (`Within`): a relative step carries it from one such interval
  into another, whether the client rounds or floors, so nothing accumulates.
* **Items.** The property is about a queue that has run empty. The invariant says of any queue that
  the last change waiting for a slot holds what is in the slot (`LastChangesHold`), and of a slot
  that nothing waits for that the clients have it (`OwnClientKnows`, `OtherClientSees`).
* **Inventory.** Items are counted as finite sets of units (a cell and a number within its stack),
  so that moving some is adding to one set what is taken from another. The operations of the code
  are loops over slots, folds in the model; the first lemmas show that a fold whose steps stay in a
  set ends in that set (by the least index at which it would not), and the loops are then given an
  invariant each: `Insertion` for the merge and fill of a stack, others for spreading, gathering,
  giving and removing. Every operation ends in a `GoodOutcome`: real stacks, slots that resolve,
  events that tell each slot changed, and the units of before in cells or dropped. `StepGood` joins
  the invariant and the step of the ledger.
* **Instance.** `InstanceInvariant` is stated of the files as they will be once the replacement
  under way is through (`Settled`), so that a kill between its two renames needs no case of its own.
  A manifest vouches only for the pack of its own artifact (`Vouches`); `Repaired` and `Kept` say,
  step by step, what a setup has put in order so far, or found in order.
* **Version pack.** `RunningServersHavePackets` says which packet of those in use a running server may lack: the list
  entry, and only where no player entities are registered (section 7). Where the table the server works with comes from (`LoadedFromPack`,
  `LoadedFromConfiguration`), and which check decided what became of the start (`StartIsSound`); an
  unedited pack is the one that was generated and checked.
* **World files.** Sections count their own blocks whatever operations were applied (`Counted`), so
  the count written equals the count read; a store that comes from a good seed stays one that passes
  the validation of the next start. That a chunk is read back from its packet is arithmetic, with
  bits and edges that are variables. Each palette and each word is what a loop computes, and
  what a loop keeps (`PaletteFor`, `Stacked`) is shown by the least turn at which it would not be so.
  Powers of two are counted as sets of subsets, from which their sums and order follow; a
  value in a word is then the remainder of the quotient, as the values below it stay under
  its place (`WordIsBounded`) and those above are a multiple of the next (`WordAbove`). A palette too large
  for a packet is one that could not have as few bits as the largest value has
  (`PaletteIsBounded`), so that the client, who sees only the number of bits, takes neither form
  for the other. For the seed, a position is split into region and slot in one way only, so each chunk
  comes from the one file named for its region (`DirectoryHasItsFiles`), at its own height
  (`SectionIsRead`), until something changes the store (`SeedInvariant`).
* **Importer.** Decoding is a function over the instructions, and so is lowering, which goes on from
  the offset that it has found itself; both exist by induction on the length of the method. Since
  each lowering is as wide as what was decoded (`LoweringFits`, table by table), they meet at every
  offset (`LoweringVisits`). The graph is followed because whatever enters or leaves a block is a
  leader (`LeaderFollows`, `TargetLeads`, `HandlerLeads`) and what ends at a leader is the last
  instruction of its block (`BlockEnds`), the one whose successors are taken. For the operands three
  stacks are compared: that of the block alone, from an empty one or a caught exception, that of lowering, and the
  machine's. In a block that leaves nothing the first never gets stuck (`NeverStuck`); lowering arrives at
  each block with an empty stack and then does what the block does (`LoweringAgrees`); the machine
  has the block's stack, or the same without the exception at the bottom where a handler is
  reached by a jump (`Matches`), and what an operation takes does not depend on what is
  further down (`FurtherDown`). What `pop2` takes depends on widths, hence on the types of locals: where each
  local keeps its width (`LocalsKeepTheirWidth`), the table of lowering only ever holds that width or none
  (`LocalsFit`), so that a load pushes a wide value exactly where its opcode says so (`LoadsFit`).

Proof attempts that failed said something of the models. The ledger did not allow a closing
container to drop items while its contents are forgotten: `MaxItems` was too small for TLC to see
it, and `ItemLedger` now allows it. A client that respawns while it is placed could walk, in the model, before the
teleport of its new player had come, and `HonestClientStays` was false of a respawn far from the
grave: `Respawned` now takes the placement away, as a client does. A client confused by a packet of
the loop was not noticed by `ClientUnderstands`, which now speaks of Play as well. `Resolve` had overlapping cases for a negative slot number. And
`ServedOrGivenUp` was false of three sessions of one player when the oldest has lost its
connection to a full queue: its late unregister removes that of the second, whose own then removes
that of the third. `usurped` marks the sessions to which this can happen. A block that
gets stuck went on, in `BlockStack`, from a stack of four unknown values, which enough pops make empty: a longer
method than the run has could count as made of statements while lowering came to a handler with
values to spare and no exception. Stuck is now a state of its own. And the successors of a
terminator were overlapping cases where a branch leaves the code (its target is no leader).

Assumptions: the named `ASSUME`s of the modules, which TLC evaluates on the instances. They say that
sets of players, connections and threads are finite, capacities and limits natural (positive where a
zero would make a channel that takes nothing), tables defined on their keys, and "none" values
distinct from real ones; for the game state, that a first start finds only what a save writes; for
packs, that the built-in table agrees with the official numbers (`ProfileAssumption`) and a path
names one packet in its phase and direction (`PathsAssumption`); for worlds, that a block state and the number of
cells fit into a packed word, that the flat world has the heights of the profile
(`StatesAssumption`), and that who wrote the regions listed each height of a chunk once and named one file
for a region (`SourcesAssumption`); for methods, that their operations are among those that have a
lowering (`OperationsAssumption`). One theorem has a hypothesis beside
them. `HonestClientIsKept` is about limits that leave a client
room (`RoomForHonesty`): a step of the client is no longer than the largest move
(`MAX_PLAYER_MOVE_DELTA`), it acts less often than the loop ignores packets
(`MAX_IGNORED_PLAY_PACKETS`; the answer to the first view is counted too), and it changes its
settings less often than the negotiation of the packs allows. The count of ignored packets is one for
the whole session, so the theorem is about sessions that end before it runs out (item 9 of section
8). The run's constants satisfy the hypothesis, with nothing to spare for moves and settings.

Only model-checked:

* All liveness (`DisconnectTakesEffect`, `StateReclaimed`, `KeepAliveRounds`, `UpdatesDelivered`,
  `CallsReturn`, `StopCompletes`): TLAPS does not reason about fairness through `ENABLED`.

## 6. Plan

Done: all modules of section 2. What would come next, in this order:

1. A composition of the chunk view with the bounded output channel, with rates of writer and reader:
   the first burst at radius 8 (289 chunks) exceeds the 256 slots of `main.rs:95`.
2. The tick loop of the game service (time, catch-up) under `GameState`.
3. Framing under read timeouts as a module of its own.

## 7. Findings

Three runs look for a state that a document, a comment or a test of the repository rules out, and find it.

1. **The snapshot window** (`snapshot_restart`). `write_atomic` removes the old file before it renames the
   new one over it (`game_service.rs:286`, `world_service.rs:301`). A kill in between leaves no snapshot,
   and the start begins afresh, ignoring the complete temporary file beside it.
   `docs/WORLD_PERSISTENCE.md:8` promises atomic replacement.
2. **The missing list entry** (`live_session_packets`). Activation queues a `PlayerInfoUpdate` for the session's
   own player on every server (`game_replication.rs:433`), and the writer ends the connection if the
   packet has no number (`main.rs:2350`). The start asks for it only where `minecraft:player` is registered
   (`main.rs:933`), and the built-in table has none (`ferrum-version-26-1-2/src/lib.rs:69-116`), nor
   has a pack generated without reports: the server runs, and each live session fails.
   `ferrum-protocol/src/lib.rs:186` calls the kinds that are checked those "required by the current native server
   core", `docs/packet-catalog.md:11` says that a setup without a report "remains usable".
   `RunningHasItsPackets` says what the checks do ensure: nothing else is missing, ever.
3. **The refused disconnect** (`replication_overflow`). A connection that overflows is cut by a `try_disconnect` over
   the same bounded channel whose lack of room made it overflow; the answer is ignored, the next
   flush forgets the connection, and nobody tries again (`game_replication.rs:131-138`). Its player may play
   on unserved, where a test speaks of `output_overflow_disconnects…` (`game_replication.rs:2183`).
   `ServedOrGivenUp` says what holds all the same.

## 8. Divergences that the models describe

The models contain these behaviours and the properties say where they end. Where a document says
otherwise, it is named.

1. *Two keep-alive sources.* The loop ends the session on any answer whose id is not its own
   (`play_runtime.rs:597`), while the authoritative runtime sends requests of its own numbering to
   the same client (`authoritative_runtime.rs:212`; `docs/SERVER_ROADMAP.md:52`). `HonestClientStays` excludes clients asked twice.
2. *Placement is checked under one lock and applied under another* (`play_runtime.rs:751`): two players
   can place into the same air block (`docs/SERVER_ROADMAP.md:229`).
3. *A player that leaves early ends replication.* `PlayerConnected` is dispatched against a state in
   which its player may be gone; the error ends the thread and nobody can join afterwards (`game_replication.rs:525`).
4. *A spawn that sends nothing.* A dead player that respawns where a connection tracks it is not shown again
   (`game_replication.rs:973`).
5. *A disconnect that is refused*: finding 3.
6. *A world of another height.* Chunks seeded from regions are never compared with the profile's range
   (`main.rs:644`, `world_service.rs:205`), so such a world, or one with no loadable chunk, is saved and rejected at the next start;
   `SavedWorldLoads` holds for `GoodSeed`s.
7. *Packs.* A registry report without a packet report yields a pack with player entities and no packets for them:
   `doctor` says ready, the server refuses. A server without `server.profile` can never start,
   as `[protocol]` cannot name the four vitals packets that `main.rs:913` requires. One without player entities
   runs without a packet for its players' own list entries (finding 2).
8. *IR operands.* Lowering simulates the stack in byte order, so operands of a value that crosses blocks can be wrong
   (`docs/ROADMAP.md:42`), and an entry block with a single back edge has no phi.
   `IrOperandsAreExecuted` is about methods made of statements. A `LocalVariableTable` with several entries for
   a slot leaves the last one's type, whatever its scope (`bytecode.rs:944`), which counts as declared here.
   A local's type is that of its first store (`bytecode.rs:2037`), and a load takes it whatever its opcode
   (`bytecode.rs:1679`): where a compiler uses a slot again for values of another width, `pop2` takes one operand
   too many or too few (`iconst_0; istore_0; lconst_0; lstore_0; lload_0; pop2`). The property is about methods whose
   locals keep their width (`LocalsKeepTheirWidth`); a wide local must also be declared, or stored ahead of its
   loads in the order of the bytes.
9. *Teleports and the Play loop.* A command that moves a walking player more than 100 blocks, or below the floor, ends its
   session at the next movement. The count of ignored packets is never reset, so a long session ends at 1024 of them.
10. *The admin GUI's stop* answers 500 before it sets the flag when a save fails, so with a failed service only the
    console can stop the server (`admin_gui.rs:225`). The console thread is not joined: its commands after the final save are lost.
11. *Republished artifacts* make a ready instance unready; a packet report is ignored when a verified pack is reused.

History variables mark what is excluded: `stale` in SharedWorld (an older update of a
peer sent after the player's own change, or one that fell off a full queue), `lost` in
AuthoritativeRuntime (a dropped part of an exchange), `disturbed` in Replication (a lost event, or one that overtook an older one),
`usurped` there (a session whose connection another session of the player has called for),
`missed` in ItemOutputs (a stack that cannot be encoded).

## 9. Not modelled

* Packet framing: packets are whole. A read timeout in mid-packet loses bytes (`codec.rs:16`) and leaves
  every later packet arbitrary, so only the end of the connection could be promised.
* NBT, configuration and the other codecs: byte layouts with unit tests.
* The model types, the class-file reader and the CLI of the importer; descriptors, and
  types in Bytecode beyond the width of a value: data and text. Long and double values come from constants and locals only
  (array loads, arithmetic, fields and calls of that width are pushed alike), and what the machine keeps in its
  locals is left out. More than 8 branches are not reached in the bounds.
* HTTP, metrics and authentication of the admin GUI: I/O. Loading of configurations beyond what packs need.
* The game tick, time, difficulty, rules, food and experience; the writer's drain at shutdown; the `debug_assert` on
  the hotbar slot (the models are of a release build).
* Poisoned mutexes, and threads that die by an error of another one's panic.
* Power failures that reorder file operations: the models kill the process, not the disk. Two installers at once
  (nothing locks the directory).
* The agreement of the game's and the world's snapshot, saved one after the other (`main.rs:801`): no
  document promises it.
* Abstracted data: one axis for three and one angle for two in EntityMotion; one horizontal axis in WorldData and
  block containers for biome containers too; in Containers the offhand slot stands for all slots outside
  storage; in GameState a stop and the start that follows are one step, and absorption is left out; in Replication a position is a number and outputs
  that concern only the own client only take room; in VersionPack item and entity registries only, and packet reports vary under the plain configuration.
