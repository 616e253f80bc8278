# Verification project for e172

e172 is a C++20 game engine library. An application is one loop
(`GameApplication::exec`) over a list of entities; a server application
replicates its entities to client applications over sockets and gets the
clients' input events back. This directory holds TLA+ models of that core and
of the library's utilities, the TLC runs that check them and proofs checked by
TLAPS. Source paths below are relative to the library's `src/` directory.

## The system

| Component | State it keeps | Operations | Interacts with |
|---|---|---|---|
| `RingBuf` (utility/ringbuf.h) | array, two cursors | push, pop, top, peek, len, push_ability | the reading half of every socket |
| Package framing (utility/package.h, buffer.h, io.h) | none: length, type and payload in a byte stream | `WritePackage::push`, `ReadPackage::pull` | a socket below, server and client above |
| `MemNetworker` (net/mem) | two byte queues shared by two sockets, a queue of connections | listen, connect, write, bufferize, read, peek, isConnected | framing; `GameServer` pulls connections |
| `LinuxNetworker` (net/linux) | descriptor, `m_isConnected`, ring | the same over TCP | the kernel |
| `GameServer` (net/gameserver) | clients, next id, queues of entities added and removed, queue of events | sync, refreshSockets, pullEvent, entityAdded, entityRemoved, custom packages | observer of the application's list; event provider of its `EventHandler` |
| `GameClient` (net/gameclient) | socket, own id | sync and the process functions of the packages | adds entities to its application, emits `DestroyEntity` messages, pulls its event provider |
| `Entity`, `NetSync` | id, tags, dirty fields | assignment, writeNet, readNet, needSyncNet | written by the server, read by the client |
| `GameApplication` | entity list, observers, tasks, timers, quit flag | exec, addEntity, schedule, quitLater, observeEntityLifeTime | calls user code everywhere |
| `CyclicList` (utility/cycliciterator.h) | list and one iterator of its own | nextCycle, erase, push_back | the application's entity list |
| `MessageQueue`, `Context` | messages per id, promices | emit, pop, flush | the loop and the user's code |
| `WriteBuffer`, `ReadBuffer` (utility/buffer.h) | bytes, read position | write, writeWithLoss, writeDyn, the reads and skips of the same | framing, entities, events |
| `EventHandler`, `Event`, `MemEventProvider` | a queue of events; keys, mouse and text per client | update, queries, pullText, serialize | an event provider; the application's loop |
| `Context`'s settings, `Observer` | a setting's value and its watchers; the .vof file | settingValue, setSettingValue, connect, assignment | `Additional`'s readVof and writeVof |
| `PriorityProcedure` | a queue of functions | push, exec | user code |
| `Signal`, `Callback` | functions, with or without an object | connect, disconnect, call | user code, `ptr` |
| `Object`, `ptr` | a life flag shared by every `ptr` | construct, copy, end, destroy | everything |
| `SharedContainer` (images, samples, channels) | data and a counter shared by handles | attach, detach, assignment, `Image`'s operations | external providers |
| `Variant` | one value of any type, owned | assignment, comparison, conversion, JSON | settings, messages, assets |
| `AssetProvider`, `Loadable`, executors, factories | templates, creators, init functions, the path assets are looked up from | registering, loading, creation | user classes |
| `AbstractStrategy` | the active module, names | registering, activate, deactivateCurrent | a factory |
| `FlagParser` | arguments left, flags declared | declaring, checking | the program's `main` |
| `Additional` | none | paths, text functions, .vof files | JSON, settings, assets |
| `PhysicalObject`, `Kinematics` | position, rotation, mass, a dirty flag | forces, joints, proceed, net read and write | `Entity` |
| `CellularAutomaton` | a matrix, a rule | proceed | user code |
| `Colider` | edges, position, matrix | narrowCollision | physics of the user's entities |
| `AudioPlayer`, `AudioChannel` | the player's state; a handle of a channel | play, stop, proceed, volume, distance | an external provider |
| graphics, time, debugging, system access | external handles | | |

The difficult behaviour is where actors meet: server and clients run
concurrently and a client may connect, leave or lose its connection between any
two loops of one `sync`; bytes arrive in pieces of any size; entities are
created and destroyed while their additions and removals wait in queues; and
every callback of the application loop may change the list, the messages, the
tasks or the observers that the loop is going over. The utilities are mostly
sequential, and what is difficult about them is reentrance (callbacks that
connect, disconnect, assign, push, create or end what is being gone through),
ownership (handles, life flags, variants) and long sequences of legal calls.
`PROJECT.json` lists the hazards at
their lines, each with the properties that would catch it or a note.

What makes each component correct:

* ring buffer: it is a bounded first-in first-out queue;
* framing over a socket: packages come out whole, once and in order, and those
  that fit come out in the end or the reader finds the connection broken;
* buffers: what was written is read, and a read past the end fails and gives out
  nothing;
* server and client: no client misses an entity, is told about one it does not
  have, keeps a value that was overwritten or loses a replica of a living
  entity; ids agree; events arrive once and in order; each side notices that
  the other is gone;
* application loop: list, iterator, observers and messages stay consistent
  whatever the callbacks do; messages are served before they are flushed, tasks
  run once, the loop ends when it is told to;
* input: keys, text and the exit flag are what the last events of each client
  make them;
* callbacks: a function connected with an object is called only while that very
  object lives, and none that is due is left out; procedures run once, by
  priority; a watcher has heard the value there is;
* ownership: data is freed once, with its last handle; a variant's value is its
  own; one module of a strategy is active and only that one exists;
* data: settings survive a restart, JSON comes back as it went, paths lead where
  their parts lead, flags have the values the arguments give them;
* bodies and sound: a resting replica is where its original is and no number
  stops being one; colliding shapes can be moved apart; a pattern goes on over
  the edge of an automaton; what sounds is what the player's state says.

## Modules

| Module | What it is |
|---|---|
| `BoundedQueue` | abstract: what `RingBuf` promises |
| `RingBuf` | the ring buffer; `ImplementsQueue` is the refinement |
| `PackageChannel` | abstract: what framing promises over a connection that may go down |
| `PackageStream` | push and pull of packages in a stream of bytes |
| `MemStream`, `LinuxStream` | one direction of a connection over either socket; both refine `PackageChannel` |
| `Replication` | server, clients and connections, with whole packages |
| `MessageQueue` | messages and promices |
| `GameApplication` | the loop, with `MessageQueue`, `CyclicList`, observers and tasks |
| `SharedContainer` | counted handles, and the operations of `Image` on them |
| `PriorityProcedure` | the queue of procedures |
| `Signals` | `Signal` and `Callback` over `ptr` and `Object` |
| `Assets` | `AssetProvider`, `Loadable`, templates, executors and their factory |
| `FlagParser` | flags and arguments |
| `Physics` | a body, its replica and the packages between them |
| `CellularAutomaton` | a matrix and its twin shifted along it |
| `Audio` | player and channel |
| `Strategy` | `AbstractStrategy` over its factory |
| `Variants` | `Variant`: ownership, comparison, conversion |
| `Settings` | settings, observers and the .vof file, with `Variants` |
| `Json` | `toJson` and `fromJson` on the text functions of `Additional` |
| `Paths` | the path functions of `Additional` |
| `Buffer` | both buffers |
| `Scancodes` | the keys, and the characters of letters and digits |
| `Input` | provider and `EventHandler`, with `Buffer` (events travel as bytes) and `Scancodes` |
| `Colider` | two shapes and `narrowCollision` |
| `Lists` | what is erased from a list while a loop goes over it |
| `*_proofs` | the theorems, see below |
| `MC*` | instances for TLC; `MCUtilities` and `MCData` put modules side by side |

**RingBuf.** One action per operation; `result` is what the operation returned,
so the refinement compares answers as well as contents. The constructor leaves
the array uninitialised, hence any array is initial. The refinement mapping
reads the queue out of the array from `m_begin` on.

**PackageStream, MemStream, LinuxStream.** A byte has `Base` values and a length
has `LenSize` bytes; with two-valued bytes payloads look like headers, which is
what a wrong cut would need to go unnoticed. `wire` is what is written and not
read, `m_buf` the ring's contents (a queue, by `RingBuf`). `push(p, n)` writes a
package of which the device takes n bytes, `pull(k)` moves k bytes into the ring
and cuts out a package if it is there. `MemStream` has the shared queue whose
ownership tells whether the other end lives; `LinuxStream` has a kernel that
keeps a connection in a backlog from `connect` to `pullConnection`, holds a
bounded number of bytes, takes of a package what it has room for, hands the bytes
over in any pieces, and resets the connection, which `bufferize` notices only
while its ring has room. An uncaught exception of `write` ends the writer
(`PushThrows`). The history `whole` counts the packages before the first short
write: the properties promise those, since nobody looks at what `write` returns.

**Replication.** `pc` is the loop of `GameServer::sync` the server is in; each
turn of a loop is an action, and clients act between any two of them. The rest
of the server application runs in the same thread, only while `pc` is "idle".
Packages travel whole and in order, which is what the stream models establish
for `MemNetworker`. `acceptOne` includes the `clientConnected` callback, which
may add an entity, as the server of `tests/integration/clientserver` does. A
client is its socket, id, replicas, the `DestroyEntity` messages that wait for
its loop, its event provider and its quit flag. `serial`, `accepted`, `left`,
`since` and `handled` are history.

**GameApplication.** `pc` names the part of the loop, `turn` the place in the
list that part goes over. Where the code calls user code (an entity, an
extension, an observer, a promice, a task) `calling` is set and `userCode` may
add entities, emit messages, schedule tasks, ask to quit or drop an observer, any
number of times, until `return`; what popped and flushed messages do to their
promices is known by then (`outcome`) and done by `return`, as the code settles a
promice behind its callbacks. An observer that is told may end others, which the
loop then drops; other things observers do once all of them were told. A
timer's check is a choice unless the duration is 0. `throttled` stands for a
proceed interval or a mode that does not proceed.

**SharedContainer, Signals.** Addresses are used again: an object may begin where
another ended, and a handle's counter is named after the data it was made for.
`Signals` interrupts a call of the signal at every function it calls, and there
the program may connect, disconnect, copy and end objects.

**Assets.** `creating` is the stack of creations: an init function may create
another loadable. `parsing` is the stack of `parseTemplate` calls: an executor that
proceeds may hand an object of its asset back, and `m_executorPath` is what each
executor was told last, by whichever call. `m_executorPath`, `fullPath` and
`createTemplate` are steps of their own, so that what is resolved behind an inner
call uses the path that call left. With a relative `args[0]` each inner call puts the program's
folder before the path once more; `InTheirFolder` makes that exception.
An executor is taken to do nothing with the provider but resolve paths and make
or look up templates.

**Settings, Variants.** A program has settings in memory and a file per
directory; `Restart` forgets the first and may start in another directory. An
`Observer` that is assigned calls its watchers one by one; `frames` is the stack
of assignments that are under way, since a watcher may assign again. The history
`stored` is what was last written to each file, `lastSet` what a setting was last
asked to be, also if `operator==` found that to be no change (`SetSame`).

**Json, Paths.** Texts are sequences of symbols, a word or a number being one.
The functions of `Additional` are operators over them. A document is written,
its layout is changed, and it is read and written again; a path is typed symbol
by symbol, and compared with where walking its parts leads.

**Buffer, Input.** Fields are written, and all or the first of their bytes read.
Events enter the provider, travel as bytes where they have a client, and are
pulled by `update`; the history `sent` says what the state must be. Text is
compared with the names that `operator<<` gives the keys, and with one character
for each key that is no letter or digit. For U under shift `keySym` has T
(eventhandler.cpp:188), although the key is named U: of that one `TextIsTyped`
does not say which character it is.

**Physics, Colider, CellularAutomaton.** Numbers are integers in place of
doubles. The body moves along one axis and turns by quarters; division rounds,
and a division by zero yields `NotFinite`, which spreads as NaN does. Shapes have
edges along the axes and at half a right angle, whose projections are integers of
a small enough unit. A matrix has a twin: the same pattern shifted, evolving by
the same rule, which the code's index arithmetic must not tell apart.

**Audio, Strategy.** The channel is that of an external provider: it plays a
sample and may end it, unless it loops. Modules are named, registered anew,
activated and deactivated; the factory's objects remember the name they have.

Definitions marked "Slip" in a module are a plausible mistake in the definition
after them: with the slip in its place some property must fail, which shows that
the property depends on the code. No other definition uses them.

## Runs

Passing:

| Run | States | What it shows |
|---|---|---|
| MemStream | 9,476 | framing over the memory socket: whole packages in order, a suffix lost at a close |
| LinuxStream | 751,550 | the same over TCP from connect to close, in any pieces, with short writes and resets: up to the first short write, each package that fits is delivered or the reader knows of the break |
| ReplicationState | 2.5 million | state replication with two clients, two entities, one assignment |
| ReplicationEvents | 117,093 | ids, events of two clients (two each), leaving and stopping |
| GameApplicationSafety | 1.7 million | list, iterator, observers, promices and messages, with two observers, two messages and two additions |
| GameApplicationLiveness | 183,343 | tasks, autoIteratingEntity, requests and quitting, with two tasks |
| Utilities | 0.44 million | ring buffer (the refinement), containers, procedures, signals and callbacks, assets, flags, automaton, physics, audio and strategy |
| Data | 0.54 million | variants, settings, JSON, paths, buffers, input and colliders |

Runs that find a disagreement with the documentation or a test (`findings`
quotes it):

| Run | What happens |
|---|---|
| LinuxStreamShortWrite | a short write drops the tail of a package; the reader cuts the rest in the wrong places |
| ReplicationLateJoiner | a client that joins late does not get values sent before |
| ReplicationDuplicate | an entity that waits in the add queue when a client joins is added there twice, and the second replica is never updated |
| VariantEquality | two variants of different number types are equal whatever they hold |

The components that `MCUtilities` and `MCData` check know nothing of one another.
A behaviour of these runs picks one of them in its initial state (`subject`) and
takes only its steps, so the run is the sum of its parts and not their product.
`MCUtilities` extends the modules rather than INSTANCEing them, so that TLC
evaluates the assumptions their theorems use.

Several properties say "unless" or "as long as", and each such condition is
something the code really does otherwise: a procedure that pushes one which goes
before itself takes that one's place off the queue; a null variant assigned to a
full one leaves its data behind; a watcher that assigns makes those after it hear
the older value last; a player without an ending sample cannot be stopped; a body
that gravitates towards its own place has no position any more; a body slower
than `cmpf` can tell moves away from its replica; shapes with equal projections
do not collide; a matrix whose width is no power of two does not meet at its
edges; marks of JSON in a key cut the text elsewhere; a package that does not fit
the ring blocks those behind it; a setting that is a number does not become a
number of another type, and one set by a program started elsewhere is not read
again; an object inside an asset moves the folder of a program started by a
relative path. The exceptions are part of the properties
because the models have these behaviours.

**Bounds.** `MaxPackages`, `MaxEntities`, `MaxAssigns`, `MaxEvents`,
`MaxMessages`, `MaxTasks` and `MaxAdds` bound how often something is done;
`MaxRuns` caps a history counter. Three packages suffice for one cut wrongly, one
behind it and one to collide with, and for a short write with room again behind it:
the kernel's seven bytes hold two small packages or a part of the second; the ring of five bytes holds two empty
packages and one byte more, or one of two payload bytes exactly. Two clients are
enough for one to act between the server's turns for the other; two entities for
an order between them; one assignment beside the two values every entity starts
between (a constructor's and the first). `ClientIds` is 2, so ids wrap as soon
as a third client could exist; the id properties say "as long as the counter has
not gone round". Two messages and two additions let one request meet another and
let an entity be added in the middle of a handler. The ring buffer has four slots
(as in `tests/unit/ringbufspec.cpp`) and two values. Three handles and four
pieces of data let a family share a counter and be derived from twice. Four
procedures at two priorities let a function push both before and behind what
waits. Two addresses for three objects make one be used again. Four arguments
are a mandatory flag with its value and a second flag with its own. One object inside the assets of a file lets an
inner `parseTemplate` change the path of its executor under the outer one, and
two creations nest, of loadables with two init functions or none. Two
generations on a 4x2 and a 3x2 matrix cross each edge. Three steps of physics
are forces, joints and ticks in any order, with writes and reads between them;
`resetPhysicsProperties` is tried with velocities as large as the position and
the turn it sets. Two fields of ten kinds and values are cut at every byte. One restart, three assignments and two
watchers let a setting be set before it, after it and by a watcher. Three input
events of two clients and nobody go with any updates and pulls of text between
them. Six symbols spell paths as
long as `../a/.`. Documents are containers two deep, whose leaves have the blanks
and marks that could confuse the text functions. `SizeBits` is 16 for the 64 of
size_t: only divisibility by a power of two matters. Connections and observers are
symmetric in the safety runs, and so are the places of loadables, the addresses
of objects and the ids of settings; no run with a liveness property uses symmetry.
Deadlock is not checked where the program may come to rest: clients closed,
bounds reached, the loop ended.

**Fairness.** `LinuxStream`: the reader pulls again and again, since the doc
comments of both `sync` functions ask for calls at equal intervals and
`scheduleRepeated` makes them, and the kernel hands over what it holds.
Replication: the server's sync goes on, and each client runs both loops and its
own application loop. Nothing is assumed about users, connecting, closing or
assigning. Application: the loop goes on and every call into user code returns.
No other module states fairness, and none needs it: their properties are about
safety.

## Proofs

Every theorem is about its module's specification, whose Init and Next the runs
take, for every value of the constants; TLAPS checks all proofs to the last leaf. The theorems and the
inductive invariants behind them:

| Theorem (module) | Property | By |
|---|---|---|
| `RingIsQueue` (Utilities) | `ImplementsQueue` | `CursorsStayInside`; the length of the contents under wrapping; one operation at a time |
| `MemImplementsChannel`, `MemInOrder` (MemStream) | `ImplementsChannel`, `InOrder` | `StreamInv` |
| `LinuxImplementsChannel`, `LinuxInOrder` (LinuxStream) | `ImplementsChannel`, `WholeInOrder` | `StreamInv` |
| `TypeCorrect` (Replication) | `TypeOK` | itself |
| `IdsAlwaysAgree` | `IdsAgree` | `IdsInv` |
| `EventsStayInOrder` | `EventsInOrder` | `EventsInv` |
| `AlwaysFound`, `NoneMissing`, `RemovedOnly` | `NothingNotFound`, `NoEntityMissing`, `OnlyRemovedVanish` | `IInv` |
| `WrittenAlwaysArrive` | `WrittenValuesArrive` | `ValuesInv` |
| `ListNeverDangles`, `ObserversKnow` (GameApplication) | `NothingDangling`, `ObserversAgree` | `ListInv` |
| `TasksRun` | `TasksRunOnce` | `TasksInv` |
| `PromicesKept` | `PromicesMatchMessages` | `MessagesInv` |
| `HandlersSeeMessages` | `MessagesServed` | `HandlersRan` |
| `ValuesAreOwned` | `OwnsItsValue` | `VariantsInv` |
| `SettingsAreKept` | `SettingsKept` | `FilesInv`, `ToldInv` |
| `WatchersAreTold` | `WatchersHeard` | `WatchInv` |
| `FreedOnce` (Utilities) | `FreedWithLastHandle` | `ContainersInv` |
| `ProceduresInOrder` | `EachOnceInOrder` | `ProceduresInv` |
| `LivingReached` | `OnlyTheLivingReached` | `SignalsInv` |
| `HandedOutReady` | `LoadablesReady` | `ParsingInv`, `TemplatesInv`, `LoadablesInv` |
| `ReplicaAgrees`, `OnlyCentredLosesNumbers` | `RestingReplicaAgrees`, `NumbersStayFinite` | `PhysicsInv` |
| `AudioFollowsState` | `SoundsAsItsState` | `AudioInv` |
| `StrategyKeepsOne` | `OneModuleActive` | `StrategyInv` |
| `RunsOnlyWellFormed` | `RunsIfWellFormed` | `FlagInv` |
| `EdgesAlwaysMeet` (Data) | `EdgesMeet` | `EdgesInv` |
| `ReadIsAsWritten` | `WrittenIsRead` | `BufferInv` |
| `InputIsSeen`, `TextIsAsTyped` | `InputSeen`, `TextIsTyped` | `InputInv` |

A proof module holds what needs the same lemmas: `GameApplication_proofs` also has
what a `Context` holds (settings, variants), `Utilities_proofs` what stands alone,
`Data_proofs` what is about bytes and about folds over data.

Hardly any of the properties is inductive. What their invariants add:

* **Streams.** What is pushed and not pulled is, as bytes, in the ring and on the
  wire. `Exact` says that bytes are whole packages and nothing else, `Ordered`
  that the packages pulled followed by the packages in the bytes are those that
  were pushed, or, once the connection is down, the first of them. That
  `push` and `pull` keep this rests on lemmas for any bytes: a length that fits
  its field is read as written (`LengthSurvives`), an encoded package is cut out
  again (`EncodedIsCut`), and what has been cut does not depend on what follows
  (`WholeExtends`, `FramesOfPrefix`). `LinuxStream` keeps `Exact` until the first
  short write; behind it, whatever is cut out comes behind the packages before it.
* **Ids and events.** A connection waits or is accepted, once, and the server
  counts those it accepts (`ConnectionsSound`), so that the n-th has the id n - 1
  at the server, at the client and in the packages between (`IdsSound`); the
  events that reached the server, those on the wire and those in the client's
  provider are its own first ones, in this order (`AllEventsSound`).
* **What the clients are told.** Whether a value finds its replica depends on
  what is under way: per connection, every value under way has its entity's
  replica at the client or its addition ahead of it, and no removal ahead of it
  (`Fit`); an entity on the list is in the add queue, under way or a replica of
  every joined client (`Complete`); and only entities off the list (`Gone`) are
  queued for removal, under way as removals or being removed. `ValuesSound` adds
  that a value written since the client joined is marked as dirty, the last under
  way, or shown. Duplicate replicas (`ReplicationDuplicate`) do not disturb these
  theorems, and neither does the width of the client id.
* **Application.** `ListInv` adds that an observer that has not expired is
  registered, so that it is told; a task has an id of its own, and what has not been scheduled
  has not run (`TasksSound`); a message's `loopCount` counts the flushes it has
  been in, and a promice whose `outcome` is open is with exactly one message
  (`MessagesSound`), while outside the callbacks the state of each is its outcome; behind a handler that ran, every message is one that has
  been in no flush (`HandlersRan`).
* **Handles.** `Counted(s, O)` says of a heap in the middle of an assignment that
  each counter is the number of handles in O that share it: detaching takes one
  handle out of O, attaching puts it in, and every operation of `Image` is made
  of the two.
* **Procedures.** While no function pushed one that goes before itself, what is
  called is the front of the queue and everything called before goes before
  everything left (`InTurn`).
* **Signals.** Addresses are used again, so a pointer is judged by the life flag
  it was made with: it is `Good` if the very object it was made for is there
  while the flag lives, and has that flag (`PointersInv`). `LoopInv` says that
  what was due when a call began and lives was reached, as far as each of the two
  loops has come.
* **Assets.** A loadable was handed out or is being created by one creation on the
  stack, which knows how many of its init functions ran (`LoadablesInv`). While no
  object inside was met, or the program was started by an absolute path, every
  `parseTemplate` on its stack names the folder of the file, and so does what the
  executor proceeding in it was told (`InFolder`), also behind the calls it made.
* **Settings.** `Holds` says what the first line of a setting in the file is,
  whatever the later ones are, and `writeVof` keeps it for all others. `ToldInv`
  adds what the program knows of a setting: started beside the file, that is what
  the file tells, so that a set which changes nothing leaves there what it asked for. Of watchers,
  `Newest` says that a notification carries the value its setting has and is the
  innermost of that setting, and `OvertakenAhead` that whom any other has still to tell was
  overtaken, which is the exception `WatchersHeard` makes.
* **Physics.** A replica, or the package under way to it, is the body as it was
  written, and the body that rests is still as it was: a tick changes nothing of
  it (`TickKeeps`), as friction of no velocity is none.
* **Flags.** Whatever was declared, and in whatever order, what remains are the arguments
  that those flags do not take of the arguments as they were (`Remaining`, `Places`).
  `Outcome` says what a flag takes of those, by its own names alone: no other flag
  takes them or what follows them, as no name stands where a value is due
  (`NameIsLeft`), and what is next to a name remains next to it (`NextPlace`). When all are declared,
  nothing remains without an error exactly if the reading from the left is well formed.
* **Automaton.** A neighbour's coordinate is taken modulo the range of size_t and
  then modulo the edge's length; where the one divides the other, the first does
  no harm (`RestOfRest`), so that a cell of the twin has the neighbours of the
  cell it stands for (`SameNeighbour`) and becomes the same.
* **Buffers.** The reader turns the bytes of each number round in the buffer itself,
  so the buffer is what was written only from the position on. `ReadFrom` says that,
  and where the position is, by the function of all prefixes of the flattened
  fields (`IsFlat`): after k values it is at the length of the first k fields, and once
  reading failed the bytes end inside the next. `FieldReads` reads one field at any
  place of any buffer, whole or cut, from what `Reads` says of its parts.
* **Input.** `Sound` says of one client what its handler is after the first n
  events ever sent: keys down, keys pressed since the update before, exit flag and
  text. A client is in the map exactly if one of these was its own. The step
  from n to n + 1 is one turn of the loop of `update`; what waits in the provider
  is `sent` from n on, with the client as it arrives (`EventSurvives`: the top
  id becomes nobody's).

**Lemmas about data.** The library's induction theorems take an operator, which no
prover here can instantiate. `Lists_proofs` states induction for a set of naturals
instead, from the well-foundedness of `<` on them (`LeastElement`, `Induction`), and
that a function may be defined by recursion (`Recursion`). On these
rest what `Select` keeps of a list (`SelectPicks`, `RangeOfSelect`,
`SelectAppend`), `Frames`, the bytes of a number and the number of the bytes
(`MemorySurvives`), flattening (`FlattenIs`), the elements of a list
(`ListReads`) and the loop of `update`, which are recursive functions in their
modules.

**Assumptions.** Each module's own, which TLC evaluates in the runs: bounds are
naturals; sets of handles and of observers are finite; a ring has room; values that
stand for "none" are not among the others (`Null`, `NoName`, "no file", address
0, `NotFinite`); Settings' values have the types a text can be read as; `Eps`, which
stands for what `cmpf` tolerates, is positive; a power of two is a positive
natural. The theorem about buffers assumes that a field has a value of its kind, that
counts fit the 32 bits they are written as, and that each element of a list has the byte
that is read of it; those about input that events have codes and clients of 16 bits; the one about flags that no two of them, those of `--help` and `--version` that the
program handles included, share a name, that a flag without a value is not mandatory,
and that no argument and no number is one of the errors.
The stream theorems assume besides that every length fits the length
field (`LengthsFit`, evaluated in both runs), as 32 bits are enough for any package
a program makes. Nothing is assumed of the kernel's room: the theorems about
`LinuxSocket` promise the packages before the first short write, and that no more can be
promised is what `LinuxStreamShortWrite` shows.

**Model-checked only.**

* Liveness: `DeliveredOrNoticed`, `DisconnectSignalled`, `StopNoticed`,
  `EventsArrive`, `EveryEntityVisited`, `RequestHonoured`, `QuitHonoured`. The provers
  have neither fairness nor ENABLED.
* `JsonRoundTrip`: the operators of `Json` are RECURSIVE, behind which there is no
  arithmetic.
* `PathsResolve`: folds with operators over texts of any length, each of which would need
  unfolding as `Frames` are.
* `CollisionsResolved`: about shapes of any number of edges it is the separating axis
  theorem, which divisions that only happen to have no remainder in the unit
  chosen make false in general.

## Not modelled

`PROJECT.json` gives the reason for each component. Abstracted inside the
modelled ones:

* replication: custom packages, statistics, entities of unregistered types,
  entities added twice to one list or owned by a client itself; the client's
  `sync` and an `EventHandler` that pull from one provider; that the queues of a
  server without clients grow without bound;
* sockets: data races between `MemSocket`s used from two threads; failed `listen`
  and `connect`, which only return an error;
* application: modes and most extension kinds; observers that change the list
  while others are still to be told; enabling of entities;
* math: everything about real numbers but zero, sign and finiteness; the second
  axis of a body; the contact point of two colliders; Rational, Line2d,
  Discretizer and Differentiator;
* text: completion, wording of errors and help, names of keys beyond letters and
  digits; home directory, fonts and directory listings, which ask the system;
* `Variant`: values of user types, the reading of single letters of a number;
* `Either`, `Option`, functional and meta headers, whose behaviour is their types;
  graphics, time, dynamic libraries, random numbers, debugging and the test
  runner, which are interfaces to the system.

## Plan

1. (done) ring buffer, framing, sockets, replication, application loop; types,
   the ring buffer's refinement and the safety of the replicas proved.
2. (done) the connection's setup; input; buffers; settings and observers;
   signals, life flags, handles, variants; assets and factories; flags, JSON and
   paths; physics, colliders, automata and audio; two of them proved.
3. (done) the order and the ids of replication; written values; the application's
   list, observers, tasks, messages; the streams' refinement; handles, procedures,
   signals, assets, variants, settings, bodies and the automaton proved.
4. (done) `InputSeen`, `TextIsTyped`, `WrittenIsRead` and `RunsIfWellFormed` proved, with
   induction and recursion as lemmas.
5. (done) short writes and the full ring in `LinuxStream`, the executors' paths in
   `Assets`, sets that are dropped in `Settings`, text against the keys' names, promices
   settled behind their callbacks, observers that end one another: modelled, and the theorems
   about them proved for these behaviours.
