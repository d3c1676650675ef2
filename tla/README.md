# A formal model of Noriko

Noriko (`src/src/Noriko`) is a game engine in C: a table of components that an
application starts and stops, two allocators, data structures, an object model
with reference counts (NkOM), a layer stack that receives events, updates and
rendering calls from a main loop, logging, and platform code for Windows.
`NorikoRt` is the runtime that drives it (`main.c`), `NorikoEd` a Qt editor.
All build configurations define `NK_TARGET_MULTITHREADED`, so the locks are
real (plain, non-recursive mutexes); assertions are compiled out of the deploy
configuration. The repository has no tests.

This directory holds TLA+ modules for its parts, TLC configurations that check
them on small instances, and TLAPS proofs. A *definition* here keeps the name
of the function it stands for where there is one; the exact lines are in the
`map` of `PROJECT.json`. Definitions whose comment starts with *Fault:* are
not part of the model: each is a version of the definition next to it with a
plausible slip, and the property it is paired with in `mutants` must fail when
it is put in place.

## 1. Inventory

| Component | State it keeps | Operations | Interacts with | What is hard about it |
|---|---|---|---|---|
| Pool allocator (`alloc.c`) | table of 8192 pools, number of pools, first free slot; per pool the free count and first free block; one header per block inside the region | alloc, reserve, free, the two size queries, startup, shutdown | gets its regions from the general-purpose allocator; everything allocates from it | incremental counters, reuse of table slots, searches bounded by a counter, early returns with the lock held |
| General-purpose allocator (`alloc.c`) | none | alloc, realloc, free | the C runtime | fails |
| Hash table (`dstruct/htable.c`) | slot array, capacity, count | create, destroy, insert one or many, erase, extract, clear, look up, iterate | used by NkOM, the application, environment, database, assets | a displaced pair in flight, rebuild while inserting, load limits, a loop whose only exit is a free slot |
| Vector (`dstruct/vector.c`) | buffer, capacity, count | insert, erase, find, filter, reverse, sort, iterate | layer stack, assets | ranges and off-by-one |
| String (`dstruct/string.c`) | buffer, length, capacity | create, insert, replace, convert | everywhere | the same |
| Sorting (`sort.c`) | none | quicksort of pointers | vector | index arithmetic at the borders |
| Application (`application.c`, `main.c`) | component table, index of the last component a callback ran for, one success flag per startup stage, registry of component instances | startup, run, shutdown, query and replace an instance | calls every component; the registry holds references to NkOM objects | failure half way; undoing only what was done; references |
| Main loop and timers (`application.c`, `timer.c`) | lag, previous time | one frame | layer stack, window, renderer | fixed time step, catching up |
| Object model (`nkom.c`) | class registry | install and uninstall a factory, query it, create an instance | hash table; factories of window, renderer, input, assets | reference counts over many exits; unlock before AddRef |
| Layer stack, events (`layer.c`, `event.c`) | vector of layers | push, pop, deliver event, update, render | vector; called by main loop and window procedure | lock released around callbacks, indices kept across them |
| Logging (`log.c`) | array of devices, number of devices | install, uninstall, message | called from everywhere, also from the shutdown | lock released around device callbacks |
| Window (`window.c`, `winwindow.c`) | mode, visibility, client area, saved placement | create, set mode, minimise, restore, window procedure | dispatches events into the layer stack, re-enters itself | messages sent while a call is in progress |
| Input (`input.c`, `wininput.c`) | none of its own | poll keys, translate messages | events | nothing kept between calls |
| Renderer (`renderer.c`, `wingdi.c`) | GDI objects | draw, resize, resources | window | operating system state |
| Assets (`asset.c`) | database handle, one prepared statement, a cache that is not used yet; the file `assets.db`, which outlives the process | create, open and close the database, query an asset | database, NkOM, file system | a file created in several durable steps, references over failing opens |
| World (`world.c`) | maps, tiles | load, draw | database, layer stack | its layer is pushed before and popped behind the main loop |
| Database (`db.c`) | counted handles and statements over sqlite3 connections | create, open, close, make and run statements | sqlite3, NkOM | release orders; a connection with statements cannot be closed; failures before an object is complete |
| Environment (`env.c`) | table of parsed options | parse, get | hash table | parsing |
| I/O, paths, utilities, errors, bitmaps | file handles | streams, formatting | | pure I/O and formatting |

What makes the main ones correct:

* **Pool allocator**: no block belongs to two owners; a region is given back
  only when nobody holds a block of it; whatever was allocated can be found
  again to be freed; the lock is not left behind.
* **Hash table**: a dictionary; nothing is lost or doubled while pairs are
  displaced or the array is rebuilt; every call returns.
* **Application**: components are undone in reverse order and only if they
  were started, wherever a failure occurs; registered instances are referenced.
* **Layer stack, logging, NkOM**: no callback into an object whose last
  reference is gone; nothing skipped or called twice because of a concurrent
  change.
* **Main loop**: it never falls behind for good, and it ends when the window
  is closed.
* **Database, assets**: every handle, statement and connection is released
  exactly once, in whatever order the owners let go; a file left by a process
  that ended early is told from a complete one.

The list of concrete hazards, each at its line, is in `PROJECT.json`.

## 2. Plan

Done, in this order:

1. `PoolAlloc` with the abstract `BlockStore` and `PoolAllocProofs`.
2. `Hashtable`.
3. `Application` with `ApplicationProofs`.
4. `Logging`: the device table with several threads.
5. `Vector`, `LayerStack` over it, and `MainLoop` composed with both: callbacks
   that push and pop while they are iterated over.
6. `ObjectModel`: class registry, factory and instance reference counts.
7. `Database` and `AssetManager` over it, with the file across restarts.
8. Proofs of every safety, action and refinement property of the passing runs:
   `HashtableProofs`, `LoggingProofs`, `MainLoopProofs` (with `LayerStack` and
   `Vector`), `ObjectModelProofs`, `AssetManagerProofs` (with `Database`), and
   the remaining properties of `PoolAlloc` and `Application`.

Next, in this order:

9. A dictionary as the abstract specification of `Hashtable`, and the refinement
   proved from the invariant of `HashtableProofs`.
10. Weaker forms of the refuted properties that do hold, and their proofs: what
    `LiveLocatable` and `OnlyOpposites` need besides the code to be true.
11. `Window`: mode and visibility against re-entrant window messages.
12. Pure algorithms against reference definitions: quicksort, vector ranges.
13. `Application` and `Logging` composed: the stages are logged before the
    logger is started and after it is shut down.

## 3. The modules

### PoolAlloc, BlockStore

One variable per field of `gl_PoolAllocCxt`; `heads` are the block headers at
the start of each region, `heap` the regions obtained from the general-purpose
allocator, `live` (history) the allocations the clients hold. An address inside
a pool is a region and a block index, so "inside the pool" is "in its region".
Each operation holds `m_mtxLock` from start to end and is one action; what
remains of the lock is `lockHeld`: the size queries return from within
`NK_SYNCHRONIZED` when the address is unknown and leave it locked, after which
nothing can run any more.

| Action | Code |
|---|---|
| `AllocInPool`, `AllocInNewPool`, `AllocFails` | `NkPoolAlloc`: first pool in table order that has the range, else a new pool, else an error |
| `ReservePool`, `ReserveFails` | `NkPoolReserve` |
| `FreeKnown`, `FreeUnknown` | `NkPoolFree`; an emptied pool is given back and its slot cleared |
| `QuerySize` | `NkPoolGetBlockSize`, `NkPoolGetAllocSize` |
| `Shutdown` | the component's shutdown callback |

The model has the code's faults: `FindRangeInPool` gives up at the first used
block, against the comment at `alloc.c:495` (the loop behind `lbl_FINDNEXT` tests
the same header again and again), so that a new pool is made although an old one
has room; and `FreePoolAfterFree` sets `m_firstFreePool` to the last free slot
above the emptied pool, so that it may later name a slot in use, whose pool the
next one then overwrites.

`BlockStore` is what clients rely on: regions, runs of consecutive blocks that
never overlap, a region given back only when nothing is left in it. `heap` and
`live` are its variables; `Store == INSTANCE BlockStore WITH ...` in `PoolAlloc`
maps them to those of the pools.

Assumptions: `MetricsAssumption` (rounding up to a page never yields fewer
blocks than asked for, true of 8-byte headers and 4096-byte pages for the sizes
the engine uses) and `RequestAssumption` (no request exceeds a default pool:
the code does not test it).

### Hashtable

One table and the call that runs on it; calls on one table are not concurrent
(the clients lock). `elemArray` maps the used slots to their entries. The probe
loop (`ProbePlace`, `ProbeWalk`, `ProbeSwap`), the rebuild (`CopySkip`,
`CopyPair`, `CopyDone`) and the loop over a batch (`BatchSkip`, `BatchInsert`,
`BatchDone`) are one action per iteration, because the interesting state is
between two of them: a pair in `tmpPair` and in no slot. A hash value is an
arbitrary slot (`Homes`) chosen anew each time: the seed is random, and UUID
keys are hashed over more bytes than the key has. `dict` (history) is the set
of pairs the calls put in. Counters of the probe loop wrap at `Uint32Range`.
Look-ups and iteration change nothing and are operators or left out.

Allocation failure is a choice in `InsertRefused` and `ClearInPlace`.

### Application

`pc` follows `main()`: validate the specification, start the components one
callback at a time, register instances, enter and leave the main loop, shut
down. `compIndex` and `compSucc` are `m_initErrInfo`: one index, and one flag
per stage that all components share. `result` (history) records what each
callback returned, `refused` (history) the instances the registry did not take:
`NkApplicationReplaceInstance` references them all the same, and since they are
not registered nobody releases them. A callback that is NULL succeeds; any other may fail, except
the two of `application.c` itself that cannot. A NULL dereference is the state
`"crashed"`. The flags written for shutdown callbacks (`m_compSucc[3..5]`) fall
into the padding of the structure and are dropped.

### Logging

`devArray` and `nOfDev` are `m_devArray` and `m_nOfDev`; `call` holds, per
thread, the operation it is in and its locals. The code releases the lock
exactly while it calls a device, so an operation is cut there: `InstallBegin`
(capacity test, first free slot), then `InstallEnd` or `InstallFails` after
`OnInstall`; `UninstallBegin` (look-up), `UninstallRelease` (`OnUninstall` and
`Release`, unlocked), `UninstallEnd` (the slot is cleared, whatever is in it);
`MessageBegin` and one `MessageNext` per device. `Visit` is the head of the
message loop with its two bounds. A call made from inside a device's callback
interleaves with the outer one like a call of another thread and needs no
action of its own. `UninstallNotFound` returns with the lock taken
(`lockHeld`), which disables every action that takes it; the lock is
`mtx_plain`, the thread itself cannot take it again either.

Clients install a device that is not installed and remove one that they
installed (`client`), as `log.h` demands. `refs` counts the references the
logger takes and gives back; the console device ignores them. `overlap` becomes
true when an installation writes its device over another one: two
installations have found the same free slot while the lock was released. The
logger is shut down when no call is running; array and counter are left as they
are by the code.

### Vector, LayerStack, MainLoop

`Vector` has no variables: it defines what the operations of `vector.c` do to a
record of the elements and the capacity. Two of its definitions look wrong and
are what the code does. `ShiftedTail`: to make room, `NkVectorInsertMulti`
copies from the *argument* array instead of the buffer, so inserting below the
end replaces the elements behind the index by copies of the new one and by
whatever lies behind it in memory (`Wild`). `NewCap`: the limit of the capacity
is applied with `NK_MAX`, so the first growth asks for the largest buffer there
can be, which `NkGPRealloc` refuses.

`LayerStack` holds the lock except while a layer is called. A push is
`PushBegin` (the neighbours), `PushRefused` or `PushInsert` after `OnPush`, and
`PushAddRef`; a pop is `PopQuery` (the index), `PopErase` and the caller's
`PopRelease`; a traversal is `PassBegin` and one `PassNext` per layer, with the
index and the layer count the code read at its beginning. A failed `NK_ASSERT`
ends the process in every configuration but deploy; that, and a call through a
wild pointer, is recorded in `dead`, with the call of the thread it happened to
marked `"died"`.

`MainLoop` is the thread that runs `NkApplicationRun`:

| Action | Code |
|---|---|
| `WorldPush`, `WorldPop` | startup and shutdown of the world layer |
| `FrameBegin` | elapsed time, limited to 16 ms, added to the lag |
| `PumpEvent` | a message: an event goes through the stack; with `WM_CLOSE`, `NkApplicationExit` follows |
| `PumpEmpty`, `PumpQuit` | the queue is empty, or `WM_QUIT` was found |
| `UpdateBegin`, `RenderBegin`, `Traverse` | the updates of a frame, its rendering, and the return of a layer from a callback |
| `LayerExit` | `NkApplicationExit` called by a layer, as the world layer does on F4 |
| `ClientBegins`, `ClientContinues` | pushes and pops by other threads, and by the callbacks on the main thread |

Clients push a layer that is not in the stack at an index that is valid when
they call, or as `NK_AS_NORMAL`. With a layer in the stack the latter always
fails the assertion of `NkVectorAt`, since the index before `SIZE_MAX` is looked
up; the world layer is only safe because it is pushed first (`frame_normal`).
No call begins
once a layer was inserted below the end of the vector (`scrambled`): its
contents are then not those anybody pushed, and no property speaks of them.

### ObjectModel

`classReg` is the class registry, `refs` the reference counts of the counted
factories, `call` the call of each thread with its locals. The registry lock is
held only while the table is touched: `QueryFactory` finds a factory and
unlocks, `QueryAddRef` references it in a step of its own; the same holds for
every `AddRef` and `Release` of an installation (`InstallInsert`,
`InstallAddRef`) and an uninstallation (`UninstallErase`, `UninstallRelease`,
`UninstallLast`). Calling a factory whose count is zero ends the model in
`dead`. `held` counts the references of the clients: a client that installs or
uninstalls a factory holds one during the call (`ClientHolds`), a direct call of
`NkOMQueryFactoryForClass` gives it another one (`QueryReturn`), and it lets go
of them when it likes (`ClientRelease`), after which the registry alone keeps
the factory. `raced` (history) are the threads that have found or registered a
factory and not referenced it yet when somebody erased a class of it.
`NkHashtableInsert` reports success for a class that is registered
already and leaves it alone; the factory is referenced all the same (`skipped`
counts those). The exits of `NkOMCreateInstance` are `FactoryRelease`,
`InitFails`, `InitSucceeds` and both outcomes of `QueryInstance`; `obj` is the
reference count of the new instance.

An uninstallation of a factory with *n* classes releases it 2*n* + 1 times, *n*
times by the destructor of the table's entries, against *n* references taken by
the installation. The engine does not notice since its own factories are static
and ignore the count; with counted ones it destroys factories that clients
still hold. Also a factory that nobody uninstalls can be called when it is
gone: the erasure of a shared class by another factory's uninstallation drops
the registry's reference, and with no client left it destroys a factory that a
query has found and not referenced yet. The properties say what holds
nevertheless.

### Database, AssetManager

`Database` has no variables: handles, statements and open connections are one
record, and the methods of `db.c` are functions of it. `sqlite3_close` refuses
while the connection has statements, and the last `Release` of a handle frees
it whatever `Close` says: that nothing leaks rests on every statement holding a
reference to its handle. `AssetManager` adds the state of `asset.c` and the
file, the only thing that survives `Ends`, which may happen at any time.
`CreateOpens`, `SchemaTable`, `SchemaDone` and `CreateReopens` are the steps of
`CreateDatabase`, each of which leaves the file in another condition. Other
clients (`ClientStep`) do with their own handles and statements what they like.

A statement that does not compile is released by `NkOMCreateInstance` before it
has stored its handle, and calls through NULL (`OpenCrashes`, and
`ClientStatement` on a handle that is not open). A file whose creation was cut
short before the first table therefore makes every later standalone start
crash, as the startup only asks whether the file exists.

## 4. What TLC checks

| Run | Instance | Result |
|---|---|---|
| `pool` | 3 slots, pools of 3 blocks, 2 block sizes, 3 regions (symmetric), requests of 1 or 2 blocks | passes, 393,834 states |
| `pool_lost` | the same, single blocks | `LiveLocatable` fails: an allocation whose slot was overwritten can be neither freed nor queried |
| `htable` | 3 keys, 2 values, capacity 2 growing to at most 3, batches of 2 | passes, 159,835 states |
| `htable_clear` | the same, minimum capacity 2 | `ClearTerminates` fails: the rebuild of a cleared table re-inserts the old pairs into an array without room |
| `app` | 6 components: two before NkOM, the second with a post-startup callback like Env, NkOM, one after it, two that register instances | passes, 240 states |
| `app_stale` | the same | `OnlyOpposites` fails: a flag left by the previous component makes NkOM's PreShutdown run although its PostStartup did not |
| `log` | 3 slots, the console device and 3 others, 3 threads (devices and threads symmetric) | passes, 95,937 states |
| `log_skips` | the same | `AllInstalledReached` fails: a message misses an installed device when one it already reached is removed meanwhile |
| `frame` | the world layer and 2 others, the main thread and 1 client thread, updates of 2 ticks, steps of at most 3, frames 0, 3 or 7 ticks apart, a buffer of 3 slots | passes, 801,104 states |
| `frame_normal` | the same | `NormalAdded` fails: pushing a second layer as `NK_AS_NORMAL` ends the process |
| `nkom` | 2 classes; 2 counted factories and 1 static one that share them, 2 threads (symmetric), clients with 1 reference at first and at most 2 | passes, 4,080,414 states |
| `assets` | 3 handles, 3 statements, 4 connections, any number of restarts | passes, 103,480 states |

Properties of the passing runs, beyond the type invariants:

* `pool` — `LiveDisjoint`, `LiveInHeap`: no block has two owners, none loses
  its memory, also after a slot was overwritten. `TableRegions`,
  `HeadersExact`, `PoolCounters`: the table, the headers and the incremental
  counters agree with what the clients hold. `ScansComplete`: the scans bounded
  by `m_nAllocPools` reach every pool although the counter may be too high.
  `SizesReported`: the walk back over the headers never runs into a
  neighbour. `LockLeakOnlyWhenLost`.
  `ImplementsBlockStore`: the refinement.
* `htable` — `Conserved`, `KeysUnique`: no pair lost or doubled at any step of
  the displacement. `CountExact`: the loops bounded by `m_elemCount` reach
  everything. `OffsetIsDistance`: the order later swaps rely on. `RoomLeft`
  and `InsertTerminates`: the endless loop of the code always finds its exit
  when inserting.
* `app` — `ReverseOrder`. `CleanShutdown`, `RefsHeld`: references on instances
  are exact, and none is left behind but that of an instance the registry
  refused, which leaks. `CrashCause`: the NULL dereferences happen in exactly
  two situations, NkOM's own startup failed or the registry refused the window. `RegistryDrained`: no
  instance is left in the registry when NkOM's pre-shutdown reads its entries
  as component descriptions.
* `log` — `CountsDevices`: the counter that ends the loops is never lower than
  the number of devices in the array, whatever overlaps. `RefsExact`,
  `LockLeakCause`: unless two installations shared a slot, references are
  balanced and the lock is not left behind (with a shared slot both happen: the
  overwritten device keeps its reference, and removing it leaves the lock).
  `NoLateCall`: a message that starts after `NkLogUninstallDevice` returned does
  not reach the device; one that overlaps it may call a released device.
  `MessageComplete`: the exact reasons for which a message misses a device.
* `frame` — `HaltCause`: a push dies on its neighbours only as `NK_AS_NORMAL`
  with a layer in the stack; in a traversal, an insertion or an erasure an index
  runs out of range only if a layer was popped after that very call or
  traversal read it; a wild pointer is called only after an insertion below the
  end. `CalledIsHeld`: the layer being called is referenced, or still held by
  the thread that pushes it, unless it was popped during that very call.
  `PassExact`: which layers a traversal may miss or call twice, and why.
  `LagBounded`: however late a frame is, the loop is never more than one update
  behind when it draws. `CloseLeaves`: closing the main window, or a layer's
  `NkApplicationExit`, ends the loop.
* `nkom` — `FactoryRefsExact`: until a factory is uninstalled or rolled back its
  count is exact, whatever happens to other factories of the same classes.
  `UseCause`: a destroyed factory is called only after an uninstallation or
  rollback of that factory began, or by way of the window between unlock and
  `AddRef`: while a thread is in it, another factory's uninstallation erased a
  class of the factory. Both happen. `CreateExact`: the exits of
  `NkOMCreateInstance` balance.
* `assets` — `ObjectsExact`: one reference per statement and owner, live
  statements find their handle and its connection, no connection is forgotten;
  the one exception is the handle `OpenDatabase` overwrites when a database is
  open. `IncompleteCause`: a process works with an incomplete file, or crashes
  on one, only if a creation was cut short before.

**Bounds.** Three pool slots are the fewest with a slot below, at and above the
emptied one, which is what the reuse of slots depends on; three blocks
per pool allow a hole between two allocations and a multi-block allocation
before or behind another one (two of them side by side are in the proof). As many regions as slots: an overwritten pool keeps its region, so
the regions also run out. Three slots and three keys in the hash table give
wrap-around, chains of displacements, a clamped capacity, a refused batch and a
full table; batches of two contain equal keys. The component table has one
component of each kind that the code distinguishes. Three slots, four devices
and three threads let the array fill up and refuse a device, two installations
share a slot while a third call runs, and a message have one device behind and
one before it when a removal interrupts it. Three layers are the fewest with
one before, at and behind the index a traversal is at; the steps of a frame
cover no time, a full step and a truncated one, and 3 ticks against 2 keep the
proportion of 16 ms to 8.333 ms (more than one update, less than two). A second
factory with a shared class makes installations skip a class and erasures
release somebody else's factory; one reference held by clients at first lets
the registry become the last holder, and a second one (`MaxHeld`) lets a client
query a factory that it or another one has; two threads suffice for every pair of calls,
and a third factory is static like those of the engine. Three handles are the
manager's, the one of a creation or of an overwritten open, and a client's.

**Fairness.** `Hashtable`: weak fairness of the steps of the call that is
running, that is, its thread keeps being scheduled. `MainLoop`: the main thread
is scheduled (weak fairness of its steps, those of a call made by a callback
included); layers return from their callbacks (strong fairness of `Traverse`,
which a callback that pushes and pops disables now and then); the message queue
runs empty again and again (strong fairness of `PumpEmpty \/ PumpQuit`; without
it, `WM_QUIT`, which `PeekMessage` returns last, may wait for ever behind
input). Nothing is assumed about client threads, calls being made or
allocations succeeding.

**Deadlock** is checked for the hash table and the asset manager. The allocator
and the logger stop after their shutdown or when the lock has been left behind,
the application when `main()` returns, the main loop and the object model after
their shutdown or when the process has ended; those runs do not check it.

## 5. What is proved

Every invariant, action property and refinement that a passing run checks is
also a theorem, for every value of the constants that satisfies the assumptions
of the module. Each is proved from an inductive invariant, in one lemma for the
initial states, one per action (or group of actions) and one that combines them.

| Module | Theorems | Inductive invariant |
|---|---|---|
| `PoolAllocProofs` | `PoolTypeOK`, `PoolLiveDisjoint`, `PoolLiveInHeap`, `PoolTableRegions`, `PoolHeadersExact`, `PoolCountersExact`, `PoolSizesReported`, `PoolScansComplete`, `PoolLockLeak` (action property), `PoolShutdownReleases`, `PoolImplementsBlockStore` (refinement) | `Safe`, `FreeIndexed` |
| `HashtableProofs` | `HashTypeOK`, `HashConserved`, `HashKeysUnique`, `HashCountExact`, `HashOffsetIsDistance`, `HashRoomLeft` | `HashInv` |
| `ApplicationProofs` | `ApplicationTypeOK`, `ApplicationRefsHeld`, `ApplicationRegistryDrained`, `ApplicationReverseOrder`, `ApplicationCleanShutdown`, `ApplicationCrashCause` | `AppInv`, `HistoryInv` |
| `LoggingProofs` | `LoggingTypeOK`, `LoggingCountsDevices`, `LoggingRefsExact`, `LoggingLockLeak`, `LoggingNoLateCall`, `LoggingMessageComplete` (action property) | `LogInv`, `DownInv` |
| `MainLoopProofs` | `LoopTypeOK`, `LoopLagBounded`, `LoopHaltCause`, `LoopCalledIsHeld`, `LoopPassExact` (action property) | `LoopInv`, `LayerInv`, `StartInv`, `Ledger`, `Track` |
| `ObjectModelProofs` | `ObjectCreateExact`, `ObjectFactoryRefs`, `ObjectUseCause` | `ObjInv`, `RefsInv` |
| `AssetManagerProofs` | `AssetObjectsExact`, `AssetIncompleteCause` | `AssetInv` |

**Pool allocator.** `Safe` is type correctness, the four properties on blocks,
regions and headers, and two facts about counters: `CountExact` (`m_nAllocBlocks`
is the number of marked headers of the pool; with it, a count that drops to zero
means no client holds a block, which is what makes giving the region back safe)
and `UsedCounted` (the slots in use are at most `m_nAllocPools`; an overwritten
slot makes the counter too high, never too low, so the scans still reach
everything). `LiveInHeap` is not inductive without `HeadersExact`: the code
decides by counters, the property is about owners, the headers connect the two.
`FreeIndexed` says that `m_fFreeInd` is the lowest unmarked index, or the "no
index" value when there is none; `NkPoolFree` lowers the index by a comparison
only, so it needs that every block index is below that value. `SizesReported`
follows from `Safe`: the walk back from any block meets the header of the
allocation it lies in before that of a neighbour.

**Hash table.** The in-between states are the difficulty: `HashInv` describes
the table after every iteration of the probe loop and of the rebuild. `PhaseInv`
says what a call uses where, `ArrayInv` that keys are unique, the counters exact
and that there is room for everything the call still has to insert, `FlightInv`
that no slot has the key of the pair in flight, `CopyInv` that the new array and
the pair in flight are exactly what the rebuild has passed so far, `DictInv` that
nothing is lost. `PlaceInv` is the part about distances. Its last conjunct is
why the loop, which has no exit but a free slot, cannot come round to its start
with a wrong distance: every slot between the home of the pair in flight and its
position is in use, and one slot is not, so the distance stays below the
capacity and the 32 bit counter does not wrap. `PlaceInv` is claimed for
insertions only: the rebuild of a cleared table may have no room (`htable_clear`).

**Application.** `AppInv` adds to `TypeOK` and `RefsHeld` that the main loop runs
only with the window registered (`LoopsOnWindow`) and that the registry exists
once the start-up loop has passed NkOM (`RegistryMade`). `Below`: whatever is
registered stands at or below the component the loop is at, which the shutdown
passes downwards, unregistering as it goes. `HistoryInv` connects the history of
the callbacks with the little the code remembers of it, one index and three
flags: `StartInv` (the startup has run what lies before its point, successfully,
and nothing after it), `FlagInv` (a flag is set if the stage succeeded for some
component and failed for none; a flag may be set for a component whose stage
never ran, which is the divergence of `app_stale`), `UndoInv` (the shutdown has
passed a frontier; it has undone only what lies above, and there everything that
succeeded and is flagged), `RegistryInv` (the registry is there until the
shutdown reaches NkOM, unless NkOM's own startup failed).

**Logging.** `m_nOfDev` counts devices, not slots: `SlotInv` says it is the
number of devices that are installed or on their way out (`Counted`), each in at
most one slot, and in exactly one unless two installations shared a slot.
`CallInv`: a device is handled by one thread at a time. `MsgInv` is what makes
`MessageComplete` provable: the devices a message still owes a call are behind
its slot, and as long as none of those it has called was removed, its counter
has counted at most those. `DownInv` carries `RefsExact` past the shutdown.

**Main loop and layer stack.** `LoopInv` bounds the lag after each number of
updates (`LagLeft`). `LayerInv` says that an index read before an unlock is
valid until a layer is popped, and that a wild pointer enters the vector only by
an insertion below its end; `StartInv`, that the world layer is pushed onto an
empty stack. `Ledger`: while layers were only inserted at the end, no layer is
in the vector twice and its count is one if it is stored, less the `AddRef` its
push still owes, plus the `Release` its pop still owes. `Track`: the calls a
layer has had in the running traversal follow from its position and the current
index, unless a pop moved it across the index.

**Object model.** `ObjInv` has the references of the new instance at every point
of a creation. `FactoryRefsExact` is inductive only together with `UseCause`: a
`Release` or `AddRef` of a destroyed factory ends the model, so the count must be
shown positive wherever one is due. The exact count has a negative term, the
installations that have registered a class and not referenced the factory yet.
`ClientsHold` (as many references of clients as threads that install or
uninstall) and `Covers` (unless raced, a thread that found the factory still has
a class of it in the registry, and each reference an installation owes has a
class, registered or skipped) outweigh it: `DestroyedCause` concludes from the
three that a factory in use whose count is zero was uninstalled or raced.
`Erasing`: a factory that is being uninstalled is recorded as such.

**Asset manager.** `Exact` relates handles, statements and connections to the
number of owners of each handle, `Owners` says who these are, `FileInv` ties the
state of the file to a creation that was cut short.

**Assumptions.** All are about constants, and TLC evaluates them in the runs.
`TableAssumption` states of the component table what `gl_c_CompInitTable` has:
components that register themselves come after NkOM, the pre-startup and
post-shutdown columns are NULL, only NkOM has a pre-shutdown and none after it a
post-startup callback. Without the last two `ReverseOrder` and `CleanShutdown`
would depend on flags that the code keeps for one component only.
`MetricsAssumption`: a pool gets at least the blocks asked for and fewer than
2^32. `RequestAssumption`: no request exceeds a default pool (the code writes
past the region otherwise). `CapAssumption`: capacities are below 2^32.
`LoopAssumption`: the elapsed time is limited to less than two updates, as 16 ms
against 8.333 ms. `FactoryAssumption`: a new factory is referenced by its
client, and has a class. `LoggingAssumption`, `LayerAssumption` and
`DatabaseAssumption` only say that sets are finite, numbers natural and NULL is
no object.

**Only model-checked.** The liveness properties `InsertTerminates` and
`CloseLeaves`: fairness and `ENABLED` are out of the proof system's reach. (The
safety half of the former is proved: `HashRoomLeft`, and with `PlaceInv` that
the walk cannot pass its start.) The properties of the runs that end in a
violation are false and have no proof.

## 6. What is not modelled

The components marked `not_modelled` in `PROJECT.json`, with the reason: those
of the plan above, and those that are pure I/O, drawing or formatting, and the
editor. The vendored sqlite3 (`src/ext/sqlite3`, more than nine tenths of the
lines of C in the repository) is third-party code; only what `db.c` relies on is
in the model. Within the modelled parts are left out:

* requests larger than a default pool (the code writes past the region) and the
  contents of memory;
* the calls of the logger by the other modules, and the text of a message;
* what `mp_fnElemFree` does to a key before `NkHashtableClear` hashes it again;
* find, filter, reverse, sort and iteration of the vector: no module of the
  engine uses them on the layer stack;
* builds without assertions, in which an index out of range reads on instead of
  ending the process;
* timers: elapsed ticks are an input of the main loop;
* the modes of a window and all messages but input and `WM_CLOSE`;
* aggregation (the controller argument of `NkOMCreateInstance`) and the NkOM
  objects other than factories and new instances;
* parameters, rows and columns of statements, and errors of sqlite3 other than a
  refused open, a refused close, a failing schema and SQL that does not compile;
* concurrent calls of the asset manager and the database: `asset.h` says that the
  methods are thread-safe, but the lock of the manager is never taken and the
  database has none, so `AssetManager` makes one call after another, and
  `ObjectsExact` says nothing of two at once;
* the file system object that the startup of the asset manager queries from the
  application; a failed creation of the file returns without releasing it.
