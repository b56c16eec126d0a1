# A TLA+ model of Luau

This directory holds TLA+ specifications of parts of Luau, TLC configurations that
model-check them on small instances, and theorems about them that TLAPS checks.  Line
numbers refer to the files of this repository.

## The system

| Component | Source | State it keeps | Operations | Interacts with |
|---|---|---|---|---|
| Garbage collector | `VM/src/lgc.cpp`, `lgc.h` | colour of every object, current white, phase (`gcstate`), gray / grayagain / weak lists, sweep position | `luaC_step`, `luaC_fullgc`, the barriers | every component that allocates or stores a reference |
| Upvalues | `VM/src/lfunc.cpp` | open upvalues of each thread, `uvhead` list, `markedopen` bits | find, close, free | stacks (an open upvalue *is* a stack slot), collector |
| Virtual machine, C API | `VM/src/lvmexecute.cpp`, `lapi.cpp` | stacks, registers, roots | instructions, `lua_*` calls | stores followed by a barrier |
| Coroutines | `VM/src/ldo.cpp`, `lstate.cpp` | status, `isactive`, call info, C-call counters | resume, yield, xmove, reset | stacks, collector (thread barrier) |
| String table | `VM/src/lstring.cpp` | chains of interned strings | intern, resize | the sweep (a string found dead is revived) |
| Tables | `VM/src/ltable.cpp` | array part, node chains, free pointer | get, set, rehash, next | barriers, weak modes |
| Memory pages | `VM/src/lmem.cpp` | pages per size class, free lists | allocate, free, visit | the sweep, strings |
| Classes and objects | `VM/src/lclass.cpp` | shapes, member offsets | clone, inherit | VM, collector |
| Shared native code | `CodeGen/src/SharedCodeAllocator.cpp` | reference counts, table of native modules | insert, get, release, from several threads | mutex of the allocator |
| Build queue | `Analysis/src/Frontend.cpp` | queue of modules, dependency counts, ready list | queue, check, perform, cancel | worker tasks through an executor |
| Worker threads | `CLI/src/Analyze.cpp` | queue of tasks | push, shut down | executes the tasks of the build queue |
| Source graph | `Analysis/src/Frontend.cpp` | source nodes, required-by edges, dirty bits | parse, markDirty | build queue, module caches |
| Require | `Require/src`, `CLI/src/ReplRequirer.cpp` | module cache, placeholders, aliases | navigate, load, clear | VM |
| Code allocator | `CodeGen/src/CodeAllocator.cpp` | blocks, the position in the last, page protection | allocate, deallocate | native code, unwind information |
| Parser, compiler, type checker, code generation | `Ast`, `Compiler`, `Bytecode`, `Analysis`, `CodeGen` | none that outlives a call | translations | each other |

What is hard here is in six places.  First, the heap.  The collector is incremental: the
program runs between its steps and may undo what a step established, stacks are written
with no barrier at all, upvalues alias stack slots of threads that may be suspended,
dead, or already traversed, and weak tables and dead strings may be read before the
collector has decided about them.  Second, the data structures of a VM that live through
long sequences of calls: a table whose chains are rewired in place, a string table and
pages that the program changes while the sweep walks them, and call frames that are left
by errors and yields and continued later by other native code.  Third, native code: modules
are shared by VMs that run on different threads, and their reference counts change outside
the mutex that guards their destruction.  Fourth, the build queue: tasks on any thread,
cycles of requires, exceptions and cancellation meet in one loop that must neither check a
module too early, nor return while a task is running, nor wait for ever.  Fifth, what a
`Frontend` keeps between calls: sources change under it, calls stop half-way, and what it
still calls clean must be up to date.  Sixth, what fails half-way: a module that throws
while others wait for it or already have its placeholder, an allocation or a page
protection that fails after the state around it has changed.  Tests exercise few of those
orders.  The list of hazards in `PROJECT.json` names each at its line together with the properties that would
catch it.

Components not modelled are under [Not modelled](#not-modelled).

## Modules

| Module | Contents |
|---|---|
| `LuaHeap` | abstract specification: what a program may expect of the heap, whatever the collector does |
| `LuaGC` | the collector, the barriers and the program as a mutator; properties; the refinement `Heap` of `LuaHeap` |
| `LuaGCProofs` | theorems: type correctness, the chain of resumed threads, colours and lists; the inductive invariant of safety and the safety theorems; `LuaGC` implements `LuaHeap`; the collector changes nothing that a program sees |
| `MCGC`, `MCWeak`, `MCLive`, `MCSetUpvalue` | instances of `LuaGC` for TLC |
| `TableMap` | abstract specification: a table is a map |
| `LuaTable` | array and hash part of a table: insertion, rehash, boundary, traversal |
| `TableAsMap` | `LuaTable` with what the table holds, and the refinement `Map` of `TableMap` |
| `LuaTableProofs` | theorems: chains and free positions stay in order, the length is a border, a rehash has room for what migrates, a traversal is given each key that stays once, `LuaTable` implements `TableMap` |
| `PageAllocator` | operators on the pages of collected blocks of one size class |
| `StringHeap` | extends `PageAllocator`: the string table and the sweep that frees strings |
| `CallStack` | call frames, counts of C calls and the native stack of all threads of a VM |
| `CallStackReturns` | the inductive invariant of calls, and the steps that end calls |
| `CallStackProofs` | the steps that begin calls, and theorems: the depth is limited, yields and errors find their way, a suspended thread can be continued |
| `RequireCache` | results and placeholders of modules that require one another |
| `RequireCacheProofs` | theorems: one object per module, locks end |
| `CodeAllocator` | sections of native code in blocks of pages, and the pages' protection |
| `MCData` | one instance of `TableAsMap`, `StringHeap`, `CallStack`, `RequireCache` and `CodeAllocator` |
| `SharedCode` | native modules shared by several VMs, each on its own thread: reference counts, mutex, table of modules |
| `NativeCodeProofs` | theorems: exact counts, exact table, no leak, a module destroyed once and only when nobody owns it; code that is live is never written over |
| `MCSharedCode` | instances of `SharedCode` |
| `ParseGraph` | the depth-first search that orders the modules to check, and its result |
| `BuildQueue` | extends `ParseGraph`: `Frontend::check` and `Frontend::checkQueuedModules` with their tasks |
| `TaskScheduler` | extends `BuildQueue`: the worker threads of `luau-analyze` as its executor |
| `BuildQueueProofs` | theorems: exact counts, no task left behind, a normal return has checked everything; the order of the queue, the cuts of cycles; `TaskScheduler` is an executor as `BuildQueue` expects, and loses no task |
| `MCBuildQueue` | instances of `BuildQueue` |
| `SourceGraph` | what a `Frontend` keeps over several calls: source nodes, dependents, dirty bits, checked modules |
| `SourceGraphProofs` | theorems: what is clean is up to date, dependents match requires, what is called valid is closed under what it was checked against |
| `MCThreads` | one instance of `BuildQueue`, `TaskScheduler` and `SharedCode` |
| `MCSession` | three instances of `SourceGraph`, in one run |

### State of LuaGC against the code

| Variable | Code |
|---|---|
| `ref[o][f]` | the references of an object: `KEY`, `VAL`, `MT` of a table (one hash node), `MT` of a userdata, `VAL` of an upvalue's own cell (`uv->u.value`), `CAP` of a closure, slots `1..StackSize` of a thread |
| `top[th]` | `L->top`, or `ci->top` in a Lua function; slots above it are the unused part of the stack |
| `owner[u]`, `level[u]` | the thread whose `openupval` list holds `u` and the slot `u->v` points to |
| `markedopen` | `u->markedopen` |
| `mode[t]` | `__mode` of a metatable |
| `gmt` | `g->mt[]`, the metatable of one basic type |
| `cur`, `from[th]` | the running `lua_State` and the `lua_State` that called `lua_resume`; `isactive` is `IsActive` |
| `color[o]` | `marked`: "free" when the block holds no object, `w0`/`w1` for the two whites, "gray" for neither white nor black |
| `currentwhite`, `gcstate` | the fields of `global_State`; `GCSsweep` is "sweep" and so on |
| `gray`, `grayagain`, `weak` | the three lists threaded through `gclist`, as sets |
| `tosweep` | the pages `sweepgcopage` has not reached |
| `pc` | how far `atomic()` is; "none" outside |
| `full` | how far `luaC_fullgc` is: "finish" while it sweeps an abandoned cycle, "cycle" during its own cycle |

### Actions of LuaGC against the code

Collector: `StartCycle` (`markroot`), `Propagate(o)` (one `propagatemark` and the change
of state in `gcstep` when the gray list runs out), `AtomicUpvals`,
`AtomicWeak`, `AtomicAgain`, `AtomicFinish` (the statements of `atomic()` in order, cut
where it traverses the gray list), `Sweep(p)` (one `sweepgcopage`, and the end of the
cycle after the last page), `FullMark` (`luaC_fullgc` between its two sweeps).

Program: `Load` (any instruction or API call that writes a register), `Call`, `Return`,
`NewObject`, `NewString`, `NewClosure`, `NewClosureOver` (`luaF_findupval`),
`SetCaptured`, `SetUpval`, `CloseUpvals` (`luaF_close`), `SetTable`, `SetMetatable`,
`SetBasicMetatable`, `SetMode`, `Resume`, `Yield`, `XMove`, `ResetThread`, `FullGC`.
Each performs its store and the barrier the code performs with it (`Barrier`,
`TableBarrier`, `ThreadBarrier`) in one step, because GC steps happen only at the
program's allocation points (lgc.cpp:34).

### LuaTable against the code

| Variable | Code |
|---|---|
| `table.array`, `table.node` | `t->array`, `t->node`: a node has a key, whether the key is dead (`LUA_TDEADKEY`), a value and `next`, the relative offset |
| `table.lastfree` | the union of `lastfree` and `aboundary` (a boundary is stored negated) |
| `table.recursed` | a migration would have grown the table again (history; asserted impossible at ltable.cpp:484) |
| `at`, `seen` | the control variable of a traversal and the keys it has met |

`Set` is `luaH_set` with the assignment that follows (search, `newkey`, `rehash`,
`resize` and the migration of every entry), `Length` is `luaH_getn` with the boundary it
keeps, `NextElement` is `luaH_next`, `ResizeArray` is the growth of an array by `SETLIST`
or `table.move`, `Clear` and
`Clone` are `luaH_clear` and `luaH_clone`; `TraverseTable` and `ClearTable` are what
`traversetable` and `cleartable` of the collector do to a table.  `SetFails` is a `Set`
whose second allocation fails; only the run `table_oom` has it.  Each is one call of the
source, with everything it calls.

### PageAllocator and StringHeap against the code

| Variable | Code |
|---|---|
| `g.page[p]` | `lua_Page`: `freeList`, `freeNext`, `busyBlocks`; `blocks` is 1 for a large block |
| `g.allgcopages`, `g.freegcopages` | the two lists with `prev` and `next` of each page |
| `g.gco[b]` | a block: free with a link to the next free one, or a string with its mark |
| `g.hash`, `g.nuse` | `g->strt` |
| `g.gcstate`, `g.sweepgcopage` | the collector, as far as strings see it |
| `held`, `buffer` | the strings on the program's stacks, and the one being filled by a `luaL_Buffer` |

`NewLStr` is `luaS_newlstr`, `BufStart` and `BufFinish` are `luaS_bufstart` and
`luaS_buffinish`, `Drop` the program forgetting a string; `Cycle` is a cycle up to its
sweep, `Sweep` one `gcstep` of the sweep with `sweepgcopage`, `luaS_free` of each dead
string and the `shrinkbuffers` of the last; `FullGC` is `luaC_fullgc`, `Close` the
`luaC_freeall` of `lua_close`.  `NewBlock`, `FreeGco`, `WalkStart` are `luaM_newgco_`,
`luaM_freegco_` and `luaM_getpagewalkinfo`.

### CallStack against the code

| Variable | Code |
|---|---|
| `ci[t]` | the `CallInfo`s of a thread: kind of function (Lua, C, C with a continuation), the flags `LUA_CALLINFO_HANDLE`, `RETURN`, the error function of `lua_pcallyieldable`, and whether an instruction of the frame waits for a call |
| `nCcalls`, `baseCcalls`, `status` | the fields of `lua_State`; "reentry" is `SCHEDULED_REENTRY` |
| `native` | the native stack: one entry per activation of `luau_execute`, of a C function, of `luaD_callint`, `luaD_performcally`, `luaD_callny`, `luaV_callTM`, `luaD_pcall`, `callerrfunc`, `lua_resume`, `resume_continue`, with the locals each keeps; the host is at the bottom |
| `signal` | whether the top runs, has been returned to, or an exception is on its way |
| `luauFastpcall` | the flag `LuauFastpcall`, both values |

`ExecCall`, `ExecMetamethod`, `ExecForCall`, `ExecFastPcall`, `ExecReturn` are the
instructions; `CCall`, `CPcall`, `CReturn`, `Yield`, `Error`, `Resume`, `ResetThread` are
what a C function may do; the actions named after what returns (`PerformCallYReturns`,
`CallIntReturns`, `PcallReturns`, ...) are the code after the call in each of these
functions.  `Unwind` is the C++ exception up to the next `luaD_rawrunprotected`,
`PcallHandles`, `CallErrFunc`, `PcallFails` the end of `luaD_pcall`; `Start`, `Restart`,
`Continue`, `ContinueEnds`, `Reenter`, `ResumeFails`, `ResumeHandled`, `ResumeEnds` are
`lua_resume` with `resume`, `resume_continue`, `resume_handle` and `resume_finish`.

### SharedCode against the code

| Variable | Code |
|---|---|
| `exists`, `moduleId[m]`, `refcount[m]` | the allocated `NativeModule`s, their `moduleId` (absent when anonymous) and their atomic count |
| `identified`, `anonymousCount` | `identifiedModules`, `anonymousModuleCount` |
| `allocations` | `CodeAllocator::liveAllocations` |
| `lock` | who holds `SharedCodeAllocator::mutex` in `eraseNativeModuleIfUnreferenced` |
| `execdata[p]` | the module the `execdata` of function `p` points into |
| `at`, `mod`, `want`, `script`, `closing` | where the thread of each VM is, and its locals |

`TryBindExisting`, `NotYetShared` and `Anonymous` are the beginning of
`compileInternal`; `CompileFails`, `GetExisting` and `Insert` the ways it ends
(`getOrInsertNativeModule`, `insertAnonymousNativeModule`); `BindNativeProtos` binds the
functions and adds their references; `DropRef` is the end of the `NativeModuleRef`;
`OnDestroyFunction` is `luaF_freeproto`; `Release` is `NativeModule::release`, after which
`EraseCheck` and `Erase` are the two halves of `eraseNativeModuleIfUnreferenced`;
`CloseVM` and `CreateVM` are the embedder's.  Any step of another thread may come between
two of these.

### CodeAllocator against the code

| Variable | Code |
|---|---|
| `prot` | the blocks and the protection `mmap` and `mprotect` gave their pages |
| `blockPos` | `blockPos` as an offset into the last block; `BlockUnits` is `blockEnd` |
| `header`, `unwindSize` | the blocks in `unwindInfos`, and the size `createBlockUnwindInfo` reports |
| `sections` | the `CodeAllocationData` not yet deallocated |
| `protectData` | the flag `LuauCodegenProtectData`, both values |

`Allocate` is `allocate` with `allocateNewBlock`; `UnwindFails` and `ProtectFails` are
the same function where it returns early after it has changed something; `Deallocate` is
`deallocate`.

### RequireCache against the code

| Variable | Code |
|---|---|
| `modules`, `provided` | `_MODULES` and `_CYCLIC_PLACEHOLDER_PROVIDED` of the registry |
| `locked` | the tables with the placeholders' metatable |
| `loads` | the calls of `lua_requireinternal` whose `load` has not ended, in the order in which they began |
| `shortCircuit`, `yields` | the flag `LuauCyclicRequireShortCircuit`, and whether the embedder's `load` yields; both values of each |
| `given`, `twice`, `failed`, `passedOn` | history, for the properties |

`RequireCached` is `isCached` and the return of what it found, `BeginLoad` is
`lua_requireinternal` up to and into `load` (with `createPlaceholder`, as
`ReplRequirer.cpp` calls it), `EndLoad` is `lua_requirecont` with the module's result,
`FailLoad` a module that throws; `ClearCacheEntry` and `ClearCache` are the calls of the
C API.

### ParseGraph and BuildQueue against the code

| Variable | Code |
|---|---|
| `requires`, `dirty`, `dependents` | `SourceNode::requireSet`, `dirtyModule`, `dependents` |
| `roots`, `seen` | what `queueModuleCheck` or `check` was called with; the set `seen` |
| `stack`, `path`, `mark`, `buildQueue`, `cyclic` | the locals of `parseGraph` |
| `items`, `cycles[n]` | the items of `moduleQueue` or of `check`, and their `requireCycles` |
| `entry`, `pc` | the function called and where the main thread is |
| `task[n]`, `result[n]` | how far `performQueueItemTask` is with item `n`, and what it caught |
| `waits[n]`, `dirtyDependencies[n]` | `reverseDeps` (inverted) and `dirtyDependencies` |
| `readyQueueItems`, `processing`, `remaining` | `BuildQueueWorkState` |
| `nextItems`, `itemWithException`, `cancelled` | locals of `checkQueuedModules` |

`SkipRoot`, `BeginRoot`, `Visit`, `FoundAgain`, `PostOrder` are the search, one action per
turn of its loop; `AddBuildQueueItems` appends its result.  `CheckItem` is one turn of
`checkBuildQueueItems`.  In `checkQueuedModules`, `BeginQueue` counts the dependencies and
sends the first items; `Wait`, `SpuriousWake` and `NotifyOne` are the condition variable;
`HandleReady` is the section under the mutex; then the progress callback may cancel, and
one of `SendNext`, `KeepGoing`, `Cancel`, `Throw`, `BreakCycle` follows; `EndQueue`
returns.  `CheckTask`, `PushReady` and `NotifyOne` are `performQueueItemTask`, on any
thread.

### TaskScheduler against the code

| Variable | Code |
|---|---|
| `phase` | whether there is a scheduler, is being destroyed, or has joined its workers |
| `tasks`, `worker`, `job` | the queue, and where each worker is with which task |
| `outbox`, `notifying` | what `executeTasks` or the destructor has yet to push, and whether it is between the mutex and `notify_one` |

`MainGoesOn` is a step of `BuildQueue` by the main thread, which then pushes what it sent
(`Push`, `NotifyWorker`) before it goes on; `PopTask`, `WaitForTask` and `RunTask` are a
worker's; `DestroyScheduler` and `JoinWorkers` are the destructor, after a return or an
exception alike.  `RunTask` is a step of `Task` of `BuildQueue`: the two modules are
composed, and the fairness `BuildQueue` assumes of an executor is replaced by that of the
worker threads.

### SourceGraph against the code

| Variable | Code |
|---|---|
| `f.node`, `f.requires`, `f.dependents` | `sourceNodes` and `requireSet`, `dependents` of each |
| `f.dirtySource`, `f.dirty[m]`, `f.invalid[m]` | `dirtySourceModule`, `dirtyModule` and `dirtyModuleForAutocomplete`, `invalidModuleDependency` and its twin |
| `f.resolver[m]` | the modules of `moduleResolver` and `moduleResolverForAutocomplete` |
| `f.parsed`, `f.made`, `f.used`, `f.stale` | what a module was made from (history, for the properties) |
| `disk`, `pending` | the files, and which of their changes were not announced yet |
| `doubtful[m]` | the modules of a resolver whose `allModuleDependenciesValid` may be wrong until their next check (history, for `ValidIsCurrent`) |

`Check` is `Frontend::check` or `parse` (when nothing is recorded): `getSourceNode` on
each module the search of `parseGraph` meets, then `recordItemResult` for as many items as
are finished before the call is cancelled or throws.  `MarkDirty` is `markDirty` with
`traverseDependents`, `ClearModules` and `Clear` are the calls of those names; `Edit`
changes a file.  `ParseGraph` and `BuildQueue` look inside one check, `SourceGraph` at
what it leaves to the next.

### Abstractions

Of the collector:

* Lists are sets: the order in which the gray list is traversed is arbitrary in the model
  and so are the order of pages in a sweep and the page of an object (`PageOf`).
* `atomic()` and `luaC_fullgc` are cut into steps, one object or page each; `Running`
  keeps the program blocked meanwhile, as the single thread of control does.
* The array part of a table behaves as its hash part with respect to the collector: a
  table is one node and a metatable.  An assignment needs the node to hold its key or to
  be empty, which is what `luaH_set` does with a free node; rehashing is not modelled.
* A table that is weak in keys *and* values does not remove the key of an empty node,
  as `traversetable` returns before its loop (lgc.cpp:359).
* Vectors and buffers are userdata without a metatable.  Prototypes, classes and class
  objects go through the gray list like closures and have one reference like `Func`.
* A string that is the value of `__mode` may itself be white or not, so `SetMode` may or
  may not fire the table barrier.
* `isactive` is derived from who resumed whom.  A thread that resumes another keeps it
  in a slot of its stack that no closure can overwrite (`Keeps`): the argument of
  `coroutine.resume`, or the closure of `coroutine.wrap`.  An embedder that calls
  `lua_resume` from C anchors the thread itself, as the manual asks.
* `lua_pcall`, errors and the interrupt are a `Return`, a `Yield` or a `CloseUpvals` to
  the heap.  Stack reallocation and shrinking move slots without changing them.
* Flags: `DebugLuauCoroutineFinally` and `LuauGcTraceUdata` are off.
* `lua_setupvalue` on a closure with a shared upvalue is `ApiSetUpvalue`.  It is not an
  action of `Program`, because it breaks the invariant of the collector (see Findings).

Of shared code:

* What runs under the mutex is one step, except where the count is read and the module
  destroyed after.  A step that needs the mutex waits until nobody holds it.
* Scripts with the same id have the same number of native functions, as the id is a hash
  of the bytecode.
* A function is bound to a module or not; the addresses within it are left out.
* The read of the count of a destroyed module is undefined: `EraseCheck` is not enabled
  then, so the thread waits for ever and the others go on.  `EraserFindsModule` says that
  it does not come to that, and is violated (see Findings).
* `contested` is a history variable: the threads whose wait for the mutex overlapped that
  of another for the same module.  Nothing reads it but `DestroysUnowned`.

Of the build queue:

* The flag `LuauCyclicRequireTypeInference` is off (the default), so an item is one
  module; one mode is modelled, the autocomplete one being alike.
* A module whose source cannot be read is never queued and is not in `Name`.
* `dirty` sets are as `markDirty` leaves them: whoever requires a dirty module is dirty.
  Edits, `markDirty` and the flags of invalid dependencies are in `SourceGraph`.
* A check returns, is cancelled (by the token or a time limit), or throws.  Exceptions of
  the callbacks themselves are left out.
* A behaviour is one call.  Several calls follow from the arbitrary `dirty` set.

Of tables:

* Keys are integers and objects; strings and other keys behave as objects that stay
  alive.  `Hash` gives collisions, `Address` lets one object take the place of another.
* Read-only flags, metatables, `safeenv` and the slots of inline caches are left out.
* A traversal ends when a new key is assigned, as then its order is undefined.
* Addresses of nodes are positions; the dummy node is no node at all.

Of strings and pages:

* One size class of collected blocks, and blocks too large for it; a page has
  `BlockCount` blocks.  Blocks outside of the collector's pages are not modelled.
* Every object is a string: marking is "which strings survive", at least those held.
* The table of atoms and the bytes of a string are left out; a hash is a constant.
* Growing and shrinking the string table may run out of memory at any time; the allocation
  of a block may not (nothing has changed then).

Of require:

* A module is its cache key: paths, aliases and registered modules only decide which one.
* A load that does not yield ends in the order of a stack, one that yields at any time.
* What a module returns is a table: a new one, or, without `export`, one that any module
  has in the cache.  A table nobody has any more may be reused.
* The cache is cleared for modules that are not being loaded, as tests/RequireByString.test.cpp
  does (360, 388).

Of the code allocator:

* Sizes are multiples of `kCodeAlignment`, as both roundings make them.
* A failure of the page functions leaves the protection as it was.
* `Deallocate` always succeeds, as its assertion demands.

Of calls:

* A Lua function or C function may do anything at each of its steps: call, raise an error,
  yield, return.  Functions that end at once are not distinguished from those that run.
* `MaxFrames` bounds the frames of all threads together, `MaxCCalls` and `HardLimit` are
  `LUAI_MAXCCALLS` and its extension for error handlers made small.  The sizes of the
  Lua stack and of the array of `CallInfo`s are left out: an overflow is an `Error`.
* `lua_break` and `lua_yield` change this state alike.  `DebugLuauCoroutineFinally` and
  the debugger's callbacks are left out.
* Only the host resumes its own main thread, and it resumes from the bottom of the native
  stack; C functions resume other threads.

Of the source graph:

* A source is the set of modules it requires.  `requireSet` is a hash table, so the search
  visits children in any of the orders of `Order`.
* Which of the types of a required module are used is left out: a module uses all those it
  requires and the resolver has, except across a reported cycle.
* The flag `LuauCyclicRequireTypeInference` is off; `parseModules`, type environments and
  the arenas kept alive by a cycle are not modelled.
* `markDirty` does nothing for a module that has no node, as in the code.  A file that
  appears for the first time is noticed by those who require it only when they are marked
  dirty themselves; no property says otherwise.

## Runs

| Run | Question | Bounds |
|---|---|---|
| `gc_safety` | does any write, at any stage of an incremental or a full collection, break the tri-colour invariant, the lists, or free something live? | two threads with 2 slots, a closure, an upvalue, a userdata, a pinned string, the registry, 2 pages; one of four programs |
| `gc_weak` | what does the program see of a collection? | main thread, registry, a metatable with every `__mode`, a string, a userdata |
| `gc_liveness` | does marking end and is garbage freed while the program keeps running? | main thread and a coroutine with 2 slots, a userdata, the registry |
| `gc_setupvalue` | the effect of `lua_setupvalue` on a shared upvalue (a violation) | two closures sharing an upvalue |
| `vm_data` | do the data structures of a VM keep their promises over every sequence of calls? | integer keys 1..4 and 2 objects at one address; 3 strings, one large, 3 pages of 2 blocks, 2 strings held; 2 threads, `LUAI_MAXCCALLS` 4, 3 call frames, both values of `LuauFastpcall`; 2 modules, one with `export`, 3 loads at once, 4 tables; 2 blocks of 3 1/2 pages, 2 sections of native code |
| `table_oom` | what a table is after memory ran out in a resize (a violation) | as `vm_data` |
| `calls_counted` | is `nCcalls` the depth of the native stack? (a violation) | as `vm_data`, `LuauFastpcall` off |
| `code_unwind` | is unwind information ever overwritten? (a violation) | as `vm_data`, `LuauCodegenProtectData` off |
| `threads` | the order of checks, the counts and the end of every call of the build queue; do the workers of the scheduler run every task and end; is the count of a native module ever wrong, a module leaked or destroyed too early, twice or while somebody owns it, and does closing every VM free everything? | every one of the 512 require graphs over 3 modules, every clean part, one or two roots, both entries; 2 VMs with 2 functions each, 2 addresses, a script of one function and one of two, anonymous scripts; 2 workers, on 2 of the graphs |
| `shared_code_race` | is a module ever touched after it was destroyed? (a violation) | as above |
| `build_queue_clean` | what a call that was cancelled or threw leaves to the next (a violation) | as above |
| `frontend_session` | is what is not dirty up to date, over every sequence of edits, checks and interruptions? | 3 instances with 3 modules that have 1 to 3 sources, one of them absent, with cycles: one with the longest cycles, one where a module may be stale behind a cycle, one with both resolvers; 2 orders; an edit is announced before the next |

`gc_safety` chooses one of four programs in its initial state (`Barriers`, `Upvalues`,
`Coroutines`, `Pinned` of `MCGC`), each the instructions one question is about; together
they fire every action of `LuaGC`, and all use the whole `Collector`.  There is no counter
to bound: objects are reused once freed, so the state
space is finite and every run explores all of it.  The instances are small but contain
what the properties need: two objects suffice for an edge from a marked to an unmarked
object, two pages for an object allocated before and after its page is swept, two slots
for a stale one, two threads for one that is suspended, and three consecutive cycles
happen in every run since objects may be collected and reused for ever.  What one
instance leaves out (three threads in a chain, several upvalues on one stack) is covered
by the theorems, which hold for every number of objects.

`vm_data` explores tables, strings, calls, require and native code one after the other:
they share no state, and the initial state chooses.  Four integer keys make arrays of size 0 to 4 with
every split between the parts; even keys collide with both objects and odd ones with each
other, so chains reach three nodes and both sides of Brent's variation happen.  Two
objects at one address are what a dead key needs to be confused.  Three strings fill a
class page and open a second, a large one has a page of its own, and the string table
grows from 1 to 4 buckets and shrinks.  With four nested C calls a coroutine is resumed
within a protected call within a coroutine, and every error and yield happens at every
depth; three frames are a handler's, the one that fails and its error function's.
A module with `export` and one without are enough for a cycle, for a placeholder that is
given, kept or passed on, and for a module that is loaded twice at once; three loads let
two of one module overlap with the other's.  Blocks of three and a half pages have a first
page with unwind information, a middle and a last one that is cut; sections are smaller
than a page, a whole page, and span two.
`CHECK_DEADLOCK FALSE` is there as a closed VM stops.

`frontend_session` has a diamond with the chord that makes a cycle, a module that
disappears, and modules that stop requiring one another.  With `MaxPending` 1 the program
announces an edit before it makes the next; a check may come in between.  Two instances have
one mode; the third, with fewer sources, has both, whose resolvers share the nodes and their
edges.

`threads` is the build queue with any executor, the build queue with the scheduler, and
the shared native code, which shares no state with them: a behaviour that has checked a
single module goes on with the VMs.  The scheduler has two workers and a graph in which two
modules can be checked at once, with a cycle or without: two tasks are pushed while both
workers wait, one waits, or none.  The temporal properties are checked under the fairness
of all three.

The instance of shared code is bounded by its constants alone: functions are freed and
compiled again for ever, addresses and VMs are reused.  Two VMs show every race of two
threads on one module; that more of them add nothing is what the theorems show.  Symmetry
(of addresses, and of the functions of one VM) is used for the run that checks an
invariant only.

Three modules are enough for a cycle of three with a chord, a cycle of two that another
module requires, a self-requirement, a diamond's two paths to one module, and a cycle that
one root reaches and another has reached before; two tasks run while a third item waits.
`CHECK_DEADLOCK FALSE` is there because a call ends; that it does is `Terminates`.

Properties of the collector:

* `NoDangling` - no live object or root refers to a freed object or to one about to be
  freed, not even from the unused part of a stack.
* `NoBlackToWhite` - while marking, a black object has no white reference.
* `ThreadColors` - a thread is black only while nothing is pushed on its stack unseen: it
  is neither running nor has it resumed another (`NeverBlack`, asserted in `luau_execute`
  and `luaF_findupval`), and its stack holds no white value but in slots under an open
  upvalue, which is gray (`BlackThreads`).
* `OneList` - `gclist` is intrusive, so each gray object is in exactly one list.
* `PauseClean` - a cycle ends with everything in the current white and no stale
  `markedopen` bit, abandoned cycles included.
* `ResumeChain` - resumed threads form a chain from the main to the running thread.
* `InvisibleCollector` - a GC step changes nothing the program can read, except entries
  of weak tables that really die.
* `ImplementsHeap` - collector and program together implement `LuaHeap`: objects
  disappear only in steps that keep everything reachable.
* `ClosesOnlyOrphans` - the collector closes an upvalue only if its thread is dying.
* `GarbageFreed`, `MarkingEnds` - liveness.

Properties of tables:

* `ImplementsMap` - whatever is inserted, moved by a collision, migrated, cleared or killed
  by the collector, a key reads as what was last assigned to it (`TableMap`).
* `Border` - the length is a border of the array, also with a boundary that was kept
  before assignments.
* `Traversal` - a traversal meets every entry that is there all the time, once, although
  entries die under it and their addresses are reused; no key is "invalid to next".
* `RehashFits` - the entries that migrate find room in the sizes computed before.
* `SizesFit` - as `computesizes` asserts, more than half of the array is in use; violated
  after a failed resize (see Findings).

Properties of strings and pages:

* `StringsUnique` - strings are equal when they are the same object, as `lobject.cpp`
  compares them: a string found dead is revived, a buffer that equals a string is dropped
  (`EqualIsSame`), and every finished string is in its bucket once, and is counted
  (`TableHasStrings`).
* `PagesAccounted` - both lists are linked both ways, have the pages they should, every
  block is in use or in one free list, and a closed VM has no page.
* `SweepFindsDead` - the sweep stands at a page that exists, and whatever is dead is ahead
  of it, however pages come and go meanwhile.

Properties of calls:

* `DepthLimited` - `nCcalls` is never less than the depth of the native stack it protects.
* `CallsCounted` - and not more; violated (see Findings).
* `YieldsUnwind` - a thread is yieldable exactly when everything on the native stack above
  its resume gives way to a yield.
* `StackBalanced` - what returns normally leaves its caller's frame on top, although its
  callee may have yielded, been continued by another resume, or failed, in between.
* `Continuable` - a suspended thread can be continued from its call frames alone.

Properties of require:

* `OneObject` - whoever requires a module, in a cycle, while it is loading or later, gets
  the same object; a module with a placeholder is never loaded twice at once, and there
  is a placeholder whenever one is to be populated.
* `LockedWhileLoading` - when a module has been loaded, nobody is left with a locked table.

Both are stated for programs in which no module returns the placeholder of another
(`~passedOn`; see "Noted without a run").

Properties of the code allocator:

* `CodeIntact` - live sections are apart, executable where they have code and writable
  nowhere; what the next allocation writes is writable and nobody's.  Pages are protected
  one by one and both tests of the remaining room are made on sizes that are aligned later,
  which is what could go wrong.
* `HeaderKept` - unwind information is not overwritten; violated (see Findings), and part
  of `CodeIntact` as long as no page failed to be protected.

Properties of shared code:

* `RefcountExact` - a count is the number of functions and references that own the module,
  at every point of every thread, and an owned module is allocated.
* `TableExact` - table, anonymous count and live allocations are those of the modules: what
  the destructors assert holds once they are gone.
* `NoLeak` - a module nobody owns has a thread on its way to erase it.
* `DestroysUnowned` - what a thread is about to destroy is there and nobody's, so a module is
  destroyed once and not under a VM that found it in the table after its count was zero;
  and a thread that waited alone finds its module, however often others bound and
  released it meanwhile.
* `EraserFindsModule` - every thread that waits to erase finds its module, those that two
  released to zero in turn included; violated (see Findings).
* `Drains` - when all VMs are closed, all modules are destroyed in the end, unless a thread
  is left to read the count of a destroyed one.

Properties of the build queue:

* `BuildOrder` - what the searches of all roots give: complete, without repetition, and
  dependencies first unless a reported cycle is cut.
* `CyclesCut` - the same of the checks themselves, whatever the executor does: a module is
  sent before one it requires only across a cycle reported for it.
* `CountsExact` - the three kinds of counts that decide when to send, wait and stop.
* `NoTaskLeft` - no task is checking when the call returns or throws.
* `DoneMeansChecked` - a normal return has checked everything it was asked for.
* `Terminates` - every call ends.
* `Joins` - with the scheduler as the executor, the call ends, every task was run, and every
  worker ends: no notification is lost that somebody waits for.
* `CleanClosed` - what parseGraph relies on between calls; violated (see Findings).

Properties of the source graph:

* `CleanIsCurrent` - a module that is not dirty is made from its source and from modules
  that are there and not dirty.
* `ValidIsCurrent` - a module whose dependencies are called valid (`allModuleDependenciesValid`)
  is in the resolver and refers, through however many others, only to modules the resolver
  has, unless one of them is doubtful.  The flag of a module can be wrong when the module was
  checked against one that was erased, which invalidates nothing; when it was parsed again and not
  checked in this resolver, so that it is nobody's dependent; or when it was checked against
  a module that is clean and invalid, as a cancelled call or a cycle leaves them, at which a
  later traversal stops.  `doubtful` has these modules, one by one and for each resolver, and
  only until they are checked again.  The property is stated after any calls: it says that
  these are the only ways in which the flag goes wrong, that a wrong flag never spreads beyond
  what refers to such a module, and that the next check puts it right.
* `DependentsMatch` - dependents are nodes that require the module, and a clean module is
  a dependent of all it was checked against; `markDirty` reaches it.

Every property of every run has a mutant in `PROJECT.json`: a faulty variant of one
definition (a barrier left out, a list forgotten, a colour not reset; the definitions
commented "Faulty variant") with which TLC finds the property violated.

### Fairness

`Spec` of `LuaGC` assumes `WF_vars(Collector)` and nothing about the program.  `luaC_step` runs at
allocation points whenever the allocated bytes exceed the threshold, each step performs
at least one unit of work, and the pacer moves the threshold (lgc.cpp:1278-1347): a
program that allocates gets GC steps again and again.  The collector is a single
sequential activity, so one weak fairness condition on all of it is enough; which object
or page it takes next is not assumed fair.  A program that stops allocating gets no GC
steps, nor does it need memory.

`Fairness` of `SharedCode`, which `MCThreads` assumes, is `WF` of `Continue(t)` for each VM: a thread that has
begun to bind or to release goes on, and a VM that is closing frees its functions, since
nothing there waits but for the mutex.  Weak fairness is enough for the mutex: a closing
VM takes it finitely often, so it is free from some time on for whoever waits last.
Nothing is assumed about compiling or closing.  `SharedSpec` has no fairness.

`Spec` of `BuildQueue` assumes `WF` of the main thread and of each task (`QueueFairness`).  The main thread
blocks only on the condition variable; a task is an ordinary function that runs to its
end once the executor runs it, and that the executor runs all of them, on any thread, is
its contract (Frontend.h:241).  `SpuriousWake` is not assumed to happen, so `Terminates`
rests on the notification alone.  `SchedulerFairness` replaces
the executor's contract by `WF` of the main thread and of each worker, which block only on
the mutex, held for a moment, and on their condition variables; no spurious wake-up is
assumed.  `MCSpec` of `MCThreads` is the conjunction of the three, each for the behaviours
it is about.

## Proofs

### The collector

`LuaGCProofs` is about `LuaGC` itself, for arbitrary sets of objects, threads and pages.  The assumptions are `KindsAssumption` and `DisjointAssumption` of
`LuaGC`, which say that the kinds of objects are disjoint and where the distinguished
objects belong; TLC evaluates them in every run.

* `TypeCorrect`: `Spec => []TypeOK`.  Lemmas give the range of each operator (marking
  returns white objects only, a traversal yields objects or `Nil`, ...), and one step
  per action concludes.
* `ChainCorrect`: `Spec => []ResumeChain`.  With the conjunct that no threads resumed one
  another in a circle the chain is inductive: a resume appends a thread that was not
  active, a yield removes the last one.
* `OneListCorrect`, `PauseCleanCorrect`, `NeverBlackCorrect` from `ColorInv`.  None of
  the three is inductive.  `PauseClean` needs to know, in the middle of a sweep, that
  the pages already visited hold nothing but the current white (`Swept`), and outside of
  a sweep that the other white does not exist (`OneWhite`).  That an open upvalue is
  never black needs `OpenBits`: an upvalue with its `markedopen` bit is gray while
  marking, so that `AtomicFinish` closes exactly the others; and `PauseClean` needs that
  bits are clear during an ordinary sweep but may be stale in the sweep of an abandoned
  marking, until `FullMark` clears them.
  The actions of the program are handled through one lemma, `ProgramRecolors`: each of
  them only allocates, whitens behind the sweep, marks a white object, turns a black one
  back, or closes an upvalue, and the lists follow the colours.
* `NoDanglingCorrect`, `NoBlackToWhiteCorrect`, `BlackThreadsCorrect` (with
  `NeverBlackCorrect` it gives `ThreadColorsCorrect`) from `SafeInv`, which adds `RefInv` to `ColorInv`.  `NoDangling` is far from inductive: that the atomic
  phase frees nothing live follows from what each of its stages has marked (`AtomicDone`,
  `RootsMarked`), which follows from the tri-colour invariant during marking
  (`BlackObjects`, `BlackStacks`), which in turn holds only because nothing live is ever
  stored from a freed block (`FieldsLive`, `FreeEmpty`) and because the thread of an open
  upvalue is alive and marked once it has claimed it (`OpenOwner`).
  A step of the collector marks a set of live objects; `MarkingMarks` says what that
  achieves: whatever turns black at once has marked references only.  At the end of the
  atomic phase (`AtomicFinishSafe`) no gray list is left, so the marked objects are
  closed under references and the other white is exactly the garbage.
  A step of the program is described by its `Effect`: what it stores is alive, and marked
  if the holder stays black; what its barrier blackens has marked references; upvalues
  open on the running thread and close on a thread that is not black.  `EffectSafe` shows
  that any such step preserves `RefInv`, and one lemma per operation shows its effect.
  The proof needs the frame that resumed a coroutine to hold it (`Keeps`): without that
  a yield could return to a thread that was collected.

* `ImplementsHeapCorrect`, `InvisibleCollectorCorrect` and `ClosesOnlyOrphansCorrect`, in
  the last part of `LuaGCProofs`.  One argument carries the three (`CollectorSurvives`): an object that is
  alive after a step of the collector was alive before it, and is as it was, except that a
  weak table may lose an entry whose weak part dies.  So what the program can reach never
  changes, and the step is a stutter of `LuaHeap` or its `Collect`; a step of the program
  is its `Mutate`.  `StepInv` adds what `SafeInv` did not need: a table in the weak list
  that the atomic phase has traversed has unmarked parts only where it is weak
  (`WeakDone`), or clearing it would not be the whole story; an active thread that was
  traversed last has claimed its open upvalues (`Claimed`), so that only those of orphans
  are closed; and an open upvalue lies within its thread's stack (`OpenLevels`), since what
  a traversal erases above the top would be seen through it.

Only model-checked: the liveness properties.

### Native code

The first part of `NativeCodeProofs` is about `SharedCode`, for any finite sets of VMs and functions and any set of addresses
and ids (`ConstantsAssumption`).  `IInv` adds `LocalInv` to the properties: what `at` says
of the locals of each VM, that a script being bound has functions of that VM without code
yet, and that only the VM at "free" holds the mutex, its module being unowned.  The set
of owners of each module changes by one function, by one reference or by the functions of
a script (`ReferCounts`, `ReleaseCounts`, `OwnersUnchanged`), and the count follows.
`NoLeak` is not inductive without `RefcountExact`: that a thread which brings a count to
zero is on its way to erase holds for the last of several such threads.

`DestroysCorrect` takes two facts more.  `Contested` says that a thread which waits for the
module another waits for, or destroys, is in `contested`; `Alone`, that a thread which is
not finds its module.  `StepErases` names the only ways a step changes who erases what, and
a thread that comes to wait is never late for one that destroys already, because what is
released has an owner and what is destroyed has none (`FreeUnowned`).

All five theorems are about `SharedSpec`, every interleaving of the steps above.  A thread that
would read the count of a destroyed module takes no further step there; it is this
that `EraserFindsModule` excludes, and that property is false (see Findings).

Only model-checked: `Drains`.

The second part is about `CodeAllocator`, for any sizes of pages, blocks and functions.
`CodeInv` is inductive and gives `CodeIntact`: sections begin at a page and end within their
block (`Fits`), lie apart in pairs (`Apart`) and have their pages protected (`Protected`);
nothing live lies ahead of `blockPos`, and the pages ahead are writable as long as no
protection failed half-way (`Ahead`); and while none failed at all, no block that has
unwind information is still at its start (`HeaderAhead`), so the next section is not placed
over it.  The lemmas are about pages: what rounding up returns, and that the pages of
ranges that begin at a page and do not overlap are disjoint.

### Build queue

`BuildQueueProofs` is for any finite set of modules, any set of require graphs and any
lists of roots (`GraphAssumption`, `NoneAssumption`).  `IInv` has four parts besides the
types and `CountsExact`:

* `ParseInv` with `SearchInv` for the search: the stack holds as many markers as the path
  has modules, so that a marker popped always has its module; modules on the path and in
  `buildQueue` are marked, dirty and not queued by an earlier root, and occur once.
* `CheckInv` for `checkBuildQueueItems`: until it stops, every item it has checked is clean.
* `QueueInv` for `checkQueuedModules`: an item in `readyQueueItems` is there once and has
  been checked; every unhandled item is dirty, and *exactly* the unhandled ones are as long
  as nothing stopped the loop.  This is what ties `remaining`, which the code decrements by
  the size of each batch, to the modules recorded, which may be fewer; and it is why a
  return with `remaining = 0` and nothing pending has recorded everything.

`Recording` says what one batch does to the counts of dependencies, `Sending` what sending
does to `processing`; `ResumeStep` and `ProceedStep` are the two kinds of step after the
progress callback.  `NoTaskLeft` follows from the count: every way out of the loop has
`processing = 0` or `remaining = 0`.

The second half proves the order of the items.  A marker on the stack stands for a module
of the path, and the number of markers below an element tells for which it was pushed
(`Level`).  `PathInv`: the path is one of the require graph, and the stack holds
requires of its modules.  `ChildrenInv`: what a module of the path requires is still on the
stack for it, finished, next on the path, or was found on the path.  `FinishedInv`: what
a finished module requires is finished before it, or lies on a cycle with it.  `OrderInv` says the
last of the items of all searches.  `Reached` is stated as the least closed set, so that
the provers need no induction along a path: that a set is closed is enough.  `CutInv` adds
that an item waits for every dirty item that it requires, and that what is about to be
sent requires nothing dirty; `CyclesCut` follows, since an item that is sent although
it waits is the first that was not, and what comes later is on a cycle with it.

`SchedulerImplementsQueue` shows, step by step, that `SchedulerSpec` implements `BuildQueue`: a worker's step
is one of the task it has, or a stutter.  What holds of every behaviour of `BuildQueue`
then holds with these workers (`SchedulerChecksInOrder`).  `SchedulerInv` says
that an unfinished task is in the queue or with one worker, and at most once
(`TaskInOnePlace`), and that the empty tasks which end the workers come after the call is over and
are one for each worker (`EmptyTasks`).  `NothingLeftCorrect` is the safety part of `Joins`: once the
workers are joined, the queue is empty and no task is unfinished.

Only model-checked: `Terminates` and the liveness of `Joins`.

### Require

`RequireCacheProofs` is for any sets of modules and of tables and any bound on the loads at
once (`RequireAssumption`).  `RequireInv` adds to the types, unless a module passed on a
placeholder: a locked table that the cache or a requirer has is the cached one of a single
module, which has a placeholder and is being loaded or failed (`Owned`); nobody has another
table of a module that was not loaded twice (`Same`); only modules with a placeholder are
noted, and they are never loaded twice at once (`Noted`); and while a module is loaded the
cache has its placeholder, noted if it was given, or nothing (`Cached`).  `OneObject` is
not inductive without the last: when a load ends, in whatever order, the placeholder must
still be there exactly when somebody has it.
`OneObjectCorrect` and `LockedCorrect` follow.

### Calls

`CallStackReturns` and `CallStackProofs` are for any threads, any limits and either value of
`LuauFastpcall` (`CallAssumption`).  The properties relate three things that the code keeps
apart: the counts of each thread, its call frames, and the native stack, where the
activations of all threads lie on one another.  What relates them is not in the state: a
frame outlives the native activation that pushed it (a yield or an error throws the native
stack away and leaves the frames), and the counts of a thread are those of its top, while
those at which an activation below was entered are in no variable unless it saved them.
So the invariant supplies them: `CallInv` says that *there is* a sequence `g` with a note for
each native activation, namely the height of its thread's frames (`h`), by how much `nCcalls` was
ahead of `baseCcalls` (`y`), and lower bounds of the two (`c`, `b`), such that `Balanced(g)`:

* neighbours fit (`Atop`): which activation may lie on which, and how the notes of the
  upper follow from those of the lower;
* the notes mean something: the C calls up to an activation are at most its `c` (`Deep`), and
  its `y` is 0 exactly when everything from its thread's resume to it gives way to a yield
  (`Clears`); the activations of a thread lie together and their notes grow (`Together`, `Rising`);
* each activation finds the frames it will need (`Knows`), for the running thread and for those that
  have resumed it;
* a frame in which a thread could not be continued (`Bad`: of a C function without a
  continuation that has called, or of an instruction whose call gives no way) is
  explained by an activation that is still on the native stack (`Calls`) or is about to be cut
  off by an error (`Failed`); and the marks of protected calls above such a frame belong to
  `luaD_pcall`s on the native stack (`Marks`);
* the top runs, returns or throws with counts and frames that fit its note (`Runs`,
  `Returns`, `Throws`), and each suspended thread can be continued (`Suspended`).

A call appends an element with its note, a return removes one, an error or a yield removes
several, so each step is a lemma about `Append` or about a prefix.  The notes of a
thread that is continued are not those it had when it yielded: its old activations are
gone, and the new one, `resume_continue`, is noted from what it finds.  The formula was found
and checked with TLC, which computes the notes, before it was proved.  The assumption
`MaxCCalls > 0` is needed: with the limit 0 the host's own
resume of its main thread would be refused.

Left to TLC: `CallsCounted`, which is violated (see Findings).

### Tables

`LuaTableProofs` is for any integer and object keys, any hash that agrees for objects at one
address, any set of values, and tables of any size.  The inductive invariant is
`TableHolds`: the table is a `TableInv` of some number of nodes, and no migration has grown
it.  `TableInv` says what the code never writes down.

* The links do not go round and no two nodes have the same next (`Linked`; that they do not go
  round is a rank that rises along them).  A node with a key is reached from the main
  position of the key, and the key found there has it for its own main position
  (`Settled`): so the node that newkey moves aside is found from its own main position.  A live
  key is in one node (`HashInv`).
* No node has a key of the array, or the next after it.  `Border` rests on this: an array
  without nil at its end is not continued in the nodes.
* The nodes behind `lastfree` have keys, so `getfreepos` overlooks no position; and a
  boundary is kept in `lastfree` only of an array that is not empty.

An insertion changes at most three nodes.  One lemma says of each way of doing it that all
chains still reach what they reached: `TakesMain`, `ChainsOn` and `MovesOut`, on top of
`LinkAfter` and `LinkMoves`, which are about links alone.  `InsertIs` and `StoreIs` conclude
that no other key reads differently.

A resize is a long computation in one step.  `Filled` is what holds in the middle of it: the
new table is a `TableInv`, holds the entries that have been moved and no other, and its
nodes have only keys that belong in nodes.  As long as these fit (`Fits`), a free position is
left whenever newkey looks for one: the positions behind `lastfree` have distinct keys that
have moved already (`RoomLeft`).  What is left is to show that the sizes fit.  `CountIs`
says that `numusearray` and `numusehash` count each key once, `ArraySizeIs` is the assertion of
`computesizes`, `AdjustIs` is the loop of `adjustasize`, and `RehashFills`, `ArrayResized` and `NodesResized`
draw the conclusion for the three callers of `resize`.

`BorderCorrect` needs the binary search of `luaH_getn` (`HalfSearchIs`): in each turn the
slot before those left is not nil, and one within or just after them is.

`MapImplemented`: each action changes what one key reads as, takes entries of dead keys or
values, clears everything, or changes nothing (`MapStep`).

`TraversalCorrect` has an inductive invariant of its own, `Traversed`, on top of `TableInv`.

* `Orderly`: only objects die, and a live key comes, in its chain, before every other node
  with a key like it: the same object, or a dead one at the same address.  So `findindex`
  meets the live key first.
* `Following`: the last key given was an `Element` of the array, or is in a node before which its chain
  has no key like it, so that `luaH_next` finds that node again even when the key has died.  Exactly
  the elements up to it that are still there have been given (`Passed`).

Each operation has to keep the order of keys that look alike.  An insertion keeps the order of
the nodes it does not move (`Placed`, `PlacedOrder`); stores and the collector keep keys and links
(`Stays`); and a resize leaves no two keys that look alike, since it moves the live ones only
(`Apart`, `UsedApart`).

These proofs follow data of any length: a chain, the powers of two, the slots and nodes that
migrate.  Where the library's induction takes an operator as a parameter, they
use the set of the numbers for which a formula holds (`UpTo`, `DownFrom`, `LeastNumber`), whose
induction is about a set.

### The source graph

`SourceGraphProofs` proves the three properties of `SourceGraph` for any modules, sources,
orders and any number of resolvers, from `SourceAssumption` (finitely many modules; an order
is a permutation of them).  The invariant `SessionInv` has, besides types:

* `Linked`: a dependent is a node that requires the module.
* `Known`: a module whose source is to be parsed again is dirty in every resolver, one
  that is not has its tree unless the source changed without notice, and a module that is
  called valid is in the resolver.
* `Current`: a clean module is made from its source and from clean modules, all of
  which know it as their dependent.  This is why `markDirty` may stop at a module that is
  dirty in every respect: whatever depends on it, directly or not, is dirty already.
* `Tracks`, in every resolver: what a valid module that is not doubtful was checked
  against is valid, is there, and knows the module as its dependent.  The last part is
  what `ValidIsCurrent` lacks to be inductive: it makes the traversal from a replaced module
  reach whoever refers to it.

`markDirty`, `clearModules`, an edit and `getSourceNode` keep these parts one by one
(`MarkedDirtySound`, `ErasedSound`, `ReadSound`, `GetSound`).  The difficulty is a
check: parsing a module takes it out of the dependents of what it required, and it becomes
a dependent of what it requires now only when the search leaves it; in between, other modules
are found clean, parsed again or gone.  The invariant of the search (`Searching`) cuts the
stack into levels by its markers (`Levels`).  Of what a module on the path requires, all
is clean, gone, finished, or still above its marker (`Pends`), and what is found above the
marker is reached from the module (`Leads`), which is why a module met again on the path makes a
cycle that `getRequireCycles` finds too.  So a module in the queue is after all it
requires, except what is clean, gone or across a reported cycle (`Ordered`), and is a
dependent of all it requires (`Told`).  One lemma per step keeps it
(`SearchVisits`, `SearchPushes`, `SearchSkips`, `SearchGrows`, `SearchFinishes`, `SearchPops`); since it says
of the queue what recording needs at any moment, the proof does not depend on the search having
ended.  `ParseWorks` puts the search together with what `getSourceNode` did to the
Frontend on the way (`Working`).  The queue is then recorded in order, up to any point
(`RecordSound`, `RecordsWork`): every module is checked against modules that are clean by then and
know it as their dependent.

For `Tracks` the proof says how a set of excepted modules has to grow on the way: by what
`getSourceNode` parses again and what was checked against a module it erased (`Excepts`,
`Derived`), by what was checked against one that `clearModules` erased (`Misses`), and by
what is recorded against an invalid module; `DoubtsCover` then compares it with `doubtful`.
The last case is needed although no call was interrupted and nothing erased: without it
the proof fails on a module that is clean and invalid (see [Findings](#findings)), which
the second instance of `MCSession` has and the others do not.

### Other components

What the modules `PageAllocator` and `StringHeap` say is only model-checked.
They follow chains of strings and lists of pages by folds
of the community modules, whose properties the
library does not state.  `SizesFit` after memory ran out is violated (see Findings).

## Findings

**Barrier of lua_setupvalue.**
`lua_setupvalue` (lapi.cpp:1734) calls `luaC_barrier` with the *closure* although the
value was written in a cell that other closures share (`aux_upvalue` returns
`upvalue(r)->v`, lapi.cpp:1701-1704); `SETUPVAL` applies it to the upvalue
(lvmexecute.cpp:477).  If the upvalue is closed and already black, and the closure passed
in is still white or gray, no barrier fires and a black object points to a white one,
against the main invariant stated at lgc.h:26.  `gc_setupvalue` shows it.

**A module destroyed before its count is read.**  `NativeModule::release` decrements
outside the mutex and `eraseNativeModuleIfUnreferenced` reads the count again under it
(SharedCodeAllocator.cpp:281).  The comment at line 278 allows for a thread that has
revived the module in the meantime, not for one that has revived *and released* it and was
first to get the mutex: it destroys the module, whose count the first thread then reads.
`shared_code_race` shows it with two VMs.

**Clean modules that require dirty ones.**  When a call is cancelled or throws in the
middle of a cycle, the item that was sent first to break the cycle may be recorded as
clean while a module it requires stays dirty.  `parseGraph` relies on the contrary
(Frontend.cpp:1031): the next check from the clean side reports no cycle.
`build_queue_clean` shows it.

**A table after memory ran out.**  `resize` grows the array before it allocates the new
nodes (ltable.cpp:456-458).  If that allocation throws, an integer key that was in the hash
part and is within the array now is hidden, as `luaH_getnum` looks in the array only; once
it is assigned again it is in both parts, and the next rehash counts it twice, against
the assertion at ltable.cpp:330.  `table_oom` shows it.

**C calls that are never given back.**  `luaD_performcally` (ldo.cpp:315) returns without
undoing its `++nCcalls` when the status is not `LUA_OK`.  A yield is undone by the next
`lua_resume`, but a reentry goes on within the same one: in a coroutine each iteration of a
generic `for` whose iterator calls `pcall` takes one C call from the limit, until the
coroutine yields or fails with "C stack overflow" after some 200 iterations.
`calls_counted` shows it; the same happens in the built program.  With `LuauFastpcall` it
happens only when the iterator is `pcall` itself.

**Unwind information that is overwritten.**  `allocate` takes a new block, whose first
bytes `createBlockUnwindInfo` fills and keeps by `startOffset`, a local variable
(CodeAllocator.cpp:185).  When the pages of the block's first allocation cannot be protected
the function returns early (line 289; 276, 278, 283 with `LuauCodegenProtectData`) with
`blockPos` at the block's start, and the next allocation writes over what
CodeAllocator.h:38 calls reserved, while the block's unwind information stays registered.
`code_unwind` shows it.

Noted without a run, as no comment or test says otherwise: a continuation that
`resume_handle` runs (ldo.cpp:708-715) and that calls `lua_pcallyieldable` leaves the
internal status `SCHEDULED_REENTRY` for the caller of `lua_resume`; `CallStack` follows
the code, and no action continues such a thread.  With `LuauFastpcall` an error inside a
fast pcall, or inside a pcall left for a reentry, can be caught by an ordinary
`luaD_pcall` below it on the native stack and not by the handler nearest to the error (the
mark lstate.h:76 asks for is then above the frame that goes on), so the second half of
`StackBalanced` is stated without the flag only; the first half, that what returns leaves its
caller's frame on top, holds with it.  Erasing a module, or parsing it again without a
check, invalidates no dependent (see `ValidIsCurrent`).  So does replacing one behind a
module that is clean and invalid.  A call leaves such a module without any interruption: in a
cycle of `a` and `b`, where `a` has been checked and `b` is new, `b` is recorded first and is
invalidated when `a` is replaced.  If `c` is checked against `b` next, it is called valid;
`markDirty(b)` and a check of `b` then stop at `b`, which is invalid already
(Frontend.cpp:2022), and `c` is still called valid although its `b` is gone.  With two resolvers a
module that one of them parses again loses its dependents (Frontend.cpp:2697), so that a check in
the other invalidates nobody.  `ValidIsCurrent` says that it goes no further: such a `c` is
doubtful until it is checked again.

Also without a run: the comment at Frontend.cpp:791 says that an exception or a
cancellation stops new items from being added, but a batch that also has a recorded item
before the one that stops sends the items it unlocked.  `NoTaskLeft` shows that the call
still waits for them.

Of require: a module without `export` that returns `require` of a module being loaded caches
the other's locked placeholder as its own result (`passedOn`).  A later `require` of it
takes the table for its own placeholder and notes it in `_CYCLIC_PLACEHOLDER_PROVIDED`;
once its entry is cleared and it is loaded again, `lua_requirecont` finds the note and calls
`populatePlaceholder` for a nil (`PopulateNil`, in eight steps, without yields).  A module
whose load failed leaves its locked placeholder in the cache, so that another `require`
returns that table instead of loading it again.  Both need `LuauCyclicRequireShortCircuit`.

Of the code allocator: a block for which `createBlockUnwindInfo` failed stays, and
the next allocation uses it without unwind information (`UnwindFails`).  With
`LuauCodegenProtectData`, if the code's pages cannot be protected after the data's were,
these stay read-only where the next allocation writes ("half" of `protectFailed`).

## Not modelled

| Part | Why |
|---|---|
| Parser and AST, compiler, bytecode builder, inliner, native code translation (`Ast`, `Compiler`, `Bytecode`, most of `CodeGen`) | sequential translations of a tree or an instruction sequence, with no state that outlives a call; what makes them right is a relation between programs and their meanings, which a bounded model could only restate line by line |
| Type checker, constraint solver, autocomplete, linter (`Analysis` but for the `Frontend`) | the same: sequential algorithms on types of unbounded depth.  These two rows are the greater part of the lines of the repository |
| Value operations and library functions of the VM | sequential functions on values; as users of the heap they are `Load`, `SetTable` and the other stores of `LuaGC`, as callers they are the C functions of `CallStack` |
| Bytecode loader | a decoder, which stops the collector for its duration |
| GC pacer | floating-point arithmetic that decides when a GC step runs; the model lets a step run at any time |
| Classes and objects of the VM | behind an experimental flag, sequential |
| Paths, aliases and configuration of `Require`, registered modules | functions of a path and of the file system; `RequireCache` starts from the cache key |
| Containers | see Plan |
| Command-line tools | input and output around the rest |

## Plan

Done: the collector, its abstract specification and the proofs of both; shared native code and its
proofs; the build queue with its worker threads, and its proofs; the call stack and
coroutines, and its proofs; strings and pages;
tables against a map, and its proofs; the source graph over several calls, and its proofs; the cache of require and its
proofs; the code allocator.

Left, in order of importance:

1. `VecDeque`, `DenseHash` - pure algorithms against a sequence and a map.
2. `LuaClass` - shapes cloned and inherited; who shares `memberstooffset`.
3. Blocks outside of the collector's pages, and the pages of `LuauBufferCage`.
