------------------------------- MODULE SharedCode -------------------------------
(***************************************************************************)
(* Native code shared by several VMs, each on a thread of its own:         *)
(* CodeGen/src/SharedCodeAllocator.cpp (modules, reference counts, the     *)
(* table of modules by id) and the client code of CodeGenContext.cpp that  *)
(* finds, inserts, binds and releases modules.                             *)
(*                                                                         *)
(* A section of code under SharedCodeAllocator::mutex is one action,       *)
(* except eraseNativeModuleIfUnreferenced, which is two: the read of the   *)
(* reference count, with the mutex taken, and the destruction.  Reference  *)
(* counts are atomics that every thread changes outside the mutex.         *)
(***************************************************************************)
EXTENDS Naturals, FiniteSets

CONSTANTS VM,       \* the Lua VMs that share a context, one thread each
          Proto,    \* the functions (struct Proto) of all the VMs
          owner,    \* owner[p]: the VM of function p
          Module,   \* the addresses a NativeModule can have; they are reused
          Id,       \* the values of ModuleId
          natives,  \* natives[id]: how many functions of that script have native code
          Nil, NoId, NoVM

ASSUME ConstantsAssumption ==
    /\ IsFiniteSet(VM) /\ IsFiniteSet(Proto) /\ VM \cap Proto = {}
    /\ owner \in [Proto -> VM]
    /\ natives \in [Id -> Nat \ {0}]
    /\ Nil \notin Module /\ NoId \notin Id /\ NoVM \notin VM

VARIABLES
    exists,         \* the NativeModules that are allocated
    moduleId,       \* moduleId[m]: the id of m; NoId when m is anonymous
    refcount,       \* refcount[m]
    identified,     \* identifiedModules[id]: the module of id, or Nil
    anonymousCount, \* anonymousModuleCount
    allocations,    \* CodeAllocator::liveAllocations, but for the gate's
    lock,           \* the VM whose thread holds SharedCodeAllocator::mutex
    execdata,       \* execdata[p]: the module of p's native code, or Nil
    at, mod,        \* where each VM is, and the module it works on
    want, script,   \* the id and the functions it compiles
    closing,        \* closing[t]: lua_close of VM t has begun
    contested       \* the VMs whose wait to erase a module was not theirs alone (history)

shared == <<exists, moduleId, identified, anonymousCount, allocations>>
local == <<want, script, closing>>
sharedVars == <<shared, refcount, lock, execdata, at, mod, local, contested>>

SharedTypeOK ==
    /\ exists \subseteq Module
    /\ moduleId \in [Module -> Id \cup {NoId}]
    /\ refcount \in [Module -> Nat]
    /\ identified \in [Id -> Module \cup {Nil}]
    /\ anonymousCount \in Nat /\ allocations \in Nat
    /\ lock \in VM \cup {NoVM}
    /\ execdata \in [Proto -> Module \cup {Nil}]
    /\ at \in [VM -> {"idle", "compile", "bind", "drop", "erase", "free"}]
    /\ mod \in [VM -> Module \cup {Nil}]
    /\ want \in [VM -> Id \cup {NoId}]
    /\ script \in [VM -> SUBSET Proto]
    /\ closing \in [VM -> BOOLEAN]

SharedInit ==
    /\ exists = {}
    /\ moduleId = [m \in Module |-> NoId]
    /\ refcount = [m \in Module |-> 0]
    /\ identified = [id \in Id |-> Nil]
    /\ anonymousCount = 0 /\ allocations = 0
    /\ lock = NoVM
    /\ execdata = [p \in Proto |-> Nil]
    /\ at = [t \in VM |-> "idle"]
    /\ mod = [t \in VM |-> Nil]
    /\ want = [t \in VM |-> NoId]
    /\ script = [t \in VM |-> {}]
    /\ closing = [t \in VM |-> FALSE]
    /\ contested = {}

-----------------------------------------------------------------------------
(* compileInternal, and bindModule or tryBindExistingModule                 *)

\* The functions of VM t with no native code: compileInternal skips the others.
Unbound(t) == {p \in Proto : owner[p] = t /\ execdata[p] = Nil}

\* VM t calls compile on a script with functions S.
Compiles(t, S) ==
    /\ at[t] = "idle" /\ ~closing[t]
    /\ S # {} /\ S \subseteq Unbound(t)
    /\ script' = [script EXCEPT ![t] = S]
    /\ UNCHANGED <<lock, execdata, closing>>

\* A NativeModuleRef to m for VM t, which goes on to bind the functions.
Refer(t, m) ==
    /\ refcount' = [refcount EXCEPT ![m] = @ + 1]
    /\ at' = [at EXCEPT ![t] = "bind"]
    /\ mod' = [mod EXCEPT ![t] = m]

\* tryGetNativeModule finds a module, whatever its count: it may be zero.
TryBindExisting(t, S, id) ==
    /\ lock = NoVM
    /\ Cardinality(S) = natives[id]
    /\ Compiles(t, S)
    /\ identified[id] # Nil
    /\ Refer(t, identified[id])
    /\ UNCHANGED <<shared, want>>

\* It finds none: the VM compiles the script, outside the mutex.
NotYetShared(t, S, id) ==
    /\ lock = NoVM
    /\ Cardinality(S) = natives[id]
    /\ Compiles(t, S)
    /\ identified[id] = Nil
    /\ at' = [at EXCEPT ![t] = "compile"]
    /\ want' = [want EXCEPT ![t] = id]
    /\ UNCHANGED <<shared, refcount, mod>>

\* A script compiled without an id: its module is shared with nobody.
Anonymous(t, S) ==
    /\ Compiles(t, S)
    /\ at' = [at EXCEPT ![t] = "compile"]
    /\ UNCHANGED <<shared, refcount, mod, want>>

\* The assembler cannot finalize, no function compiles, or no memory is left.
CompileFails(t) ==
    /\ at[t] = "compile"
    /\ at' = [at EXCEPT ![t] = "idle"]
    /\ want' = [want EXCEPT ![t] = NoId]
    /\ script' = [script EXCEPT ![t] = {}]
    /\ UNCHANGED <<shared, refcount, lock, execdata, mod, closing>>

\* getOrInsertNativeModule: another VM inserted the module in the meantime.
GetExisting(t) ==
    /\ at[t] = "compile" /\ want[t] # NoId
    /\ lock = NoVM
    /\ identified[want[t]] # Nil
    /\ Refer(t, identified[want[t]])
    /\ want' = [want EXCEPT ![t] = NoId]
    /\ UNCHANGED <<shared, lock, execdata, script, closing>>

\* The code is allocated, and module m made with a first reference to it.
NewModule(t, m) ==
    /\ at[t] = "compile"
    /\ lock = NoVM
    /\ m \notin exists
    /\ exists' = exists \cup {m}
    /\ moduleId' = [moduleId EXCEPT ![m] = want[t]]
    /\ allocations' = allocations + 1
    /\ identified' = [id \in Id |-> IF id = want[t] THEN m ELSE identified[id]]
    /\ anonymousCount' = IF want[t] = NoId THEN anonymousCount + 1 ELSE anonymousCount
    /\ refcount' = [refcount EXCEPT ![m] = 1]
    /\ at' = [at EXCEPT ![t] = "bind"]
    /\ mod' = [mod EXCEPT ![t] = m]
    /\ want' = [want EXCEPT ![t] = NoId]
    /\ UNCHANGED <<lock, execdata, script, closing>>

\* Faulty variant: the table is not looked up again under the mutex.
InsertWithoutLookup(t, m) == NewModule(t, m)

\* getOrInsertNativeModule, or insertAnonymousNativeModule, makes module m.
Insert(t, m) ==
    /\ want[t] # NoId => identified[want[t]] = Nil
    /\ NewModule(t, m)

\* bindNativeProtos, and addRefs of n references.
Bind(t, n) ==
    /\ at[t] = "bind"
    /\ execdata' = [p \in Proto |-> IF p \in script[t] THEN mod[t] ELSE execdata[p]]
    /\ refcount' = [refcount EXCEPT ![mod[t]] = @ + n]
    /\ script' = [script EXCEPT ![t] = {}]
    /\ at' = [at EXCEPT ![t] = "drop"]
    /\ UNCHANGED <<shared, lock, mod, want, closing>>

\* Faulty variant: the first function takes over the reference of the NativeModuleRef.
BindSharesRef(t) == Bind(t, Cardinality(script[t]) - 1)

\* One reference for each function.
BindNativeProtos(t) == Bind(t, Cardinality(script[t]))

-----------------------------------------------------------------------------
(* NativeModule::release, and eraseNativeModuleIfUnreferenced               *)

\* fetch_sub, outside the mutex; a release that left no reference goes on to erase.
ReleaseLeaving(t, m, count) ==
    /\ refcount' = [refcount EXCEPT ![m] = @ - 1]
    /\ IF count # 0
       THEN /\ at' = [at EXCEPT ![t] = "idle"]
            /\ mod' = [mod EXCEPT ![t] = Nil]
       ELSE /\ at' = [at EXCEPT ![t] = "erase"]
            /\ mod' = [mod EXCEPT ![t] = m]
    /\ UNCHANGED <<shared, lock, local>>

\* Faulty variant: what fetch_sub returns is taken for the new count.
ReleaseOldCount(t, m) == ReleaseLeaving(t, m, refcount[m])

Release(t, m) == ReleaseLeaving(t, m, refcount[m] - 1)

\* The NativeModuleRef of bindModule or tryBindExistingModule goes out of scope.
DropRef(t) ==
    /\ at[t] = "drop"
    /\ Release(t, mod[t])
    /\ UNCHANGED execdata

\* luaF_freeproto of a function with native code: a sweep, or lua_close.
OnDestroyFunction(t, p) ==
    /\ at[t] = "idle"
    /\ owner[p] = t /\ execdata[p] # Nil
    /\ execdata' = [execdata EXCEPT ![p] = Nil]
    /\ Release(t, execdata[p])

\* eraseNativeModuleIfUnreferenced, with the mutex, reads the count; holder has
\* the mutex after.  The read is defined only while the module exists.
ReadCount(t, holder) ==
    /\ at[t] = "erase"
    /\ lock = NoVM
    /\ mod[t] \in exists
    /\ IF refcount[mod[t]] # 0
       THEN /\ at' = [at EXCEPT ![t] = "idle"]
            /\ mod' = [mod EXCEPT ![t] = Nil]
            /\ UNCHANGED lock
       ELSE /\ at' = [at EXCEPT ![t] = "free"]
            /\ lock' = holder
            /\ UNCHANGED mod
    /\ UNCHANGED <<shared, refcount, execdata, local>>

\* Faulty variant: the mutex is given back between the read and the destruction.
CheckThenUnlock(t) == ReadCount(t, NoVM)

EraseCheck(t) == ReadCount(t, t)

\* The rest of it: the code is deallocated and the module destroyed.
Destroy(t) ==
    /\ at[t] = "free"
    /\ exists' = exists \ {mod[t]}
    /\ allocations' = allocations - 1
    /\ identified' = [id \in Id |-> IF id = moduleId[mod[t]] THEN Nil ELSE identified[id]]
    /\ anonymousCount' = IF moduleId[mod[t]] = NoId THEN anonymousCount - 1 ELSE anonymousCount
    /\ moduleId' = [moduleId EXCEPT ![mod[t]] = NoId]
    /\ at' = [at EXCEPT ![t] = "idle"]
    /\ mod' = [mod EXCEPT ![t] = Nil]
    /\ UNCHANGED <<refcount, execdata, local>>

\* Faulty variant: the mutex stays locked.
EraseKeepsLock(t) == Destroy(t) /\ UNCHANGED lock

Erase(t) == Destroy(t) /\ lock' = NoVM

\* lua_close: close_state frees every function, so nothing is compiled any more.
CloseVM(t) ==
    /\ at[t] = "idle" /\ ~closing[t]
    /\ closing' = [closing EXCEPT ![t] = TRUE]
    /\ UNCHANGED <<shared, refcount, lock, execdata, at, mod, want, script>>

\* A new VM is created on the context in the place of a closed one.
CreateVM(t) ==
    /\ at[t] = "idle" /\ closing[t]
    /\ \A p \in Proto : owner[p] = t => execdata[p] = Nil
    /\ closing' = [closing EXCEPT ![t] = FALSE]
    /\ UNCHANGED <<shared, refcount, lock, execdata, at, mod, want, script>>

-----------------------------------------------------------------------------
\* A thread that waits to erase a module is contested once another waits for the same one.
Contest ==
    contested' = {t \in VM : at'[t] = "erase" /\
                     (t \in contested \/ \E u \in VM \ {t} : at'[u] = "erase" /\ mod'[u] = mod'[t])}

ThreadStep(t) ==
    \/ \E S \in SUBSET Proto, id \in Id :
          TryBindExisting(t, S, id) \/ NotYetShared(t, S, id)
    \/ \E S \in SUBSET Proto : Anonymous(t, S)
    \/ \E m \in Module : Insert(t, m)
    \/ \E p \in Proto : OnDestroyFunction(t, p)
    \/ CompileFails(t) \/ GetExisting(t) \/ BindNativeProtos(t)
    \/ DropRef(t) \/ EraseCheck(t) \/ Erase(t)
    \/ CloseVM(t) \/ CreateVM(t)

SharedNext == (\E t \in VM : ThreadStep(t)) /\ Contest

\* Every schedule of the threads.  One that would read the count of a destroyed module stops.
SharedSpec == SharedInit /\ [][SharedNext]_sharedVars

\* What a thread goes on with once it has begun, and the rest of lua_close.
Continue(t) ==
    \/ BindNativeProtos(t) \/ DropRef(t) \/ EraseCheck(t) \/ Erase(t)
    \/ closing[t] /\ \E p \in Proto : OnDestroyFunction(t, p)

Fairness == \A t \in VM : WF_sharedVars(Continue(t) /\ Contest)

-----------------------------------------------------------------------------
(* What must be true                                                        *)

\* Who owns a reference to m: the functions bound to it, and the VMs between
\* the construction and the destruction of a NativeModuleRef.
Holders(m) ==
    {p \in Proto : execdata[p] = m}
        \cup {t \in VM : at[t] \in {"bind", "drop"} /\ mod[t] = m}

\* The count of a module is the number of its owners, at every moment between
\* the steps of every thread, and a module with an owner is allocated.
RefcountExact ==
    \A m \in Module :
        /\ m \in exists => refcount[m] = Cardinality(Holders(m))
        /\ m \notin exists => Holders(m) = {}

\* The table, the count of anonymous modules and the count of allocations are
\* those of the allocated modules: what ~SharedCodeAllocator and ~CodeAllocator
\* assert to be empty is empty when no module is left.
TableExact ==
    /\ \A id \in Id : identified[id] # Nil =>
          identified[id] \in exists /\ moduleId[identified[id]] = id
    /\ \A m \in exists : moduleId[m] # NoId => identified[moduleId[m]] = m
    /\ anonymousCount = Cardinality({m \in exists : moduleId[m] = NoId})
    /\ allocations = Cardinality(exists)

\* A module that nobody owns has a thread on its way to destroy it: the thread
\* that brought its count to zero last has not returned, so it cannot leak.
Unreferenced(m) == m \in exists /\ refcount[m] = 0
Doomed(m) == \E t \in VM : at[t] \in {"erase", "free"} /\ mod[t] = m
NoLeak == \A m \in Module : Unreferenced(m) => Doomed(m)

\* "someone acquired a reference to the module between the time that we called
\* this function and the time that we acquired the lock.  If so, that's okay":
\* the thread that erases still finds the module there when it has the lock.
EraserFindsModule ==
    \A t \in VM : at[t] \in {"erase", "free"} => mod[t] \in exists

\* What a thread is about to destroy is there and has no owner, so a module is destroyed
\* once and never under a VM that found it again; and a thread that was alone in its wait
\* for the mutex finds the module there, however often it was bound since.
DestroysUnowned ==
    /\ \A t \in VM : at[t] = "free" => mod[t] \in exists /\ Holders(mod[t]) = {}
    /\ \A t \in VM \ contested : at[t] = "erase" => mod[t] \in exists

\* When every VM is closed, every module is destroyed in the end, unless a new VM is
\* created before or a thread was left to read the count of a destroyed module.
Drains ==
    (\A t \in VM : closing[t]) ~>
        (exists = {} \/ \E t \in VM : ~closing[t] \/ (at[t] = "erase" /\ mod[t] \notin exists))
=============================================================================
