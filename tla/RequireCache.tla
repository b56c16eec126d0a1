----------------------------- MODULE RequireCache -----------------------------
(***************************************************************************)
(* require at run time (Require/src/RequireImpl.cpp): the cache of the     *)
(* results of modules, and the placeholders that stand for modules being   *)
(* loaded when they require one another.  Modules are loaded by the        *)
(* embedder: one after the other within require, as ReplRequirer.cpp does, *)
(* or while the thread that requires them has yielded.                     *)
(***************************************************************************)
EXTENDS Integers, FiniteSets, SequencesExt

CONSTANTS
    Module,     \* the cache keys of modules
    Export,     \* the modules that use export: each returns a new table
    Object,     \* what modules return: a set of integers (bound)
    NoObject,   \* nil
    MaxLoads    \* bound: modules being loaded at once

ASSUME RequireAssumption ==
    /\ Export \subseteq Module /\ Object \subseteq Int /\ NoObject \notin Object
    /\ MaxLoads \in Nat

VARIABLES
    shortCircuit,   \* the flag LuauCyclicRequireShortCircuit
    yields,         \* the embedder's load yields
    modules,        \* _MODULES: the result or the placeholder of each module
    provided,       \* _CYCLIC_PLACEHOLDER_PROVIDED
    locked,         \* the tables with the metatable of placeholders
    loads,          \* the modules being loaded, in the order in which that began
    broken,         \* populatePlaceholder was called for a nil
    given,          \* what require has returned for each module since it was last cleared (history)
    twice,          \* the modules that were being loaded twice at once since then (history)
    failed,         \* those whose loading has failed since then (history)
    passedOn        \* a module returned the placeholder of another (history)

requireVars == <<shortCircuit, yields, modules, provided, locked, loads, broken, given, twice, failed,
                 passedOn>>

RequireInit ==
    /\ shortCircuit \in BOOLEAN /\ yields \in BOOLEAN
    /\ modules = [m \in Module |-> NoObject]
    /\ provided = {} /\ locked = {} /\ loads = <<>> /\ broken = FALSE
    /\ given = [m \in Module |-> {}] /\ twice = {} /\ failed = {} /\ passedOn = FALSE

\* Tables that neither the cache nor a requirer has are collected.
Held == {modules[m] : m \in Module} \cup UNION {given[m] : m \in Module}
Fresh == {o \in Object \ Held : \A p \in Object \ Held : o <= p}

Loading(m) == \E i \in DOMAIN loads : loads[i] = m

-----------------------------------------------------------------------------
Give(m, o) == given' = [given EXCEPT ![m] = @ \cup {o}]

\* What the cache has is given to whoever requires the module.
GiveCached(m) ==
    /\ modules[m] # NoObject
    /\ Give(m, modules[m])
    /\ UNCHANGED <<modules, locked, loads, broken, twice, failed, passedOn>>

\* Faulty variant: nobody remembers that the placeholder was given.
RequireCachedUnnoted(m) == GiveCached(m) /\ UNCHANGED provided

\* isCached: the result, or a placeholder, which is noted.
RequireCached(m) ==
    /\ GiveCached(m)
    /\ provided' = IF shortCircuit /\ modules[m] \in locked THEN provided \cup {m} ELSE provided

\* lua_requireinternal: the module is loaded.  If it uses export, the embedder first puts
\* a locked placeholder in the cache (createPlaceholder).
BeginLoad(m) ==
    /\ modules[m] = NoObject /\ Len(loads) < MaxLoads
    /\ loads' = Append(loads, m)
    /\ IF shortCircuit /\ m \in Export
       THEN \E o \in Fresh : modules' = [modules EXCEPT ![m] = o] /\ locked' = locked \cup {o}
       ELSE UNCHANGED <<modules, locked>>
    /\ twice' = IF Loading(m) THEN twice \cup {m} ELSE twice
    /\ failed' = failed \ {m}
    /\ UNCHANGED <<provided, broken, given, passedOn>>

\* The load that may end: within require the last one, otherwise any.
MayEnd(i) == i \in DOMAIN loads /\ (yields \/ i = Len(loads))

\* A module returns a table of its own, or without export what another one returned.
Results(m) == Fresh \cup IF m \in Export THEN {} ELSE {modules[n] : n \in Module} \ {NoObject}

\* The result o goes into the cache.
Record(m, o) ==
    /\ modules' = [modules EXCEPT ![m] = o]
    /\ Give(m, o)
    /\ locked' = locked \cap Held'
    /\ passedOn' = (passedOn \/ o \in locked)
    /\ UNCHANGED broken

\* Faulty variant: the fields are copied, and the metatable stays.
PopulateLocked(m, o) ==
    /\ modules[m] # NoObject
    /\ Give(m, modules[m])
    /\ UNCHANGED <<modules, locked, broken, passedOn>>

\* populatePlaceholder: the table in the cache takes the fields and the metatable of the result o.
Populate(m, o) ==
    /\ modules[m] # NoObject
    /\ locked' = IF o \in locked THEN locked ELSE locked \ {modules[m]}
    /\ Give(m, modules[m])
    /\ UNCHANGED <<modules, broken, passedOn>>

\* There is no table in the cache: lua_setreadonly and lua_rawset are called for a nil.
PopulateNil(m) ==
    /\ modules[m] = NoObject
    /\ broken' = TRUE
    /\ UNCHANGED <<modules, locked, given, passedOn>>

\* lua_requirecont with the result of the module
EndLoad(i) ==
    /\ MayEnd(i)
    /\ LET m == loads[i] IN
       /\ loads' = RemoveAt(loads, i)
       /\ provided' = IF shortCircuit THEN provided \ {m} ELSE provided
       /\ \E o \in Results(m) :
            IF shortCircuit /\ m \in provided THEN Populate(m, o) \/ PopulateNil(m) ELSE Record(m, o)
    /\ UNCHANGED <<twice, failed>>

\* The module throws, or has not one result.  What is in the cache stays there.
FailLoad(i) ==
    /\ MayEnd(i)
    /\ loads' = RemoveAt(loads, i)
    /\ failed' = failed \cup {loads[i]}
    /\ UNCHANGED <<modules, provided, locked, broken, given, twice, passedOn>>

Forget(M) ==
    /\ modules' = [m \in Module |-> IF m \in M THEN NoObject ELSE modules[m]]
    /\ given' = [m \in Module |-> IF m \in M THEN {} ELSE given[m]]
    /\ twice' = twice \ M /\ failed' = failed \ M
    /\ locked' = locked \cap Held'
    /\ UNCHANGED <<provided, loads, broken, passedOn>>

\* luarequire_clearcacheentry and luarequire_clearcache, for modules that are not being loaded
ClearCacheEntry(m) == ~Loading(m) /\ Forget({m})
ClearCache == loads = <<>> /\ Forget(Module)

RequireStep ==
    \/ \E m \in Module : RequireCached(m) \/ BeginLoad(m) \/ ClearCacheEntry(m)
    \/ \E i \in 1 .. MaxLoads : EndLoad(i) \/ FailLoad(i)
    \/ ClearCache

RequireNext == ~broken /\ RequireStep /\ UNCHANGED <<shortCircuit, yields>>

RequireSpec == RequireInit /\ [][RequireNext]_requireVars

-----------------------------------------------------------------------------
(* What must be true                                                        *)

\* Unless a module passed on a placeholder: whoever requires a module gets the same object,
\* those that required it in a cycle, while it was loading, "and future cache hits"
\* (lua_requirecont) included, if it was not loaded twice at once; which never happens to a
\* module with a placeholder, and there is always one to populate.
OneObject ==
    ~passedOn =>
        /\ \A m \in Module \ twice : given[m] \subseteq {modules[m]}
        /\ shortCircuit => twice \cap Export = {}
        /\ ~broken

\* Unless a module passed on a placeholder: a table that is locked is the placeholder of a
\* module being loaded, or whose loading failed.  When a module was loaded, nobody is left
\* with a table that cannot be used.
LockedWhileLoading ==
    ~passedOn =>
        \A m \in Module : \A o \in (given[m] \cup {modules[m]}) \cap locked :
            m \in failed \/ Loading(m)
=============================================================================
