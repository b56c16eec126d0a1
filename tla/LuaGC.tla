------------------------------- MODULE LuaGC -------------------------------
(***************************************************************************)
(* The incremental tri-colour collector of the Luau VM (VM/src/lgc.cpp)    *)
(* interleaved with the program it collects for.                           *)
(*                                                                         *)
(* One thread of control executes: it is either the running Luau thread    *)
(* `cur' (an action of the Program section) or a step of the collector     *)
(* (an action of the Collector section), because GC steps "can't happen    *)
(* concurrently with other access to VM state" (lgc.cpp:34).  The atomic   *)
(* phase and a full collection run to completion before the program        *)
(* continues; they are cut in several steps here only so that each step    *)
(* traverses one object, and `pc' and `full' keep the program blocked      *)
(* meanwhile.                                                              *)
(*                                                                         *)
(* An object is an address: it is "free", or has a colour.  Every          *)
(* reference an object holds is a field of `ref'; what distinguishes the   *)
(* kinds of objects is which fields they use and how they are marked.      *)
(***************************************************************************)
EXTENDS Naturals, FiniteSets

CONSTANTS
    Table,      \* tables; one hash node (key, value) and a metatable each
    Thread,     \* coroutines, Main among them; a stack of StackSize slots each
    UpVal,      \* upvalue cells, open (on a stack slot) or closed
    Func,       \* closures; stand also for protos, classes and class objects:
                \* traversed through the gray list, written with barrierf
    Udata,      \* userdata with an optional metatable; without one they stand
                \* also for vectors and buffers
    Str,        \* interned strings
    Main,       \* the main thread, the only object outside the GCO pages
    Registry,   \* the registry table and the table of globals
    Fixed,      \* strings pinned with FIXEDBIT
    Page,       \* GCO pages
    PageOf,     \* the page that holds the block of an object
    StackSize,  \* slots of a stack
    KeyObj,     \* objects the program uses as table keys
    MetaTable,  \* tables the program uses as metatables
    Modes,      \* the contents of __mode the program uses
    Nil

Obj    == Table \cup Thread \cup UpVal \cup Func \cup Udata \cup Str
Value  == Obj \ UpVal             \* what a TValue can hold
Listed == Table \cup Thread \cup Func  \* the kinds with a gclist field

\* The fields of an object: stack slots of a thread, and named fields.
Slot == 1 .. StackSize
KEY  == 1      \* key of a table's node
VAL  == 2      \* value of a table's node; value of a closed upvalue
MT   == 3      \* metatable of a table or userdata
CAP  == 1      \* what a closure captured: an upvalue cell or a value
Fld  == Slot \cup {KEY, VAL, MT}

White == {"w0", "w1"}

ASSUME KindsAssumption ==
    /\ Main \in Thread
    /\ Registry \in Table
    /\ Fixed \subseteq Str
    /\ MetaTable \subseteq Table
    /\ KeyObj \subseteq Value
    /\ Modes \subseteq SUBSET {"k", "v"}
    /\ {} \in Modes
    /\ StackSize \in Nat \ {0}
    /\ Nil \notin Obj
    /\ PageOf \in [Obj \ {Main} -> Page]

ASSUME DisjointAssumption ==
    /\ Table \cap (Thread \cup UpVal \cup Func \cup Udata \cup Str) = {}
    /\ Thread \cap (UpVal \cup Func \cup Udata \cup Str) = {}
    /\ UpVal \cap (Func \cup Udata \cup Str) = {}
    /\ Func \cap (Udata \cup Str) = {}
    /\ Udata \cap Str = {}

VARIABLES
    \* the heap and the execution state of the program
    ref,        \* the references each object holds
    top,        \* L->top of each thread: slots 1..top are in use
    owner,      \* the thread on whose stack an upvalue is open, or Nil
    level,      \* the slot an open upvalue designates
    mode,       \* __mode of each table used as a metatable
    gmt,        \* metatable of a basic type, written without a barrier
    cur,        \* the running thread
    from,       \* the thread that resumed a thread; Nil when not resumed
    \* the collector
    color, currentwhite, gcstate,
    gray, grayagain, weak,   \* the three lists threaded through gclist
    markedopen, \* upvalues whose markedopen bit is set
    tosweep,    \* pages the sweep has not visited yet
    pc,         \* progress inside the atomic phase
    full        \* progress of luaC_fullgc

execvars == <<top, mode, gmt, cur, from>>
upvars   == <<owner, level>>
lists    == <<grayagain, weak>>
phase    == <<currentwhite, gcstate, markedopen, tosweep, pc, full>>
vars     == <<ref, execvars, upvars, color, gray, lists, phase>>

-----------------------------------------------------------------------------
(* Colours *)

Other(w) == IF w = "w0" THEN "w1" ELSE "w0"

IsWhite(o) == color[o] \in White

\* isdead: white of the previous cycle and not fixed.
IsDead(o) == color[o] = Other(currentwhite) /\ o \notin Fixed

Live(o) == color[o] # "free" /\ ~IsDead(o)

KeepInvariant == gcstate \in {"propagate", "propagateagain", "atomic"}

IsOpen(u) == owner[u] # Nil

UvValue(u) == IF IsOpen(u) THEN ref[owner[u]][level[u]] ELSE ref[u][VAL]

\* isactive is set from resume to yield; the main thread always counts as active.
IsActive(th) == th = Main \/ from[th] # Nil

-----------------------------------------------------------------------------
(* Marking *)

\* What marking an object marks in the same call: the metatable of a userdata
\* and the value of an upvalue.
Immediate(S) == {ref[d][MT] : d \in S \cap Udata} \cup {UvValue(u) : u \in S \cap UpVal}

Whites(S) == {o \in S \ {Nil} : IsWhite(o)}

\* markobject on every element of S: the white objects it turns non-white.
Marked(S) ==
    LET one == Whites(S)
        two == one \cup Whites(Immediate(one))
    IN  two \cup Whites(Immediate(two))

\* Strings, userdata and closed upvalues are never gray; open upvalues never black.
ColorMarked(o) ==
    IF o \in Str \cup Udata \/ (o \in UpVal /\ ~IsOpen(o)) THEN "black" ELSE "gray"

ColorsAfterMarking(S) ==
    LET M == Marked(S) IN [o \in Obj |-> IF o \in M THEN ColorMarked(o) ELSE color[o]]

GrayAfterMarking(S) == gray \cup (Marked(S) \cap Listed)

WeakMode(t) == IF ref[t][MT] = Nil THEN {} ELSE mode[ref[t][MT]]

OpenOf(th) == {u \in UpVal : owner[u] = th}

\* The references a traversal of o marks.
Traced(o) ==
    IF o \in Table THEN
        {ref[o][MT]}
            \cup (IF ref[o][VAL] = Nil \/ "k" \in WeakMode(o) THEN {} ELSE {ref[o][KEY]})
            \cup (IF "v" \in WeakMode(o) THEN {} ELSE {ref[o][VAL]})
    ELSE IF o \in Thread THEN
        {ref[o][i] : i \in 1 .. top[o]} \cup OpenOf(o)
    ELSE {ref[o][CAP]}

\* The references a traversal of o erases: the key of an empty node (not looked at
\* when keys and values are both weak), the unused part of a stack.
ClearedBy(o, f) ==
    \/ /\ o \in Table
       /\ f = KEY
       /\ ref[o][VAL] = Nil
       /\ WeakMode(o) # {"k", "v"}
    \/ /\ o \in Thread
       /\ f > top[o]
       /\ ~IsActive(o) \/ gcstate = "atomic"

\* propagatemark and the change of state of gcstep when the gray list runs out.  (The second
\* marking never starts with an empty list: the main thread is always traversed again.)
Propagate(o) ==
    LET marked == GrayAfterMarking(Traced(o)) \ {o}
        again  == IF o \in Thread /\ IsActive(o) THEN grayagain \cup {o} ELSE grayagain
        isweak == o \in Table /\ WeakMode(o) # {}
        stays  == isweak \/ (o \in Thread /\ IsActive(o))
    IN
    /\ gcstate \in {"propagate", "propagateagain"} \/ pc # "none"
    /\ o \in gray
    /\ color' = [ColorsAfterMarking(Traced(o)) EXCEPT ![o] = IF stays THEN "gray" ELSE "black"]
    /\ ref' = [ref EXCEPT ![o] = [f \in Fld |-> IF ClearedBy(o, f) THEN Nil ELSE ref[o][f]]]
    /\ weak' = IF isweak THEN weak \cup {o} ELSE weak
    /\ markedopen' = IF o \in Thread THEN markedopen \cup OpenOf(o) ELSE markedopen
    /\ IF marked = {} /\ gcstate = "propagate"
       THEN gcstate' = "propagateagain" /\ gray' = again /\ grayagain' = {}
       ELSE /\ gray' = marked
            /\ grayagain' = again
            /\ gcstate' = IF marked = {} THEN "atomic" ELSE gcstate
    /\ UNCHANGED <<execvars, upvars, currentwhite, tosweep, pc, full>>

-----------------------------------------------------------------------------
(* The collection cycle *)

Roots == {Main, Registry, gmt}

\* markroot, given the lists it starts from.
MarkRoots ==
    /\ color' = ColorsAfterMarking(Roots)
    /\ gray' = Marked(Roots) \cap Listed
    /\ grayagain' = {}
    /\ weak' = {}
    /\ gcstate' = "propagate"

StartCycle ==
    /\ gcstate = "pause"
    /\ full = "no"
    /\ MarkRoots
    /\ UNCHANGED <<ref, execvars, upvars, currentwhite, markedopen, tosweep, pc, full>>

\* Faulty variant: remarkupvals left out.
NoGrayOpen == {}

\* The upvalues remarkupvals looks at.
GrayOpen == {u \in UpVal : IsOpen(u) /\ color[u] = "gray"}

\* The atomic phase: remarkupvals ...
AtomicUpvals ==
    LET S == {UvValue(u) : u \in GrayOpen} IN
    /\ gcstate = "atomic"
    /\ pc = "none"
    /\ color' = ColorsAfterMarking(S)
    /\ gray' = GrayAfterMarking(S)
    /\ pc' = "upvals"
    /\ UNCHANGED <<ref, execvars, upvars, lists, currentwhite, gcstate, markedopen, tosweep, full>>

\* Faulty variant: the metatables of basic types are not marked again.
LateRootsOnlyThread == {cur}

\* The roots that are written without a barrier.
LateRoots == {cur, gmt}

\* ... the weak tables, the running thread and the roots written without barriers ...
AtomicWeak ==
    /\ pc = "upvals"
    /\ gray = {}
    /\ color' = ColorsAfterMarking(LateRoots)
    /\ gray' = weak \cup (Marked(LateRoots) \cap Listed)
    /\ weak' = {}
    /\ pc' = "weak"
    /\ UNCHANGED <<ref, execvars, upvars, grayagain, currentwhite, gcstate, markedopen, tosweep, full>>

\* ... the objects that barriers and active threads left for the end ...
AtomicAgain ==
    /\ pc = "weak"
    /\ gray = {}
    /\ gray' = grayagain
    /\ grayagain' = {}
    /\ pc' = "again"
    /\ UNCHANGED <<ref, execvars, upvars, color, weak, currentwhite, gcstate, markedopen, tosweep, full>>

\* Faulty variant: strings are cleared like other objects.
IsClearedAny(v) == v # Nil /\ IsWhite(v)

\* iscleared: a white object that is not a string.
IsCleared(v) == v # Nil /\ v \notin Str /\ IsWhite(v)

NonEmpty(t) == ref[t][VAL] # Nil

ClearedEntries ==
    {t \in weak : NonEmpty(t) /\ (IsCleared(ref[t][KEY]) \/ IsCleared(ref[t][VAL]))}

\* isobjcleared marks the strings it looks at (the value only if the key stays).
WeakStrings ==
    Str \cap ({ref[t][KEY] : t \in {x \in weak : NonEmpty(x)}}
              \cup {ref[t][VAL] : t \in {x \in weak : NonEmpty(x) /\ ~IsCleared(ref[x][KEY])}})

\* Faulty variant: the markedopen bit is ignored.
OpenUpvals == {u \in UpVal : IsOpen(u)}

\* Open upvalues no traversed thread has claimed; the white ones are dead.
Orphans == {u \in UpVal : IsOpen(u) /\ u \notin markedopen}

UsedPages == {PageOf[o] : o \in {x \in Obj \ {Main} : color[x] # "free"}}

\* ... and last cleartable, clearupvals and the flip of the current white.
AtomicFinish ==
    LET closed == {u \in Orphans : ~IsWhite(u)}
        S == WeakStrings \cup {UvValue(u) : u \in closed}
    IN
    /\ pc = "again"
    /\ gray = {}
    /\ ref' = [o \in Obj |-> [f \in Fld |->
                  IF o \in ClearedEntries /\ f \in {KEY, VAL} THEN Nil
                  ELSE IF o \in closed /\ f = VAL THEN UvValue(o)
                  ELSE ref[o][f]]]
    /\ owner' = [u \in UpVal |-> IF u \in Orphans THEN Nil ELSE owner[u]]
    /\ level' = [u \in UpVal |-> IF u \in Orphans THEN 1 ELSE level[u]]
    /\ color' = [o \in Obj |-> IF o \in closed THEN "black" ELSE ColorsAfterMarking(S)[o]]
    /\ gray' = GrayAfterMarking(S)
    /\ weak' = {}
    /\ markedopen' = {u \in markedopen : ~IsOpen(u)}
    /\ currentwhite' = Other(currentwhite)
    /\ tosweep' = UsedPages
    /\ gcstate' = "sweep"
    /\ pc' = "none"
    /\ UNCHANGED <<execvars, grayagain, full>>

InPage(p) == {o \in Obj \ {Main} : PageOf[o] = p /\ color[o] # "free"}

\* Faulty variant: objects that are already black are left so.
SweptColorKeepBlack(o) ==
    IF IsDead(o) THEN "free" ELSE IF color[o] = "black" THEN "black" ELSE currentwhite

\* What the sweep makes of an allocated object.
SweptColor(o) == IF IsDead(o) THEN "free" ELSE currentwhite

\* sweepgcopage: free what is dead, make the rest white; after the last page the
\* main thread is made white and the cycle ends.
Sweep(p) ==
    LET freed == {o \in InPage(p) : IsDead(o)}
        last  == tosweep = {p}
    IN
    /\ gcstate = "sweep"
    /\ p \in tosweep
    /\ color' = [o \in Obj |->
                    IF o \in InPage(p) THEN SweptColor(o)
                    ELSE IF last /\ o = Main THEN currentwhite
                    ELSE color[o]]
    /\ ref' = [o \in Obj |-> IF o \in freed THEN [f \in Fld |-> Nil] ELSE ref[o]]
    /\ top' = [th \in Thread |-> IF th \in freed THEN 0 ELSE top[th]]
    /\ mode' = [t \in Table |-> IF t \in freed THEN {} ELSE mode[t]]
    /\ markedopen' = markedopen \ freed
    /\ tosweep' = tosweep \ {p}
    /\ gcstate' = IF last THEN "pause" ELSE "sweep"
    /\ full' = IF last /\ full = "cycle" THEN "no" ELSE full
    /\ UNCHANGED <<upvars, gmt, cur, from, gray, lists, currentwhite, pc>>

\* luaC_fullgc after its first part (FullGC below) has swept everything to white.
FullMark ==
    /\ full = "finish"
    /\ gcstate = "pause"
    /\ markedopen' = {u \in markedopen : ~IsOpen(u)}
    /\ MarkRoots
    /\ full' = "cycle"
    /\ UNCHANGED <<ref, execvars, upvars, currentwhite, tosweep, pc>>

Collector ==
    \/ StartCycle
    \/ \E o \in Obj : Propagate(o)
    \/ AtomicUpvals
    \/ AtomicWeak
    \/ AtomicAgain
    \/ AtomicFinish
    \/ \E p \in Page : Sweep(p)
    \/ FullMark

-----------------------------------------------------------------------------
(* Barriers, as the effect of storing v in o on the colours and lists *)

\* luaC_barrier and luaC_objbarrier.
Barrier(o, v) ==
    IF v # Nil /\ color[o] = "black" /\ IsWhite(v)
    THEN IF KeepInvariant
         THEN color' = ColorsAfterMarking({v}) /\ gray' = GrayAfterMarking({v})
         ELSE color' = [color EXCEPT ![o] = currentwhite] /\ UNCHANGED gray
    ELSE UNCHANGED <<color, gray>>

\* Faulty variant: the object is queued without leaving the black set.
BarrierBackBlack(o) == grayagain' = grayagain \cup {o} /\ UNCHANGED <<color, gray>>

\* Faulty variant: the object goes back to the list that is being traversed.
BarrierBackGray(o) ==
    /\ color' = [color EXCEPT ![o] = "gray"]
    /\ gray' = gray \cup {o}
    /\ UNCHANGED grayagain

\* luaC_barrierback: the black object is traversed again at the end of the cycle.
BarrierBack(o) ==
    /\ color' = [color EXCEPT ![o] = "gray"]
    /\ grayagain' = grayagain \cup {o}
    /\ UNCHANGED gray

\* Faulty variant: the barrier is left out.
NoTableBarrier(t, S) == UNCHANGED <<color, gray, grayagain>>

\* luaC_barriert for the values S stored in a table by one assignment.
TableBarrier(t, S) ==
    IF color[t] = "black" /\ Whites(S) # {}
    THEN IF gcstate = "propagateagain"
         THEN /\ color' = ColorsAfterMarking(S)
              /\ gray' = GrayAfterMarking(S)
              /\ UNCHANGED grayagain
         ELSE BarrierBack(t)
    ELSE UNCHANGED <<color, gray, grayagain>>

\* Faulty variant: the barrier is left out.
NoThreadBarrier(th) == UNCHANGED <<color, gray, grayagain>>

\* luaC_threadbarrier.
ThreadBarrier(th) ==
    IF color[th] = "black" THEN BarrierBack(th) ELSE UNCHANGED <<color, gray, grayagain>>

-----------------------------------------------------------------------------
(* The program *)

\* The program runs between GC steps: not inside the atomic phase or a full collection.
Running == pc = "none" /\ full = "no"

Regs == {ref[cur][i] : i \in 1 .. top[cur]} \ {Nil}

\* What an instruction or an API call can read from an object in one step.
Contents(o) ==
    IF o \in Table THEN
        {ref[o][MT]} \cup (IF NonEmpty(o) THEN {ref[o][KEY], ref[o][VAL]} ELSE {})
    ELSE IF o \in Udata THEN {ref[o][MT]}
    ELSE IF o \in Func THEN
        {IF ref[o][CAP] \in UpVal THEN UvValue(ref[o][CAP]) ELSE ref[o][CAP]}
    ELSE {}

Readable == (UNION {Contents(o) : o \in Regs \cup {Registry}}) \cup Regs \cup {Registry, gmt, Nil}

Store(o, f, v) == ref' = [ref EXCEPT ![o][f] = v]

SetReg(i, v) == i \in 1 .. top[cur] /\ Store(cur, i, v)

\* Any instruction that loads a register (GETTABLE, GETUPVAL, MOVE, LOADNIL ...):
\* stack writes of an active thread have no barrier.
Load(i, v) ==
    /\ Running
    /\ v \in Readable
    /\ SetReg(i, v)
    /\ UNCHANGED <<execvars, upvars, color, gray, lists, phase>>

\* Entering a Lua function raises top to ci->top without clearing the slots between.
Call ==
    /\ Running
    /\ top[cur] < StackSize
    /\ top' = [top EXCEPT ![cur] = @ + 1]
    /\ UNCHANGED <<ref, mode, gmt, cur, from, upvars, color, gray, lists, phase>>

\* Returning lowers top; the values above it stay in the stack.
Return ==
    /\ Running
    /\ top[cur] > 1
    /\ \A u \in OpenOf(cur) : level[u] < top[cur]
    /\ top' = [top EXCEPT ![cur] = @ - 1]
    /\ UNCHANGED <<ref, mode, gmt, cur, from, upvars, color, gray, lists, phase>>

\* Tables, userdata, vectors, buffers and threads are allocated white.
NewObject(o, i) ==
    /\ Running
    /\ o \in Table \cup Udata \cup Thread
    /\ color[o] = "free"
    /\ color' = [color EXCEPT ![o] = currentwhite]
    /\ SetReg(i, o)
    /\ UNCHANGED <<execvars, upvars, gray, lists, phase>>

\* luaS_newlstr finds the string in the table, where it may be dead already: it is
\* then made alive again; otherwise the string is allocated.
NewString(s, i) ==
    /\ Running
    /\ s \in Str
    /\ color' = IF Live(s) THEN color ELSE [color EXCEPT ![s] = currentwhite]
    /\ SetReg(i, s)
    /\ UNCHANGED <<execvars, upvars, gray, lists, phase>>

\* NEWCLOSURE that captures a value (possibly the closure itself) or shares the upvalue
\* of another closure.
NewClosure(f, i, v) ==
    /\ Running
    /\ color[f] = "free"
    /\ i \in 1 .. top[cur]
    /\ v \in Regs \cup {f} \cup {ref[x][CAP] : x \in Regs \cap Func}
    /\ color' = [color EXCEPT ![f] = currentwhite]
    /\ ref' = [ref EXCEPT ![f][CAP] = v, ![cur][i] = f]
    /\ UNCHANGED <<execvars, upvars, gray, lists, phase>>

\* NEWCLOSURE that captures register j by reference: luaF_findupval finds the open
\* upvalue of that slot or creates it.
NewClosureOver(f, i, j, u) ==
    /\ Running
    /\ color[f] = "free"
    /\ {i, j} \subseteq 1 .. top[cur]
    /\ ref' = [ref EXCEPT ![f][CAP] = u, ![cur][i] = f]
    /\ \/ /\ owner[u] = cur
          /\ level[u] = j
          /\ color' = [color EXCEPT ![f] = currentwhite]
          /\ UNCHANGED <<upvars, phase>>
       \/ /\ \A x \in OpenOf(cur) : level[x] # j
          /\ color[u] = "free"
          /\ color' = [color EXCEPT ![f] = currentwhite, ![u] = currentwhite]
          /\ owner' = [owner EXCEPT ![u] = cur]
          /\ level' = [level EXCEPT ![u] = j]
          /\ markedopen' = markedopen \ {u}
          /\ UNCHANGED <<currentwhite, gcstate, tosweep, pc, full>>
    /\ UNCHANGED <<execvars, gray, lists>>

\* lua_setupvalue and lua_setfenv on a closure that holds the value itself, and the other
\* stores that are followed by luaC_barrier on the holder.
SetCaptured(f, v) ==
    /\ Running
    /\ f \in Regs \cap Func
    /\ ref[f][CAP] \notin UpVal
    /\ v \in Regs
    /\ Store(f, CAP, v)
    /\ Barrier(f, v)
    /\ UNCHANGED <<execvars, upvars, lists, phase>>

\* SETUPVAL: an open upvalue is the stack slot of its thread, whoever runs.
SetUpval(f, v) ==
    LET u == ref[f][CAP] IN
    /\ Running
    /\ f \in Regs \cap Func
    /\ u \in UpVal
    /\ v \in Regs \cup {Nil}
    /\ IF IsOpen(u) THEN Store(owner[u], level[u], v) ELSE Store(u, VAL, v)
    /\ Barrier(u, v)
    /\ UNCHANGED <<execvars, upvars, lists, phase>>

\* lua_setupvalue on a Lua closure that shares an upvalue applies the barrier to the
\* closure, not to the upvalue.  Not an action of Program: MCSetUpvalue shows what it breaks.
ApiSetUpvalue(f, v) ==
    LET u == ref[f][CAP] IN
    /\ Running
    /\ f \in Regs \cap Func
    /\ u \in UpVal
    /\ v \in Regs \cup {Nil}
    /\ IF IsOpen(u) THEN Store(owner[u], level[u], v) ELSE Store(u, VAL, v)
    /\ Barrier(f, v)
    /\ UNCHANGED <<execvars, upvars, lists, phase>>

\* The effect of luaF_close on the upvalues S of a thread, stack apart.
Closing(S) ==
    LET S1 == {u \in S : color[u] = "gray"}
        values == {UvValue(u) : u \in S1}
    IN
    /\ owner' = [u \in UpVal |-> IF u \in S THEN Nil ELSE owner[u]]
    /\ level' = [u \in UpVal |-> IF u \in S THEN 1 ELSE level[u]]
    /\ IF KeepInvariant
       THEN /\ color' = [o \in Obj |-> IF o \in S1 THEN "black" ELSE ColorsAfterMarking(values)[o]]
            /\ gray' = GrayAfterMarking(values)
       ELSE /\ color' = [o \in Obj |-> IF o \in S1 THEN currentwhite ELSE color[o]]
            /\ UNCHANGED gray

\* CLOSEUPVALS, and the end of a coroutine.
CloseUpvals(j) ==
    LET S == {u \in OpenOf(cur) : level[u] >= j} IN
    /\ Running
    /\ S # {}
    /\ Closing(S)
    /\ ref' = [o \in Obj |-> IF o \in S THEN [ref[o] EXCEPT ![VAL] = UvValue(o)] ELSE ref[o]]
    /\ UNCHANGED <<execvars, lists, phase>>

\* An assignment t[k] = v (k = Nil: a number); the node must hold k or be empty.
SetTable(t, k, v) ==
    LET isnew == ref[t][KEY] # k IN
    /\ Running
    /\ t \in (Regs \cup {Registry}) \cap Table
    /\ k \in (Regs \cap KeyObj) \cup {Nil}
    /\ v \in Regs \cup {Nil}
    /\ isnew => ~NonEmpty(t)
    /\ ref' = [ref EXCEPT ![t][KEY] = k, ![t][VAL] = v]
    /\ TableBarrier(t, IF isnew THEN {k, v} ELSE {v})
    /\ UNCHANGED <<execvars, upvars, weak, phase>>

\* lua_setmetatable on a table or a userdata.
SetMetatable(o, mt) ==
    /\ Running
    /\ o \in (Regs \cup {Registry}) \cap (Table \cup Udata)
    /\ mt \in (Regs \cap MetaTable) \cup {Nil}
    /\ Store(o, MT, mt)
    /\ Barrier(o, mt)
    /\ UNCHANGED <<execvars, upvars, lists, phase>>

\* lua_setmetatable on a value of a basic type: g->mt has no barrier.
SetBasicMetatable(mt) ==
    /\ Running
    /\ mt \in (Regs \cap MetaTable) \cup {Nil}
    /\ gmt' = mt
    /\ UNCHANGED <<ref, top, mode, cur, from, upvars, color, gray, lists, phase>>

\* mt.__mode = m, an assignment of a string that may be white.
SetMode(mt, m) ==
    /\ Running
    /\ mt \in Regs \cap MetaTable
    /\ m \in Modes
    /\ mode' = [mode EXCEPT ![mt] = m]
    /\ \/ color[mt] = "black" /\ gcstate # "propagateagain" /\ BarrierBack(mt)
       \/ UNCHANGED <<color, gray, grayagain>>
    /\ UNCHANGED <<ref, top, gmt, cur, from, upvars, weak, phase>>

\* Faulty variant: a thread may be resumed while it is resumed.
InactiveAny(th) == th \in Regs \cap Thread

Inactive(th) == th \in Regs \cap Thread /\ ~IsActive(th)

\* A slot of th that no closure can overwrite holds o: an argument of a C function, as
\* coroutine.resume holds the coroutine for as long as it runs.
Keeps(th, o) ==
    \E i \in 1 .. top[th] : ref[th][i] = o /\ \A u \in OpenOf(th) : level[u] # i

Resume(co) ==
    /\ Running
    /\ Inactive(co)
    /\ Keeps(cur, co)
    /\ ThreadBarrier(co)
    /\ from' = [from EXCEPT ![co] = cur]
    /\ cur' = co
    /\ UNCHANGED <<ref, top, mode, gmt, upvars, weak, phase>>

\* A yield, a normal end or an error: the resumer continues.
Yield ==
    /\ Running
    /\ cur # Main
    /\ cur' = from[cur]
    /\ from' = [from EXCEPT ![cur] = Nil]
    /\ UNCHANGED <<ref, top, mode, gmt, upvars, color, gray, lists, phase>>

\* lua_xmove of one value between the running thread and an inactive one.
XMove(a, b) ==
    /\ Running
    /\ \/ a = cur /\ Inactive(b)
       \/ b = cur /\ Inactive(a)
    /\ top[a] > IF a = cur THEN 1 ELSE 0
    /\ top[b] < StackSize
    /\ \A u \in OpenOf(a) : level[u] < top[a]
    /\ ThreadBarrier(b)
    /\ Store(b, top[b] + 1, ref[a][top[a]])
    /\ top' = [top EXCEPT ![a] = @ - 1, ![b] = @ + 1]
    /\ UNCHANGED <<mode, gmt, cur, from, upvars, weak, phase>>

\* lua_resetthread: closes the upvalues of an inactive thread and clears its stack.
ResetThread(th) ==
    LET S == OpenOf(th) IN
    /\ Running
    /\ Inactive(th)
    /\ Closing(S)
    /\ ref' = [o \in Obj |->
                  IF o = th THEN [f \in Fld |-> Nil]
                  ELSE IF o \in S THEN [ref[o] EXCEPT ![VAL] = UvValue(o)] ELSE ref[o]]
    /\ top' = [top EXCEPT ![th] = 0]
    /\ UNCHANGED <<mode, gmt, cur, from, lists, phase>>

\* luaC_fullgc starts: an unfinished marking is abandoned and everything swept.
FullGC ==
    /\ Running
    /\ full' = "finish"
    /\ IF KeepInvariant
       THEN gray' = {} /\ grayagain' = {} /\ weak' = {} /\ tosweep' = UsedPages /\ gcstate' = "sweep"
       ELSE UNCHANGED <<gray, lists, tosweep, gcstate>>
    /\ UNCHANGED <<ref, execvars, upvars, color, currentwhite, markedopen, pc>>

Program ==
    \/ \E i \in Slot :
          \/ \E v \in Value \cup {Nil} : Load(i, v)
          \/ \E o \in Obj : NewObject(o, i) \/ NewString(o, i)
          \/ \E f \in Func, v \in Obj : NewClosure(f, i, v)
          \/ \E f \in Func, j \in Slot, u \in UpVal : NewClosureOver(f, i, j, u)
          \/ CloseUpvals(i)
    \/ Call
    \/ Return
    \/ \E f \in Func, v \in Value \cup {Nil} : SetCaptured(f, v) \/ SetUpval(f, v)
    \/ \E t \in Table, k, v \in Value \cup {Nil} : SetTable(t, k, v)
    \/ \E o \in Table \cup Udata, mt \in MetaTable \cup {Nil} : SetMetatable(o, mt)
    \/ \E mt \in MetaTable \cup {Nil} : SetBasicMetatable(mt)
    \/ \E mt \in MetaTable, m \in Modes : SetMode(mt, m)
    \/ \E co \in Thread : Resume(co) \/ ResetThread(co)
    \/ Yield
    \/ \E a, b \in Thread : XMove(a, b)
    \/ FullGC

Init ==
    /\ ref = [o \in Obj |-> [f \in Fld |-> Nil]]
    /\ top = [th \in Thread |-> IF th = Main THEN 1 ELSE 0]
    /\ owner = [u \in UpVal |-> Nil]
    /\ level = [u \in UpVal |-> 1]
    /\ mode = [t \in Table |-> {}]
    /\ gmt = Nil
    /\ cur = Main
    /\ from = [th \in Thread |-> Nil]
    /\ color = [o \in Obj |-> IF o \in {Main, Registry} \cup Fixed THEN "w0" ELSE "free"]
    /\ currentwhite = "w0"
    /\ gcstate = "pause"
    /\ gray = {}
    /\ grayagain = {}
    /\ weak = {}
    /\ markedopen = {}
    /\ tosweep = {}
    /\ pc = "none"
    /\ full = "no"

Next == Collector \/ Program

\* The pacer runs GC steps for as long as the program allocates.
Spec == Init /\ [][Next]_vars /\ WF_vars(Collector)

-----------------------------------------------------------------------------
(* Properties *)

Colors == {"free", "w0", "w1", "gray", "black"}

\* Every variable has its type; the kinds of objects use their own fields.
TypeOK ==
    /\ ref \in [Obj -> [Fld -> Obj \cup {Nil}]]
    /\ top \in [Thread -> 0 .. StackSize]
    /\ owner \in [UpVal -> Thread \cup {Nil}]
    /\ level \in [UpVal -> Slot]
    /\ mode \in [Table -> SUBSET {"k", "v"}]
    /\ gmt \in MetaTable \cup {Nil}
    /\ cur \in Thread
    /\ from \in [Thread -> Thread \cup {Nil}]
    /\ color \in [Obj -> Colors]
    /\ currentwhite \in White
    /\ gcstate \in {"pause", "propagate", "propagateagain", "atomic", "sweep"}
    /\ gray \subseteq Listed
    /\ grayagain \subseteq Listed
    /\ weak \subseteq Table
    /\ markedopen \subseteq UpVal
    /\ tosweep \subseteq Page
    /\ pc \in {"none", "upvals", "weak", "again"}
    /\ full \in {"no", "finish", "cycle"}

\* The resumed threads form one chain from the main thread to the running thread: every
\* resumed thread has a resumer that is itself active and resumed nothing else, the running
\* thread resumed nothing, and no threads resumed one another in a circle.  Yield and
\* lua_resume rely on it to know where to continue.
ResumeChain ==
    /\ IsActive(cur)
    /\ \A th \in Thread : from[th] # Nil => IsActive(from[th]) /\ from[th] # cur
    /\ \A a, b \in Thread : from[a] # Nil /\ from[a] = from[b] => a = b
    /\ \A W \in SUBSET Thread : W # {} => \E th \in W : from[th] \notin W

\* The references of an object that the program may follow or that a later traversal
\* follows: everything except the key of an empty node.
Held(o) ==
    IF o \in Table THEN
        {ref[o][MT]} \cup (IF NonEmpty(o) THEN {ref[o][KEY], ref[o][VAL]} ELSE {})
    ELSE IF o \in UpVal THEN {UvValue(o)}
    ELSE {ref[o][f] : f \in Fld} \cup (IF o \in Thread THEN OpenOf(o) ELSE {})

\* No live object, and no root, holds a reference to a freed object or to one the sweep
\* is about to free (validateobjref and checkliveness of lgcdebug.cpp), not even in the
\* unused part of a stack, which a later call exposes again.
NoDangling ==
    /\ \A o \in Roots \cup {cur} : o # Nil => Live(o)
    /\ \A o \in Obj : Live(o) => \A x \in Held(o) \ {Nil} : Live(x)

\* "A black object can never point to a white one" while marking (lgc.h:26).
NoBlackToWhite ==
    KeepInvariant =>
        \A o \in Obj \ Thread : color[o] = "black" => Whites({ref[o][f] : f \in Fld}) = {}

\* The same for the stack of a black thread, except the slots of open upvalues, which
\* any closure may write and which remarkupvals visits in the atomic phase.
BlackThreads ==
    KeepInvariant =>
        \A th \in Thread : color[th] = "black" =>
            /\ \A i \in Slot : ref[th][i] = Nil \/ ~IsWhite(ref[th][i])
                                  \/ \E u \in OpenOf(th) : level[u] = i
            /\ \A u \in OpenOf(th) : color[u] = "gray" /\ u \in markedopen

\* An active thread never turns black (asserted in luau_execute and luaF_findupval), nor
\* does an open upvalue (asserted wherever open upvalues are visited).
NeverBlack ==
    /\ \A th \in Thread : IsActive(th) => color[th] # "black"
    /\ \A u \in UpVal : IsOpen(u) => color[u] \notin {"black", "free"}

\* A thread is black only while nothing is pushed on its stack unseen (the comment at the top
\* of lapi.cpp): what it holds is marked, it is neither running nor has resumed another, and
\* its open upvalues are left gray for remarkupvals.
ThreadColors == NeverBlack /\ BlackThreads

\* gclist is intrusive: while marking, a gray object with a gclist is in exactly one list
\* and nothing else is in any list (validategraylist).
OneList ==
    KeepInvariant =>
        /\ {o \in Listed : color[o] = "gray"} = gray \cup grayagain \cup weak
        /\ gray \cap grayagain = {}
        /\ gray \cap weak = {}
        /\ grayagain \cap weak = {}

\* Between cycles every object is white with the current white and no open upvalue has
\* a stale markedopen bit, so that the next cycle starts from scratch.
PauseClean ==
    gcstate = "pause" =>
        /\ \A o \in Obj : color[o] \in {"free", currentwhite}
        /\ full = "no" => \A u \in markedopen : ~IsOpen(u)

\* What the program sees of an object.
Seen(o) ==
    IF o \in Table THEN
        <<ref[o][MT], IF NonEmpty(o) THEN <<ref[o][KEY], ref[o][VAL]>> ELSE <<>> >>
    ELSE IF o \in Thread THEN <<[i \in 1 .. top[o] |-> ref[o][i]], OpenOf(o)>>
    ELSE IF o \in UpVal THEN <<UvValue(o)>>
    ELSE <<ref[o]>>

\* The part f of the entry of t is weak, is no string, and does not survive this step.
Lost(t, f) ==
    /\ ref[t][f] \notin Str \cup {Nil}
    /\ (IF f = KEY THEN "k" ELSE "v") \in WeakMode(t)
    /\ \E x \in {ref[t][f]} : ~Live(x)'

\* A step of the collector changes nothing the program sees of the objects that stay
\* alive, except that a weak table loses the entry whose weak key or value dies; an
\* upvalue is closed behind the program's back only with its value preserved.
InvisibleCollector ==
    [][(\E o \in Obj :
            /\ Live(o)'
            /\ Seen(o)' # Seen(o)
            /\ ~ /\ o \in Table
                 /\ Seen(o)' = <<ref[o][MT], <<>> >>
                 /\ Lost(o, KEY) \/ Lost(o, VAL)) => ~Collector]_vars

\* The collector closes an upvalue only when the thread it is open on is dead, and then
\* takes it out of no list that thread still uses (clearupvals).
ClosesOnlyOrphans ==
    [][(\E th \in Thread : Live(th)' /\ \E u \in OpenOf(th) : ~IsOpen(u)') => ~Collector]_vars

\* The references LuaHeap sees: what a traversal marks, and what an upvalue or a userdata
\* marks at once.
StrongRefs(o) ==
    (IF o \in Udata THEN {ref[o][MT]}
     ELSE IF o \in UpVal THEN {UvValue(o)}
     ELSE IF o \in Str THEN {}
     ELSE Traced(o)) \ {Nil}

WeakRefs(o) ==
    IF o \in Table /\ NonEmpty(o) THEN
        ((IF "k" \in WeakMode(o) THEN {ref[o][KEY]} ELSE {})
            \cup (IF "v" \in WeakMode(o) THEN {ref[o][VAL]} ELSE {})) \ {Nil}
    ELSE {}

Heap == INSTANCE LuaHeap WITH
    alloc  <- {o \in Obj : Live(o)},
    strong <- [o \in Obj |-> IF Live(o) THEN StrongRefs(o) ELSE {}],
    weak   <- [o \in Obj |-> IF Live(o) THEN WeakRefs(o) ELSE {}],
    roots  <- (Roots \cup {cur}) \ {Nil}

\* The collector and the program together implement the heap of LuaHeap.
ImplementsHeap == Heap!Spec

\* Everything the program can still get at: weakly, or in the unused part of a stack
\* that a call may expose.
Accessible ==
    LET next(S) == S \cup ((UNION {Held(o) : o \in S}) \ {Nil})
        reach[n \in 0 .. Cardinality(Obj)] ==
            IF n = 0 THEN (Roots \cup {cur}) \ {Nil} ELSE next(reach[n - 1])
    IN  reach[Cardinality(Obj)]

\* Garbage is freed in the end, however long the program keeps running.  (A string that
\* was garbage may come back by interning, so it is not counted.)
GarbageFreed ==
    \A o \in Obj \ Str :
        (color[o] # "free" /\ o \notin Accessible) ~> color[o] = "free"

\* Marking ends although the program keeps turning objects gray again (lgc.cpp:88-92).
MarkingEnds == KeepInvariant ~> gcstate = "sweep"
=============================================================================
