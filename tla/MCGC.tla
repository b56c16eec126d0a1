-------------------------------- MODULE MCGC --------------------------------
(* Programs of LuaGC on small sets of objects; the initial state chooses   *)
(* one.  Objects a program does not name stay free.                        *)
EXTENDS LuaGC

CONSTANTS main, reg, co, uv, f, d, e, p0, p1

MCModes == {{}}
MCPageOf == [o \in Obj \ {Main} |-> IF o \in {reg, co} THEN p0 ELSE p1]

\* A table, a closure and a userdata: writes with forward and backward
\* barriers against every stage of a cycle.
Barriers ==
    \/ \E v \in {f, d, Nil} : Load(1, v)
    \/ \E v \in {reg, d, Nil} : Load(2, v)
    \/ \E i \in Slot : NewObject(d, i)
    \/ \E v \in {f, d} : NewClosure(f, 1, v)
    \/ Call
    \/ Return
    \/ \E v \in {reg, f, d, Nil} : SetCaptured(f, v)
    \/ \E v \in {f, d, Nil} : SetTable(reg, Nil, v)
    \/ \E o \in {reg, d}, mt \in {reg, Nil} : SetMetatable(o, mt)
    \/ \E mt \in {reg, Nil} : SetBasicMetatable(mt)
    \/ SetMode(reg, {})
    \/ FullGC

\* A closure over a slot of the main thread or of a coroutine: the upvalue is
\* written while open on a suspended thread, closed by its thread, or outlives
\* a thread that died.
Upvalues ==
    \/ \E v \in {d, Nil} : Load(1, v)
    \/ \E v \in {co, f} : Load(2, v)
    \/ NewObject(co, 1)
    \/ NewObject(d, 1)
    \/ NewClosureOver(f, IF cur = main THEN 2 ELSE 1, 1, uv)
    \/ CloseUpvals(1)
    \/ top[cur] < (IF cur = main THEN 2 ELSE 1) /\ Call
    \/ \E v \in {d, Nil} : SetUpval(f, v)
    \/ SetTable(reg, Nil, f)
    \/ Resume(co)
    \/ ResetThread(co)
    \/ Yield
    \/ FullGC

\* A coroutine that is resumed, yields, exchanges values and is reset: stack
\* writes without barriers, stale values in the unused part of a stack.
Switching ==
    \/ NewObject(co, 1)
    \/ Resume(co)
    \/ Yield
    \/ \E a, b \in Thread : XMove(a, b)
    \/ FullGC

Coroutines ==
    \/ Switching
    \/ \E i \in Slot : NewObject(d, i)
    \/ \E i \in Slot, v \in {co, d, Nil} : Load(i, v)
    \/ Call
    \/ Return
    \/ \E v \in {d, Nil} : SetTable(reg, Nil, v)
    \/ ResetThread(co)

\* The same with the pinned string e: no object refers to it and it is kept.
Pinned ==
    \/ Switching
    \/ cur = main /\ top[main] = 1 /\ Call
    \/ NewString(e, 1)
    \/ \E v \in {co, e, Nil} : Load(2, v)

VARIABLE program

MCInit == Init /\ program \in {"barriers", "upvalues", "coroutines", "pinned"}

MCNext ==
    \/ Collector /\ UNCHANGED program
    \/ program = "barriers" /\ Barriers /\ UNCHANGED program
    \/ program = "upvalues" /\ Upvalues /\ UNCHANGED program
    \/ program = "coroutines" /\ Coroutines /\ UNCHANGED program
    \/ program = "pinned" /\ Pinned /\ UNCHANGED program

MCSpec == MCInit /\ [][MCNext]_<<vars, program>>
=============================================================================
