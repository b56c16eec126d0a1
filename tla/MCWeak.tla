---------------------------- MODULE MCWeak ----------------------------
(* A table that becomes weak and strong again by the __mode of its         *)
(* metatable, holding a userdata and a string; a metatable that may be     *)
(* reachable from a basic type only.                                       *)
EXTENDS LuaGC

CONSTANTS main, reg, m, s, d, p0, p1

MCModes == {{}, {"k"}, {"v"}, {"k", "v"}}
MCPageOf == [o \in Obj \ {Main} |-> IF o \in {reg, m} THEN p0 ELSE p1]

WeakProgram ==
    \/ \E v \in {d, s, Nil} : Load(1, v)
    \/ \E v \in {m, d, Nil} : Load(2, v)
    \/ NewObject(m, 2)
    \/ NewObject(d, 1)
    \/ NewString(s, 1)
    \/ Call
    \/ \E k \in KeyObj \cup {Nil}, v \in {d, s, Nil} : SetTable(reg, k, v)
    \/ SetMetatable(reg, m)
    \/ SetBasicMetatable(m)
    \/ \E w \in Modes : SetMode(m, w)

WeakSpec == Init /\ [][Collector \/ WeakProgram]_vars
=============================================================================
