------------------------------ MODULE MCLive ------------------------------
(* A coroutine that is resumed and yields, for the liveness properties,    *)
(* under the fairness of LuaGC.                                            *)
EXTENDS LuaGC

CONSTANTS main, reg, co, d, p0, p1

MCModes == {{}}
MCPageOf == [o \in Obj \ {Main} |-> IF o \in {reg, co} THEN p0 ELSE p1]

LiveProgram ==
    \/ Load(1, co)
    \/ Load(2, d)
    \/ Load(2, Nil)
    \/ NewObject(co, 1)
    \/ NewObject(d, 2)
    \/ Call
    \/ \E v \in {co, Nil} : SetTable(reg, Nil, v)
    \/ cur = main /\ Resume(co)
    \/ Yield
    \/ \E a, b \in Thread : XMove(a, b)
    \/ FullGC

LiveSpec == Init /\ [][Collector \/ LiveProgram]_vars /\ WF_vars(Collector)
=============================================================================
