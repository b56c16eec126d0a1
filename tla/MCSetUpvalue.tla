---------------------------- MODULE MCSetUpvalue ----------------------------
(* Two closures that share a closed upvalue, which the embedder writes     *)
(* through one of them with lua_setupvalue.                                *)
EXTENDS LuaGC

CONSTANTS main, reg, uv, f, g, d, p0

MCModes == {{}}
MCPageOf == [o \in Obj \ {Main} |-> p0]

SharedProgram ==
    \/ \E x \in {f, g} : NewClosureOver(x, 2, 1, uv)
    \/ CloseUpvals(1)
    \/ Call
    \/ NewObject(d, 1)
    \/ Load(1, f)
    \/ \E x \in {f, g} : SetTable(reg, Nil, x)
    \/ \E x \in {f, g} : ApiSetUpvalue(x, d)

SharedSpec == Init /\ [][Collector \/ SharedProgram]_vars
=============================================================================
