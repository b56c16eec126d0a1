------------------------------- MODULE MCData -------------------------------
(* The data structures of one VM: four integers and two objects, at the same address *)
(* at different times, as keys of a table; three strings, one of them large; the     *)
(* thread of the host and a coroutine; two modules, one of which uses export; blocks *)
(* of three pages and a half for native code.  The components share no state: a      *)
(* behaviour is one of either.                                                       *)
EXTENDS TableAsMap, StringHeap, CallStack, RequireCache, CodeAllocator
CONSTANTS key1, key2, val, text1, text2, text3, main, co

VARIABLES
    component   \* the component of this behaviour

allVars == <<component, map, tableVars, strVars, callVars, requireVars, codeVars>>

\* Even integers collide with the objects, odd ones with each other.
MCHash == [k \in Key |-> IF k \in Obj THEN 0 ELSE k % 2]
MCAddress == [k \in Obj |-> 1]
MCTextHash == [t \in Text |-> CASE t = text1 -> 0 [] t = text2 -> 1 [] t = text3 -> 2]

MCInit ==
    /\ component \in {"table", "strings", "calls", "require", "code"}
    /\ RecordedInit
    /\ StrInit
    /\ CallInit /\ (component # "calls" => ~luauFastpcall)
    /\ RequireInit /\ (component # "require" => ~shortCircuit /\ ~yields)
    /\ CodeInit /\ (component # "code" => ~protectData /\ unwindSize = 0)

MCTable(A) ==
    /\ component = "table" /\ A /\ map' = Contents(table')
    /\ UNCHANGED <<strVars, callVars, requireVars, codeVars>>
MCStrings ==
    /\ component = "strings" /\ StrNext
    /\ UNCHANGED <<map, tableVars, callVars, requireVars, codeVars>>
MCCalls ==
    /\ component = "calls" /\ CallNext
    /\ UNCHANGED <<map, tableVars, strVars, requireVars, codeVars>>
MCRequire ==
    /\ component = "require" /\ RequireNext
    /\ UNCHANGED <<map, tableVars, strVars, callVars, codeVars>>
MCCode ==
    /\ component = "code" /\ CodeNext
    /\ UNCHANGED <<map, tableVars, strVars, callVars, requireVars>>

MCNext ==
    /\ MCTable(TableNext) \/ MCStrings \/ MCCalls \/ MCRequire \/ MCCode
    /\ UNCHANGED component
MCSpec == MCInit /\ [][MCNext]_allVars

\* Memory may run out in a resize.
MCOomInit == MCInit /\ component = "table"
MCOomNext == (MCTable(TableNext) \/ MCTable(\E k \in Key : SetFails(k))) /\ UNCHANGED component
MCOom == MCOomInit /\ [][MCOomNext]_allVars

\* The flags have their defaults.
MCDefault == MCInit /\ component = "calls" /\ ~luauFastpcall /\ [][MCNext]_allVars

\* The same for native code.
MCCodeDefault == MCInit /\ component = "code" /\ ~protectData /\ [][MCNext]_allVars
=============================================================================
