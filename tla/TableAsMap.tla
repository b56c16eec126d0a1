----------------------------- MODULE TableAsMap -----------------------------
(* The table of VM/src/ltable.cpp as a map.                                 *)
EXTENDS LuaTable

VARIABLE map    \* what the table holds: the refinement mapping, evaluated once a state

recordedVars == <<map, tableVars>>

RecordedInit == TableInit /\ map = Contents(table)
RecordedNext == TableNext /\ map' = Contents(table')
RecordedSpec == RecordedInit /\ [][RecordedNext]_recordedVars

\* A table implements a map: a key reads as what was last assigned to it, whatever
\* other keys were inserted, moved by a collision, migrated by a resize, cleared or
\* killed by the collector since; only luaH_clear and a weak table lose entries.
Map == INSTANCE TableMap
ImplementsMap == Map!Spec
=============================================================================
