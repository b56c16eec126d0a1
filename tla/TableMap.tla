------------------------------ MODULE TableMap ------------------------------
(* What a table promises: a map from keys to values, in which Nil is no entry. *)
CONSTANTS Key, Obj, Value, Nil

VARIABLE map

Init == map = [k \in Key |-> Nil]

\* An assignment changes what its key maps to, and nothing else.
Assign(k, v) == map' = [map EXCEPT ![k] = v]

Clear == map' = [k \in Key |-> Nil]

\* The collector takes entries of a weak table whose key or value is dead.
ClearWeak(S) == map' = [k \in Key |-> IF k \in S THEN Nil ELSE map[k]]

Next ==
    \/ \E S \in SUBSET Obj : ClearWeak(S)
    \/ \E k \in Key, v \in Value \cup {Nil} : Assign(k, v)
    \/ Clear

Spec == Init /\ [][Next]_map
=============================================================================
