------------------------------ MODULE LuaHeap ------------------------------
(***************************************************************************)
(* What a program may expect of the Luau heap, whatever the collector does *)
(* behind it: objects appear, the program changes references as it likes   *)
(* among the objects that exist, and now and then some objects disappear - *)
(* never one the program can still reach through strong references, and    *)
(* without a trace in the others except for entries of weak tables whose   *)
(* key or value disappeared.  LuaGC implements this specification.         *)
(***************************************************************************)
CONSTANTS Obj

VARIABLES
    alloc,      \* the objects that exist
    strong,     \* the objects an object refers to
    weak,       \* the objects an object refers to without keeping them alive
    roots

hvars == <<alloc, strong, weak, roots>>

\* Every reference, weak or strong, leads to an object that exists.
Sound ==
    /\ roots \subseteq alloc
    /\ \A o \in alloc : strong[o] \cup weak[o] \subseteq alloc

Init == Sound

\* A step of the program: it may allocate, and never frees.
Mutate ==
    /\ alloc \subseteq alloc'
    /\ Sound'

\* A collection.  What survives contains the roots and is closed under strong
\* references, hence contains everything reachable.
Collect ==
    /\ alloc' \subseteq alloc
    /\ roots' = roots
    /\ Sound'
    /\ \A o \in alloc' :
          \/ strong'[o] = strong[o] /\ weak'[o] = weak[o]
          \/ /\ ~(weak[o] \subseteq alloc')
             /\ strong'[o] \subseteq strong[o]
             /\ weak'[o] \subseteq weak[o]

Spec == Init /\ [][Mutate \/ Collect]_hvars
=============================================================================
