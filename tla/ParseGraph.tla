------------------------------ MODULE ParseGraph ------------------------------
(***************************************************************************)
(* Frontend::parseGraph of Analysis/src/Frontend.cpp: the depth-first      *)
(* search over the require graph that gives the order in which modules are *)
(* checked, once for each module the program asks for, and                 *)
(* addBuildQueueItems, which appends its result to the items to build.     *)
(***************************************************************************)
EXTENDS Naturals, FiniteSets, SequencesExt

CONSTANTS Name,      \* the modules whose source can be read
          Graph,     \* the require graphs they may have
          RootList,  \* the sequences of modules the program may ask for
          Marker     \* nullptr on the stack

ASSUME GraphAssumption ==
    /\ IsFiniteSet(Name) /\ Marker \notin Name
    /\ Graph \subseteq [Name -> SUBSET Name]
    /\ RootList \subseteq Seq(Name)

VARIABLES
    requires,    \* SourceNode::requireSet, as getSourceNode parses it
    dirty,       \* the modules with SourceNode::dirtyModule
    dependents,  \* SourceNode::dependents
    roots,       \* the modules of currModuleQueue not yet looked at
    seen,        \* the modules that are queued, or need not be
    stack, path, mark, buildQueue, cyclic, \* locals of parseGraph
    items,       \* buildQueueItems
    cycles       \* cycles[n]: the requires of n that begin a cycle (requireCycles)

graph == <<requires, dirty>>
search == <<stack, path, mark, buildQueue, cyclic>>
parseVars == <<graph, dependents, roots, seen, search, items, cycles>>

\* The modules reachable from n by one require or more: what is in every set of
\* modules that has the requires of n and those of its own modules.
Reached(n) ==
    {m \in Name : \A S \in SUBSET Name :
        requires[n] \cup UNION {requires[s] : s \in S} \subseteq S => m \in S}

ParseTypeOK ==
    /\ requires \in [Name -> SUBSET Name] /\ dirty \subseteq Name
    /\ dependents \in [Name -> SUBSET Name]
    /\ roots \in Seq(Name) /\ seen \subseteq Name
    /\ stack \in Seq(Name \cup {Marker}) /\ path \in Seq(Name)
    /\ mark \in [Name -> {"none", "temporary", "permanent"}]
    /\ buildQueue \in Seq(Name) /\ cyclic \in BOOLEAN
    /\ items \in Seq(Name) /\ cycles \in [Name -> SUBSET Name]

\* Modules that were checked before are clean, and so is all they require.
ParseInit ==
    /\ requires \in Graph
    /\ dirty \in {D \in SUBSET Name : \A n \in Name \ D : requires[n] \cap D = {}}
    /\ dependents = [d \in Name |-> {n \in Name \ dirty : d \in requires[n]}]
    /\ roots \in RootList
    /\ seen = {}
    /\ stack = <<>> /\ path = <<>> /\ mark = [n \in Name |-> "none"]
    /\ buildQueue = <<>> /\ cyclic = FALSE
    /\ items = <<>> /\ cycles = [n \in Name |-> {}]

\* The next root is clean, or in the queue of an earlier one.
SkipRoot ==
    /\ roots # <<>> /\ stack = <<>> /\ buildQueue = <<>>
    /\ Head(roots) \in seen \/ Head(roots) \notin dirty
    /\ seen' = seen \cup {Head(roots)}
    /\ roots' = Tail(roots)
    /\ UNCHANGED <<graph, dependents, search, items, cycles>>

\* parseGraph begins at the next root.
BeginRoot ==
    /\ roots # <<>> /\ stack = <<>> /\ buildQueue = <<>>
    /\ Head(roots) \in dirty \ seen
    /\ stack' = <<Head(roots)>>
    /\ mark' = [n \in Name |-> "none"] /\ cyclic' = FALSE
    /\ UNCHANGED <<graph, dependents, roots, seen, path, buildQueue, items, cycles>>

\* Clean modules and those of earlier roots are not searched.
Children(n) == (requires[n] \cap dirty) \ seen

\* A module that is not marked: its children are pushed above its marker.
Visit ==
    /\ stack # <<>> /\ Last(stack) # Marker
    /\ LET top == Last(stack) IN
       /\ mark[top] = "none"
       /\ mark' = [mark EXCEPT ![top] = "temporary"]
       /\ path' = Append(path, top)
       /\ \E children \in SetToSeqs(Children(top)) :
             stack' = Front(stack) \o <<Marker>> \o children
    /\ UNCHANGED <<graph, dependents, roots, seen, buildQueue, cyclic, items, cycles>>

Found(flag) ==
    /\ stack # <<>> /\ Last(stack) # Marker
    /\ mark[Last(stack)] # "none"
    /\ cyclic' = flag
    /\ stack' = Front(stack)
    /\ UNCHANGED <<graph, dependents, roots, seen, path, mark, buildQueue, items, cycles>>

\* Faulty variant: a module on the path is not told from one that is finished.
FoundIgnoresPath == Found(cyclic)

\* A module that is marked already: if it is on the path, there is a cycle.
FoundAgain == Found(cyclic \/ mark[Last(stack)] = "temporary")

\* The marker: everything the module requires is done.
PostOrder ==
    /\ stack # <<>> /\ Last(stack) = Marker
    /\ LET top == Last(path) IN
       /\ mark' = [mark EXCEPT ![top] = "permanent"]
       /\ buildQueue' = Append(buildQueue, top)
       /\ dependents' = [d \in Name |-> IF d \in requires[top]
                                        THEN dependents[d] \cup {top} ELSE dependents[d]]
    /\ stack' = Front(stack) /\ path' = Front(path)
    /\ UNCHANGED <<graph, roots, seen, cyclic, items, cycles>>

\* getRequireCycles
RequireCycles(n) == {d \in requires[n] : d = n \/ n \in Reached(d)}

\* addBuildQueueItems: what parseGraph returns is appended to the items.  The
\* search reaches dirty modules that are not in seen, so its loop skips none.
AddBuildQueueItems ==
    /\ roots # <<>> /\ stack = <<>> /\ buildQueue # <<>>
    /\ items' = items \o buildQueue
    /\ cycles' = [n \in Name |-> IF cyclic /\ n \in ToSet(buildQueue)
                                 THEN RequireCycles(n) ELSE cycles[n]]
    /\ seen' = seen \cup ToSet(buildQueue)
    /\ buildQueue' = <<>>
    /\ roots' = Tail(roots)
    /\ UNCHANGED <<graph, dependents, stack, path, mark, cyclic>>

Parse == SkipRoot \/ BeginRoot \/ Visit \/ FoundAgain \/ PostOrder \/ AddBuildQueueItems

\* Every root has been searched.
Parsed == roots = <<>>

Item == ToSet(items)

\* What a search returns can be appended as it is: modules that need a check and
\* are not queued already, each of them once.
Unqueued ==
    /\ ToSet(buildQueue) \subseteq dirty \ (seen \cup Item)
    /\ IsInjective(buildQueue) /\ IsInjective(items)

\* What the items promise to those who check them in order: whatever an item
\* requires and needs a check is an item too; it comes before, unless the two
\* are on a cycle that is reported for the item; and who is to be marked dirty
\* with a module knows it.
BuildOrder ==
    /\ Unqueued
    /\ \A n \in Item : (requires[n] \cap dirty) \subseteq Item
    /\ \A k \in DOMAIN items, l \in DOMAIN items :
          (k <= l /\ items[l] \in requires[items[k]]) => items[l] \in cycles[items[k]]
    /\ \A n \in Item : \A d \in requires[n] : n \in dependents[d]
=============================================================================
