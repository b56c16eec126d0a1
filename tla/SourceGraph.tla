----------------------------- MODULE SourceGraph -----------------------------
(***************************************************************************)
(* What a Frontend (Analysis/src/Frontend.cpp) keeps from one call to the  *)
(* next: the source nodes with their requires and dependents, which of     *)
(* them are dirty, and the checked modules.  The sources change under it;  *)
(* the program tells it with markDirty, and asks for checks.  Each action  *)
(* is one call.  ParseGraph and BuildQueue have the inside of a check.     *)
(***************************************************************************)
EXTENDS Integers, FiniteSets, SequencesExt

CONSTANTS
    Name,       \* the modules
    Source,     \* Source[n]: the sets of modules that n may require, as n is edited
    Absent,     \* instead of a source: the file does not exist
    Order,      \* orders of the modules: requireSet is a hash table
    Mode,       \* the module resolvers: one for checks, one for autocomplete
    Marker,     \* nullptr on the stack
    MaxPending  \* bound: how many edits the program may be late in reporting

ASSUME SourceAssumption ==
    /\ IsFiniteSet(Name) /\ Marker \notin Name
    /\ \A n \in Name : Source[n] \subseteq (SUBSET Name) \cup {Absent}
    /\ IsFiniteSet(Mode) /\ Mode # {}
    /\ \A order \in Order : order \in Seq(Name) /\ Len(order) = Cardinality(Name) /\ ToSet(order) = Name
    /\ MaxPending \in Nat

VARIABLES
    disk,       \* the sources the file resolver reads
    pending,    \* the modules that changed since markDirty was called for them
    f,          \* the Frontend
    doubtful    \* doubtful[m]: the modules whose dependencies may be called valid wrongly (history)

sessionVars == <<disk, pending, f, doubtful>>

\* sourceNodes and the fields of SourceNode by name; resolver[m] is the set of modules of
\* a resolver.  The last three relate a module to what it was checked with: parsed and
\* made[m] have the names whose tree and whose module are of the present source, used[m]
\* and stale[m] what a module was checked against and what of that is gone.
NewFrontend ==
    [node |-> {}, requires |-> [n \in Name |-> {}], dependents |-> [n \in Name |-> {}],
     dirtySource |-> {}, dirty |-> [m \in Mode |-> {}], invalid |-> [m \in Mode |-> {}],
     resolver |-> [m \in Mode |-> {}],
     parsed |-> {}, made |-> [m \in Mode |-> {}],
     used |-> [m \in Mode |-> [n \in Name |-> {}]],
     stale |-> [m \in Mode |-> [n \in Name |-> {}]]]

SessionInit ==
    /\ disk \in [Name -> UNION {Source[n] : n \in Name}] /\ \A n \in Name : disk[n] \in Source[n]
    /\ pending = {} /\ f = NewFrontend /\ doubtful = [m \in Mode |-> {}]

Update(S, set, on) == IF on THEN S \cup set ELSE S \ set

-----------------------------------------------------------------------------
(* Dependents                                                               *)

\* n, and what is reached from it when E[d] follow d
Reached(n, E) ==
    {x \in Name : \A S \in SUBSET Name : n \in S /\ (\A d \in S : E[d] \subseteq S) => x \in S}

\* traverseDependents: n and, from every node that is not in Stop, its dependents.
Traversed(g, n, Stop) ==
    IF n \in g.node THEN Reached(n, [d \in Name |-> IF d \in Stop THEN {} ELSE g.dependents[d]]) ELSE {}

\* markDirty.  A node that is dirty in every respect ends the traversal.
MarkedDirty(g, n) ==
    LET allDirty == {d \in g.dirtySource : \A m \in Mode : d \in g.dirty[m]}
        R == Traversed(g, n, allDirty)
    IN [g EXCEPT !.dirtySource = @ \cup R, !.dirty = [m \in Mode |-> g.dirty[m] \cup R]]

\* Faulty variant: only the direct dependents are invalidated.
InvalidatedDirectly(g, m, n) == [g EXCEPT !.invalid[m] = @ \cup {n} \cup g.dependents[n]]

\* A replaced module invalidates its dependents; an invalid node ends the traversal.
Invalidated(g, m, n) == [g EXCEPT !.invalid[m] = @ \cup Traversed(g, n, @)]

\* In the resolvers M the module n is another or gone, and stale what was checked against it.
Replaced(g, M, n) ==
    [g EXCEPT !.stale = [m \in Mode |-> [x \in Name |->
        IF m \in M /\ n \in g.used[m][x] THEN g.stale[m][x] \cup {n} ELSE g.stale[m][x]]]]

\* Faulty variant: the edges of the requires it had stay.
UnlinkedNot(g, n) == g

\* n is no longer a dependent of what it requires.
Unlinked(g, n) ==
    [g EXCEPT !.dependents = [d \in Name |-> IF d \in g.requires[n] THEN g.dependents[d] \ {n}
                                             ELSE g.dependents[d]]]

\* The node and the modules of n are erased.
Erase(g, n) ==
    LET h == Replaced(Unlinked(g, n), Mode, n)
        Without(S) == [m \in Mode |-> S[m] \ {n}]
        Nothing(S) == [m \in Mode |-> [x \in Name |-> IF x = n THEN {} ELSE S[m][x]]]
    IN [h EXCEPT
          !.node = @ \ {n}, !.requires[n] = {}, !.dependents[n] = {},
          !.dirtySource = @ \ {n}, !.parsed = @ \ {n},
          !.dirty = Without(h.dirty), !.invalid = Without(h.invalid),
          !.resolver = Without(h.resolver), !.made = Without(h.made),
          !.used = Nothing(h.used), !.stale = Nothing(h.stale)]

-----------------------------------------------------------------------------
(* Parsing                                                                  *)

\* getSourceNode, for a source that is dirty or new.
ReadSource(g, n) ==
    IF disk[n] = Absent THEN IF n \in g.node THEN Erase(g, n) ELSE g
    ELSE LET new == n \notin g.node
             h == Unlinked(g, n)
         IN [h EXCEPT !.node = @ \cup {n}, !.requires[n] = disk[n], !.parsed = @ \cup {n},
                      !.dirtySource = @ \ {n},
                      !.dirty = [m \in Mode |-> IF new THEN h.dirty[m] \cup {n} ELSE h.dirty[m]],
                      !.invalid = [m \in Mode |-> IF new THEN h.invalid[m] \cup {n} ELSE h.invalid[m]]]

GetSourceNode(g, n) ==
    IF n \in g.node /\ n \notin g.dirtySource THEN g ELSE ReadSource(g, n)

\* A search of parseGraph: g is the Frontend so far, the other fields are its locals.
\* A child that was found clean is skipped, one that was seen is not parsed again.
PushChild(m, s, d) ==
    LET known == d \in s.seen
        g == IF known THEN s.g ELSE GetSourceNode(s.g, d)
    IN IF d \in s.g.node /\ d \notin s.g.dirty[m] THEN s
       ELSE IF d \notin g.node THEN [s EXCEPT !.g = g]
       ELSE [s EXCEPT !.g = g, !.seen = @ \cup {d}, !.stack = Append(@, d)]

\* A node that is not marked: the marker and its children, in some order.
Visited(m, s, top, order) ==
    LET marked == [s EXCEPT !.seen = @ \cup {top}, !.mark[top] = "temporary",
                            !.path = Append(@, top), !.stack = Append(Front(@), Marker)]
        upTo[i \in 0 .. Len(order)] ==
            IF i = 0 THEN marked
            ELSE LET t == upTo[i - 1] IN
                 IF order[i] \in t.g.requires[top] THEN PushChild(m, t, order[i]) ELSE t
    IN upTo[Len(order)]

\* Faulty variant: only the modules that are to be checked learn of their dependents.
FinishedSearched(m, s) ==
    LET top == Last(s.path) IN
    [s EXCEPT !.stack = Front(@), !.path = Front(@), !.mark[top] = "permanent",
              !.queue = Append(@, top),
              !.g.dependents = [d \in Name |-> IF d \in s.g.requires[top] \cap s.g.dirty[m]
                                               THEN @[d] \cup {top} ELSE @[d]]]

\* The marker: the node is done, and the nodes it requires learn of their dependent.
Finished(m, s) ==
    LET top == Last(s.path) IN
    [s EXCEPT !.stack = Front(@), !.path = Front(@), !.mark[top] = "permanent",
              !.queue = Append(@, top),
              !.g.dependents = [d \in Name |-> IF d \in s.g.requires[top] \cap s.g.node
                                               THEN @[d] \cup {top} ELSE @[d]]]

SearchStep(m, s, order) ==
    LET top == Last(s.stack) IN
    IF top = Marker THEN Finished(m, s)
    ELSE IF s.mark[top] = "none" THEN Visited(m, s, top, order)
    ELSE [s EXCEPT !.stack = Front(@), !.cyclic = @ \/ s.mark[top] = "temporary"]

\* parseGraph from root
ParseGraph(m, root, order) ==
    LET g == GetSourceNode(f, root)
        start == [g |-> g, stack |-> IF root \in g.node THEN <<root>> ELSE <<>>, path |-> <<>>,
                  mark |-> [n \in Name |-> "none"], seen |-> {}, queue |-> <<>>, cyclic |-> FALSE]
        turns == Cardinality(Name) * (Cardinality(Name) + 2) + 1
        after[k \in 0 .. turns] ==
            IF k = 0 THEN start
            ELSE LET s == after[k - 1] IN IF s.stack = <<>> THEN s ELSE SearchStep(m, s, order)
    IN after[turns]

-----------------------------------------------------------------------------
(* Checking                                                                 *)

\* getRequireCycles: the requires of n that lead back to it.
RequireCycles(g, n) == {d \in g.requires[n] \cap g.node : n \in Reached(d, g.requires)}

\* checkBuildQueueItem and recordItemResult: the requires that begin a reported cycle are
\* of type any; the others are what the resolver has for them.
Recorded(m, g, n, cyclic) ==
    LET cut == IF cyclic THEN RequireCycles(g, n) ELSE {}
        used == (g.requires[n] \ cut) \cap g.resolver[m]
        replaced == n \in g.resolver[m]
        h == [(IF replaced THEN Invalidated(Replaced(g, {m}, n), m, n) ELSE g)
                EXCEPT !.resolver[m] = @ \cup {n}, !.dirty[m] = @ \ {n}]
    IN [h EXCEPT !.invalid[m] = @ \ {n}, !.used[m][n] = used, !.stale[m][n] = {},
                 !.made[m] = Update(@, {n}, n \in g.parsed)]

\* The first k modules of the queue are recorded.
Records(m, s, k) ==
    LET upTo[i \in 0 .. k] == IF i = 0 THEN s.g ELSE Recorded(m, upTo[i - 1], s.queue[i], s.cyclic)
    IN upTo[k]

\* Of the modules called valid in resolver m, those in D or checked against what is gone
Doubted(g, m, D) == {n \in g.node \ g.invalid[m] : n \in D \/ ~(g.used[m][n] \subseteq g.node)}

\* check in mode m, or parse when k is 0.  A call that is cancelled, or throws, records no
\* more than the first modules.
Check(root, m) ==
    /\ root \in f.node => root \in f.dirty[m]
    /\ \E s \in {ParseGraph(m, root, order) : order \in Order} : \E k \in 0 .. Len(s.queue) :
          LET recorded == {s.queue[i] : i \in 1 .. k}
              parsedAgain == f.dirtySource \ s.g.dirtySource
              unsure == {n \in recorded : f'.used[m][n] \cap f'.invalid[m] # {}}
          IN /\ f' = Records(m, s, k)
             /\ doubtful' = [x \in Mode |-> Doubted(f', x,
                    IF x = m THEN ((doubtful[x] \cup parsedAgain) \ recorded) \cup unsure
                    ELSE doubtful[x] \cup parsedAgain)]
    /\ UNCHANGED <<disk, pending>>

\* A source is edited, created or deleted.
Edit(n) ==
    /\ n \in pending \/ Cardinality(pending) < MaxPending
    /\ disk' \in {[disk EXCEPT ![n] = c] : c \in Source[n]}
    /\ pending' = pending \cup {n}
    /\ f' = [f EXCEPT !.parsed = @ \ {n}, !.made = [m \in Mode |-> @[m] \ {n}]]
    /\ UNCHANGED doubtful

MarkDirty(n) ==
    /\ f' = MarkedDirty(f, n) /\ pending' = pending \ {n}
    /\ UNCHANGED <<disk, doubtful>>

\* clearModules of the first k names: all are marked dirty before the first is erased.
ClearModules(names, k) ==
    LET marked[i \in 0 .. k] == IF i = 0 THEN f ELSE MarkedDirty(marked[i - 1], names[i])
        erased[i \in 0 .. k] ==
            IF i = 0 THEN marked[k]
            ELSE LET g == erased[i - 1] IN IF names[i] \in g.node THEN Erase(g, names[i]) ELSE g
        all == {names[i] : i \in 1 .. k}
    IN /\ f' = erased[k]
       /\ doubtful' = [m \in Mode |-> Doubted(f', m, doubtful[m])]
       /\ pending' = pending \ all
       /\ UNCHANGED disk

Clear == f' = NewFrontend /\ pending' = {} /\ doubtful' = [m \in Mode |-> {}] /\ UNCHANGED disk

SessionNext ==
    \/ \E n \in Name : Edit(n) \/ MarkDirty(n)
    \/ \E n \in Name, m \in Mode : Check(n, m)
    \/ \E names \in Order : \E k \in 1 .. Len(names) : ClearModules(names, k)
    \/ Clear

SessionSpec == SessionInit /\ [][SessionNext]_sessionVars

-----------------------------------------------------------------------------
(* What must be true                                                        *)

\* A module that is not dirty is up to date (the comment of markDirty): it is made from its
\* source, unless that changed without notice, and from modules that are still there and
\* not dirty either, whatever was edited, cancelled or cleared in which order.
CleanIsCurrent ==
    \A m \in Mode : \A n \in f.node \ f.dirty[m] :
        /\ n \in f.resolver[m]
        /\ n \in pending \cup f.made[m]
        /\ f.stale[m][n] = {} /\ f.used[m][n] \cap f.dirty[m] = {}

\* allModuleDependenciesValid: the resolver has a module whose dependencies are valid
\* (FragmentAutocomplete.cpp:1313 asserts it), and it refers, through however many others, to
\* modules that the resolver still has, unless one of them is doubtful.  Doubtful is what was
\* checked against a module that is gone, as erasing invalidates nothing; what was parsed
\* again and not checked; and what was checked against an invalid module, as a later
\* traversal stops there.  The next check of it settles the doubt.
ValidIsCurrent ==
    \A m \in Mode :
        /\ f.node \ f.invalid[m] \subseteq f.resolver[m]
        /\ \A n \in f.node \ f.invalid[m] :
              (\A x \in Reached(n, f.used[m]) : x \notin doubtful[m]) =>
                  \A x \in Reached(n, f.used[m]) : f.stale[m][x] = {}

\* Dependents are nodes that require the module (traverseDependents asserts that they are
\* nodes), and a clean module is a dependent of every module it was checked against.
DependentsMatch ==
    /\ \A d \in Name : f.dependents[d] \subseteq {x \in f.node : d \in f.requires[x]}
    /\ \A m \in Mode : \A n \in f.node \ f.dirty[m] : \A d \in f.used[m][n] : n \in f.dependents[d]
=============================================================================
