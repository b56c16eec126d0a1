------------------------------ MODULE MCSession ------------------------------
EXTENDS SourceGraph
CONSTANTS a, b, c, check, auto

MCOrder == {<<b, c, a>>, <<c, a, b>>}

\* What the modules may require, the modes of the checks, and the orders in which the
\* first modules are erased
Graphs == {
    [source |-> (a :> {{b, c}} @@ b :> {{c}, {a}, Absent} @@ c :> {{}, {a}}),
     modes |-> {check}, erased |-> {<<b, c, a>>}],
    [source |-> (a :> {{b}} @@ b :> {{a}, Absent} @@ c :> {{b}}),
     modes |-> {check}, erased |-> MCOrder],
    [source |-> (a :> {{b}} @@ b :> {{a}, {}, Absent} @@ c :> {Absent}),
     modes |-> {check, auto}, erased |-> MCOrder]}
MCSource == [n \in Name |-> UNION {graph.source[n] : graph \in Graphs}]

VARIABLE graph

Edited == {n \in Name : graph.source[n] # {Absent}}

MCInit == graph \in Graphs /\ SessionInit /\ \A n \in Name : disk[n] \in graph.source[n]

MCNext ==
    /\ \/ \E n \in Edited : Edit(n) /\ disk'[n] \in graph.source[n]
       \/ \E n \in Edited : MarkDirty(n)
       \/ \E n \in Edited, m \in graph.modes : Check(n, m)
       \/ \E names \in graph.erased : \E k \in 1 .. Len(names) : ClearModules(names, k)
       \/ Clear
    /\ UNCHANGED graph

MCSpec == MCInit /\ [][MCNext]_<<sessionVars, graph>>
=============================================================================
