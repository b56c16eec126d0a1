-------------------------- MODULE BuildQueueProofs --------------------------
(***************************************************************************)
(* Theorems about BuildQueue, for any modules and any require graph: the   *)
(* counts that steer checkQueuedModules are exact, no task is left behind  *)
(* when it ends, when it returns every module is checked, and what a module*)
(* requires is checked before it, or the two are on a cycle that is        *)
(* reported.  The workers of luau-analyze are an executor as BuildQueue    *)
(* assumes one.                                                            *)
(***************************************************************************)
EXTENDS TaskScheduler, FiniteSetTheorems, SequenceTheorems, WellFoundedInduction, TLAPS

-----------------------------------------------------------------------------
(* The inductive invariant                                                  *)

\* A search: there is a marker on the stack for each module of the path, and
\* marks tell the path from what is finished.
Markers(s) == {k \in DOMAIN s : s[k] = Marker}

SearchInv ==
    /\ Cardinality(Markers(stack)) = Len(path)
    /\ \A k \in DOMAIN stack : stack[k] # Marker => stack[k] \in dirty \ seen
    /\ \A k \in DOMAIN path : path[k] \in dirty \ seen /\ mark[path[k]] = "temporary"
    /\ \A k \in DOMAIN buildQueue :
          buildQueue[k] \in dirty \ seen /\ mark[buildQueue[k]] = "permanent"
    /\ IsInjective(path) /\ IsInjective(buildQueue)

\* While searching, nothing is checked, and what was seen and is dirty is an item.
ParseInv ==
    /\ Item \subseteq seen /\ IsInjective(items)
    /\ seen \subseteq Item \cup (Name \ dirty)
    /\ pc = "parse" =>
        /\ SearchInv
        /\ Item \subseteq dirty
        /\ \A n \in Name : /\ task[n] = "none" /\ result[n] = "none"
                            /\ waits[n] = {} /\ dirtyDependencies[n] = 0
        /\ readyQueueItems = <<>> /\ processing = 0 /\ remaining = 0
        /\ nextItems = {} /\ itemWithException = None /\ ~cancelled

Stopped == itemWithException # None \/ cancelled
Sent == {n \in Name : task[n] \in {"sent", "checked"}}
Unhandled == {n \in Item : task[n] \in {"none", "sent", "checked"}} \cup Ready

\* Frontend::check.
CheckInv ==
    entry = "check" =>
        /\ pc \in {"parse", "sequential"} \cup Ended
        /\ Sent = {}
        /\ pc \in {"sequential", "done"} =>
              \A n \in Item : task[n] # "none" => n \notin dirty
        /\ pc = "done" => Item \cap dirty = {}

\* Frontend::checkQueuedModules.
QueueInv ==
    entry = "checkQueuedModules" =>
        /\ pc # "sequential"
        /\ \A n \in Name : task[n] # "none" => n \in Item
        /\ Ready \subseteq {n \in Name : task[n] \in {"pushed", "over"}}
        /\ IsInjective(readyQueueItems)
        /\ \A n \in Name : task[n] \in {"checked", "pushed", "over"} => result[n] # "none"
        /\ \A n \in nextItems : n \in Item /\ task[n] = "none"
        /\ pc # "progress" => nextItems = {}
        /\ pc # "parse" =>
              /\ Unhandled \subseteq dirty
              /\ ~Stopped => Unhandled = Item \cap dirty
              /\ pc \in {"loop", "waiting"} /\ Stopped => Unhandled # {}
        /\ pc \in Ended => Sent = {}
        /\ pc = "done" => Item \cap dirty = {}

IInv == TypeOK /\ ParseInv /\ CheckInv /\ QueueInv /\ CountsExact

-----------------------------------------------------------------------------
(* Sequences                                                                *)

\* The elements of a sequence over S are in S.
LEMMA ToSetIn ==
  ASSUME NEW S, NEW s \in Seq(S)
  PROVE  ToSet(s) \subseteq S
  BY ElementOfSeq, LenProperties DEF ToSet

\* The elements of a concatenation.
LEMMA ToSetConcat ==
  ASSUME NEW S, NEW s \in Seq(S), NEW t \in Seq(S)
  PROVE  ToSet(s \o t) = ToSet(s) \cup ToSet(t)
<1>1. /\ DOMAIN (s \o t) = 1 .. (Len(s) + Len(t))
      /\ \A i \in 1 .. (Len(s) + Len(t)) :
            (s \o t)[i] = IF i <= Len(s) THEN s[i] ELSE t[i - Len(s)]
      /\ Len(s) \in Nat /\ Len(t) \in Nat
      /\ DOMAIN s = 1 .. Len(s) /\ DOMAIN t = 1 .. Len(t)
  BY ConcatProperties, LenProperties
<1>2. \A i \in DOMAIN s : i \in DOMAIN (s \o t) /\ (s \o t)[i] = s[i]
  BY <1>1
<1>3. \A i \in DOMAIN t : i + Len(s) \in DOMAIN (s \o t) /\ (s \o t)[i + Len(s)] = t[i]
  BY <1>1
<1>4. \A i \in DOMAIN (s \o t) :
         \/ i \in DOMAIN s /\ (s \o t)[i] = s[i]
         \/ i - Len(s) \in DOMAIN t /\ (s \o t)[i] = t[i - Len(s)]
  BY <1>1
<1>5. \A x \in ToSet(s \o t) : x \in ToSet(s) \/ x \in ToSet(t)
  BY <1>4 DEF ToSet
<1>6. \A x \in ToSet(s) : x \in ToSet(s \o t)
  BY <1>2 DEF ToSet
<1>7. \A x \in ToSet(t) : x \in ToSet(s \o t)
  BY <1>3 DEF ToSet
<1> QED BY <1>5, <1>6, <1>7

\* What appending does to the elements and to injectivity.
LEMMA AppendProps ==
  ASSUME NEW S, NEW s \in Seq(S), NEW e \in S
  PROVE  /\ Append(s, e) \in Seq(S) /\ Append(s, e) # <<>>
         /\ Len(Append(s, e)) = Len(s) + 1
         /\ DOMAIN Append(s, e) = 1 .. (Len(s) + 1)
         /\ \A k \in 1 .. Len(s) : Append(s, e)[k] = s[k]
         /\ Append(s, e)[Len(s) + 1] = e
         /\ ToSet(Append(s, e)) = ToSet(s) \cup {e}
         /\ IsInjective(s) /\ e \notin ToSet(s) => IsInjective(Append(s, e))
<1>1. /\ Append(s, e) \in Seq(S) /\ Append(s, e) # <<>>
      /\ Len(Append(s, e)) = Len(s) + 1
      /\ DOMAIN Append(s, e) = 1 .. (Len(s) + 1)
      /\ \A k \in 1 .. Len(s) : Append(s, e)[k] = s[k]
      /\ Append(s, e)[Len(s) + 1] = e
      /\ Len(s) \in Nat /\ DOMAIN s = 1 .. Len(s)
  OBVIOUS
<1>2. \A k \in DOMAIN Append(s, e) : k \in DOMAIN s \/ k = Len(s) + 1
  BY <1>1
<1>3. \A k \in DOMAIN s : k \in DOMAIN Append(s, e)
  BY <1>1
<1>4. Len(s) + 1 \in DOMAIN Append(s, e)
  BY <1>1
<1>5. ToSet(Append(s, e)) = ToSet(s) \cup {e}
  BY <1>1, <1>2, <1>3, <1>4 DEF ToSet
<1>6. ASSUME IsInjective(s), e \notin ToSet(s)
      PROVE  IsInjective(Append(s, e))
  <2> SUFFICES ASSUME NEW k \in DOMAIN Append(s, e), NEW l \in DOMAIN Append(s, e),
                      Append(s, e)[k] = Append(s, e)[l]
               PROVE  k = l
    BY DEF IsInjective
  <2>1. CASE k \in DOMAIN s /\ l \in DOMAIN s
    BY <1>1, <1>6, <2>1 DEF IsInjective
  <2>2. CASE ~(k \in DOMAIN s /\ l \in DOMAIN s)
    BY <1>1, <1>2, <1>6, <2>2 DEF ToSet
  <2> QED BY <2>1, <2>2
<1> QED BY <1>1, <1>5, <1>6

\* Concatenation of injective sequences without a common element.
LEMMA InjectiveConcat ==
  ASSUME NEW S, NEW s \in Seq(S), NEW t \in Seq(S),
         IsInjective(s), IsInjective(t), ToSet(s) \cap ToSet(t) = {}
  PROVE  IsInjective(s \o t)
<1>1. /\ DOMAIN (s \o t) = 1 .. (Len(s) + Len(t))
      /\ \A i \in 1 .. (Len(s) + Len(t)) :
            (s \o t)[i] = IF i <= Len(s) THEN s[i] ELSE t[i - Len(s)]
      /\ Len(s) \in Nat /\ Len(t) \in Nat
      /\ DOMAIN s = 1 .. Len(s) /\ DOMAIN t = 1 .. Len(t)
  BY ConcatProperties, LenProperties
<1>2. \A i \in DOMAIN s, j \in DOMAIN t : s[i] # t[j]
  BY DEF ToSet
<1>3. /\ \A i, j \in DOMAIN s : s[i] = s[j] => i = j
      /\ \A i, j \in DOMAIN t : t[i] = t[j] => i = j
  BY DEF IsInjective
<1> SUFFICES ASSUME NEW k \in DOMAIN (s \o t), NEW l \in DOMAIN (s \o t),
                    (s \o t)[k] = (s \o t)[l]
             PROVE  k = l
  BY DEF IsInjective
<1>4. CASE k <= Len(s) /\ l <= Len(s)
  BY <1>1, <1>3, <1>4
<1>5. CASE k > Len(s) /\ l > Len(s)
  <2>1. k - Len(s) \in DOMAIN t /\ l - Len(s) \in DOMAIN t
    BY <1>1, <1>5
  <2>2. t[k - Len(s)] = t[l - Len(s)]
    BY <1>1, <1>5
  <2>3. k - Len(s) = l - Len(s)
    BY <1>3, <2>1, <2>2
  <2> QED BY <1>1, <2>3
<1>6. CASE k <= Len(s) /\ l > Len(s)
  <2>1. k \in DOMAIN s /\ l - Len(s) \in DOMAIN t
    BY <1>1, <1>6
  <2> QED BY <1>1, <1>2, <1>6, <2>1
<1>7. CASE k > Len(s) /\ l <= Len(s)
  <2>1. l \in DOMAIN s /\ k - Len(s) \in DOMAIN t
    BY <1>1, <1>7
  <2> QED BY <1>1, <1>2, <1>7, <2>1
<1> QED BY <1>1, <1>4, <1>5, <1>6, <1>7

\* All but the last element of a sequence, and the last.
LEMMA FrontProps ==
  ASSUME NEW S, NEW s \in Seq(S), s # <<>>
  PROVE  /\ Front(s) \in Seq(S) /\ Last(s) \in S
         /\ Len(s) \in Nat \ {0} /\ DOMAIN s = 1 .. Len(s)
         /\ Len(Front(s)) = Len(s) - 1
         /\ DOMAIN Front(s) = 1 .. (Len(s) - 1)
         /\ \A k \in 1 .. (Len(s) - 1) : Front(s)[k] = s[k]
         /\ Last(s) = s[Len(s)]
         /\ IsInjective(s) => IsInjective(Front(s)) /\ Last(s) \notin ToSet(Front(s))
<1>1. Len(s) \in Nat \ {0} /\ DOMAIN s = 1 .. Len(s) /\ \A i \in 1 .. Len(s) : s[i] \in S
  BY EmptySeq, LenProperties, ElementOfSeq
<1>2. /\ SubSeq(s, 1, Len(s) - 1) \in Seq(S)
      /\ Len(SubSeq(s, 1, Len(s) - 1)) = Len(s) - 1
      /\ \A i \in 1 .. (Len(s) - 1) : SubSeq(s, 1, Len(s) - 1)[i] = s[i]
  BY <1>1
<1>3. DOMAIN SubSeq(s, 1, Len(s) - 1) = 1 .. (Len(s) - 1)
  BY <1>1, <1>2, LenProperties
<1>4. /\ Front(s) \in Seq(S) /\ Last(s) \in S
      /\ Len(Front(s)) = Len(s) - 1
      /\ DOMAIN Front(s) = 1 .. (Len(s) - 1)
      /\ \A k \in 1 .. (Len(s) - 1) : Front(s)[k] = s[k]
      /\ Last(s) = s[Len(s)]
  BY <1>1, <1>2, <1>3 DEF Front, Last
<1>5. ASSUME IsInjective(s)
      PROVE  IsInjective(Front(s)) /\ Last(s) \notin ToSet(Front(s))
  BY <1>1, <1>4, <1>5 DEF IsInjective, ToSet
<1> QED BY <1>1, <1>4, <1>5

\* An injective sequence has as many elements as its length.
LEMMA InjectiveLength ==
  ASSUME NEW S, NEW s \in Seq(S), IsInjective(s)
  PROVE  IsFiniteSet(ToSet(s)) /\ Cardinality(ToSet(s)) = Len(s)
<1>1. Len(s) \in Nat /\ DOMAIN s = 1 .. Len(s) /\ s \in [1 .. Len(s) -> ToSet(s)]
  BY LenProperties DEF ToSet
<1>2. s \in Bijection(1 .. Len(s), ToSet(s))
  BY <1>1 DEF Bijection, Injection, Surjection, IsInjective, ToSet
<1>3. ExistsBijection(1 .. Len(s), ToSet(s))
  BY <1>2 DEF ExistsBijection
<1>4. IsFiniteSet(1 .. Len(s)) /\ Cardinality(1 .. Len(s)) = Len(s)
  BY <1>1, FS_Interval
<1> QED BY <1>1, <1>3, <1>4, FS_Bijection

-----------------------------------------------------------------------------
(* The search                                                               *)

\* What has no more parts that may be unfinished while searching.
LEMMA Searching ==
  ASSUME IInv, pc = "parse"
  PROVE  /\ ParseTypeOK /\ SearchInv /\ Item \subseteq dirty
         /\ IsFiniteSet(Name) /\ Marker \notin Name
         /\ stack \in Seq(Name \cup {Marker}) /\ path \in Seq(Name)
         /\ buildQueue \in Seq(Name) /\ items \in Seq(Name) /\ roots \in Seq(Name)
         /\ Item \subseteq seen /\ IsInjective(items)
         /\ seen \subseteq Item \cup (Name \ dirty)
BY GraphAssumption DEF IInv, TypeOK, ParseTypeOK, ParseInv

\* A step of the search needs to keep the types and the invariant of searching.
LEMMA SearchFrame ==
  ASSUME IInv, Search,
         ParseTypeOK', SearchInv', Item' \subseteq dirty', Item' \subseteq seen',
         IsInjective(items'), seen' \subseteq Item' \cup (Name \ dirty')
  PROVE  IInv'
<1>1. /\ pc = "parse" /\ UNCHANGED <<entry, pc, task, result, queueVars>>
  BY DEF Search
<1>2. TypeOK'
  BY <1>1 DEF IInv, TypeOK, queueVars
<1>3. ParseInv'
  BY <1>1 DEF IInv, ParseInv, queueVars
<1>4. CheckInv'
  BY <1>1 DEF IInv, CheckInv, Sent, Ended
<1>5. QueueInv'
  <2>1. /\ \A n \in Name : task'[n] = "none"
        /\ readyQueueItems' = <<>> /\ nextItems' = {}
    BY <1>1 DEF IInv, ParseInv, queueVars
  <2>2. Ready' = {} /\ IsInjective(readyQueueItems') /\ pc' = "parse"
    BY <1>1, <2>1 DEF Ready, ToSet, IsInjective
  <2> QED BY <2>1, <2>2 DEF QueueInv, Ended
<1>6. CountsExact'
  BY <1>1 DEF CountsExact
<1> QED BY <1>2, <1>3, <1>4, <1>5, <1>6 DEF IInv

\* A root that needs no search.
LEMMA SkipRootStep ==
  ASSUME IInv, Search, SkipRoot
  PROVE  IInv'
<1>1. pc = "parse"
  BY DEF Search
<1>2. roots # <<>> /\ Head(roots) \in Name /\ Tail(roots) \in Seq(Name)
  BY <1>1, Searching, HeadTailProperties DEF SkipRoot
<1>3. ParseTypeOK'
  BY <1>1, <1>2, Searching DEF SkipRoot, ParseTypeOK, graph, search
<1>4. stack = <<>> /\ buildQueue = <<>> /\ path = <<>>
  <2>1. Markers(stack) = {}
    BY DEF SkipRoot, Markers
  <2>2. Len(path) = 0
    BY <1>1, <2>1, Searching, FS_EmptySet DEF SearchInv
  <2> QED BY <1>1, <2>2, Searching, EmptySeq DEF SkipRoot
<1>5. SearchInv'
  <2>1. DOMAIN stack = {} /\ DOMAIN path = {} /\ DOMAIN buildQueue = {}
    BY <1>4
  <2> QED BY <1>1, <2>1, Searching DEF SkipRoot, SearchInv, Markers, graph, search
<1>6. /\ Item' \subseteq dirty' /\ Item' \subseteq seen' /\ IsInjective(items')
      /\ seen' \subseteq Item' \cup (Name \ dirty')
  BY <1>1, <1>2, Searching DEF SkipRoot, graph, Item
<1> QED BY <1>3, <1>5, <1>6, SearchFrame

\* A search begins at a root.
LEMMA BeginRootStep ==
  ASSUME IInv, Search, BeginRoot
  PROVE  IInv'
<1>1. pc = "parse"
  BY DEF Search
<1>2. roots # <<>> /\ Head(roots) \in Name
  BY <1>1, Searching, HeadTailProperties DEF BeginRoot
<1>3. stack' = <<Head(roots)>> /\ <<Head(roots)>> \in Seq(Name \cup {Marker})
  BY <1>2 DEF BeginRoot
<1>4. ParseTypeOK'
  BY <1>1, <1>3, Searching DEF BeginRoot, ParseTypeOK, graph, search
<1>5. stack = <<>> /\ buildQueue = <<>> /\ path = <<>>
  <2>1. Markers(stack) = {}
    BY DEF BeginRoot, Markers
  <2>2. Len(path) = 0
    BY <1>1, <2>1, Searching, FS_EmptySet DEF SearchInv
  <2> QED BY <1>1, <2>2, Searching, EmptySeq DEF BeginRoot
<1>6. SearchInv'
  <2>1. DOMAIN path' = {} /\ DOMAIN buildQueue' = {} /\ Len(path') = 0
    BY <1>5 DEF BeginRoot
  <2>2. DOMAIN stack' = {1} /\ stack'[1] = Head(roots)
    BY <1>3
  <2>3. Markers(stack)' = {}
    BY <1>2, <2>2, <1>1, Searching DEF Markers
  <2>4. Head(roots) \in dirty' \ seen'
    BY DEF BeginRoot, graph
  <2> QED BY <2>1, <2>2, <2>3, <2>4, FS_EmptySet DEF SearchInv, IsInjective
<1>7. /\ Item' \subseteq dirty' /\ Item' \subseteq seen' /\ IsInjective(items')
      /\ seen' \subseteq Item' \cup (Name \ dirty')
  BY <1>1, Searching DEF BeginRoot, graph, Item
<1> QED BY <1>4, <1>6, <1>7, SearchFrame

\* A module on top of the stack: what that says of the stack.
LEMMA TopOfStack ==
  ASSUME IInv, pc = "parse", stack # <<>>
  PROVE  /\ Front(stack) \in Seq(Name \cup {Marker})
         /\ Len(stack) \in Nat \ {0} /\ DOMAIN stack = 1 .. Len(stack)
         /\ Len(Front(stack)) = Len(stack) - 1
         /\ DOMAIN Front(stack) = 1 .. (Len(stack) - 1)
         /\ \A k \in 1 .. (Len(stack) - 1) : Front(stack)[k] = stack[k]
         /\ Last(stack) = stack[Len(stack)]
         /\ Last(stack) # Marker => Last(stack) \in Name /\ Last(stack) \in dirty \ seen
         /\ Last(stack) # Marker => Markers(Front(stack)) = Markers(stack)
         /\ Last(stack) = Marker =>
              Markers(Front(stack)) = Markers(stack) \ {Len(stack)} /\ Len(stack) \in Markers(stack)
         /\ IsFiniteSet(Markers(stack))
<1>1. stack \in Seq(Name \cup {Marker}) /\ SearchInv
  BY Searching
<1>2. /\ Front(stack) \in Seq(Name \cup {Marker}) /\ Last(stack) \in Name \cup {Marker}
      /\ Len(stack) \in Nat \ {0} /\ DOMAIN stack = 1 .. Len(stack)
      /\ Len(Front(stack)) = Len(stack) - 1
      /\ DOMAIN Front(stack) = 1 .. (Len(stack) - 1)
      /\ \A k \in 1 .. (Len(stack) - 1) : Front(stack)[k] = stack[k]
      /\ Last(stack) = stack[Len(stack)]
  BY <1>1, FrontProps
<1>3. Last(stack) # Marker => Last(stack) \in dirty \ seen
  BY <1>1, <1>2 DEF SearchInv
<1>8. Markers(Front(stack)) = Markers(stack) \ {Len(stack)}
  <2>1. \A k \in DOMAIN Front(stack) :
           k \in DOMAIN stack /\ k # Len(stack) /\ Front(stack)[k] = stack[k]
    BY <1>2
  <2>2. \A k \in DOMAIN stack : k # Len(stack) => k \in DOMAIN Front(stack)
    BY <1>2
  <2> QED BY <2>1, <2>2 DEF Markers
<1>7. Len(stack) \in DOMAIN stack
  BY <1>2
<1>4. Last(stack) # Marker => Markers(Front(stack)) = Markers(stack)
  BY <1>8, <1>2 DEF Markers
<1>5. Last(stack) = Marker =>
         Markers(Front(stack)) = Markers(stack) \ {Len(stack)} /\ Len(stack) \in Markers(stack)
  BY <1>8, <1>7, <1>2 DEF Markers
<1>6. IsFiniteSet(Markers(stack))
  <2>1. Markers(stack) \subseteq 1 .. Len(stack)
    BY <1>2 DEF Markers
  <2>2. IsFiniteSet(1 .. Len(stack))
    BY <1>2, FS_Interval
  <2> QED BY <2>1, <2>2, FS_Subset
<1> QED BY <1>2, <1>3, <1>4, <1>5, <1>6

\* A module is visited: it is replaced by a marker and, above it, its children.
LEMMA VisitPushes ==
  ASSUME IInv, Search, Visit
  PROVE  \E children \in Seq(Children(Last(stack))) :
           /\ Len(children) \in Nat /\ DOMAIN children = 1 .. Len(children)
           /\ \A d \in Children(Last(stack)) : \E k \in DOMAIN children : children[k] = d
           /\ children \in Seq(Name \cup {Marker})
           /\ \A k \in DOMAIN children : children[k] \in dirty \ seen
           /\ stack' \in Seq(Name \cup {Marker})
           /\ DOMAIN stack' = 1 .. (Len(stack) + Len(children))
           /\ \A k \in 1 .. (Len(stack) + Len(children)) :
                 stack'[k] = IF k < Len(stack) THEN stack[k]
                             ELSE IF k = Len(stack) THEN Marker ELSE children[k - Len(stack)]
<1> DEFINE top == Last(stack)
<1>1. pc = "parse" /\ stack # <<>> /\ top # Marker /\ mark[top] = "none"
  BY DEF Search, Visit
<1>2. PICK children \in SetToSeqs(Children(top)) :
         stack' = Front(stack) \o <<Marker>> \o children
  BY DEF Visit
<1>4. /\ top \in Name /\ top \in dirty \ seen
      /\ Front(stack) \in Seq(Name \cup {Marker}) /\ Len(stack) \in Nat \ {0}
      /\ Len(Front(stack)) = Len(stack) - 1
      /\ \A k \in 1 .. (Len(stack) - 1) : Front(stack)[k] = stack[k]
      /\ Markers(Front(stack)) = Markers(stack) /\ IsFiniteSet(Markers(stack))
      /\ DOMAIN stack = 1 .. Len(stack)
      /\ DOMAIN Front(stack) = 1 .. (Len(stack) - 1)
  BY <1>1, TopOfStack
<1>5. /\ ParseTypeOK /\ SearchInv /\ IsFiniteSet(Name) /\ Marker \notin Name
      /\ path \in Seq(Name) /\ mark \in [Name -> {"none", "temporary", "permanent"}]
      /\ dirty \subseteq Name
  BY <1>1, Searching DEF ParseTypeOK
<1>6. children \in Seq(Children(top)) /\ Children(top) \subseteq dirty \ seen
  <2>1. Children(top) \subseteq dirty \ seen /\ Children(top) \subseteq Name
    BY <1>5 DEF Children
  <2>2. Cardinality(Children(top)) \in Nat
    BY <2>1, <1>5, FS_Subset, FS_CardinalityType
  <2>3. children \in [1 .. Cardinality(Children(top)) -> Children(top)]
    BY <1>2 DEF SetToSeqs
  <2> QED BY <2>1, <2>2, <2>3, SeqDef
<1>9. ASSUME NEW d \in Children(top)
      PROVE  \E k \in DOMAIN children : children[k] = d
  <2> DEFINE C == Children(top)
  <2>1. IsFiniteSet(C) /\ Cardinality(C) \in Nat
    BY <1>5, <1>6, FS_Subset, FS_CardinalityType
  <2>2. children \in [1 .. Cardinality(C) -> C]
        /\ \A i, j \in 1 .. Cardinality(C) : i # j => children[i] # children[j]
    BY <1>2 DEF SetToSeqs
  <2> HIDE DEF C
  <2>3. children \in Injection(1 .. Cardinality(C), C)
    BY <2>2 DEF Injection, IsInjective
  <2>4. Cardinality(1 .. Cardinality(C)) = Cardinality(C)
    BY <2>1, FS_Interval
  <2>5. children \in Surjection(1 .. Cardinality(C), C)
    BY <2>1, <2>3, <2>4, FS_Injection
  <2>6. d \in C
    BY DEF C
  <2> QED BY <2>2, <2>5, <2>6 DEF Surjection
<1>7. children \in Seq(Name \cup {Marker}) /\ \A k \in DOMAIN children : children[k] \in dirty \ seen
  BY <1>5, <1>6, SeqMonotonic, ElementOfSeq, LenProperties
<1>8. /\ stack' \in Seq(Name \cup {Marker})
      /\ DOMAIN stack' = 1 .. (Len(stack) + Len(children)) /\ Len(children) \in Nat
      /\ \A k \in 1 .. (Len(stack) + Len(children)) :
            stack'[k] = IF k < Len(stack) THEN stack[k]
                        ELSE IF k = Len(stack) THEN Marker ELSE children[k - Len(stack)]
      /\ DOMAIN children = 1 .. Len(children)
  <2> DEFINE pushed == Front(stack) \o <<Marker>>
  <2>1. /\ <<Marker>> \in Seq(Name \cup {Marker}) /\ Len(<<Marker>>) = 1 /\ <<Marker>>[1] = Marker
        /\ Len(children) \in Nat /\ DOMAIN children = 1 .. Len(children)
    BY <1>7, LenProperties
  <2>2. /\ pushed \in Seq(Name \cup {Marker}) /\ Len(pushed) = Len(stack)
        /\ \A k \in 1 .. Len(stack) : pushed[k] = IF k < Len(stack) THEN stack[k] ELSE Marker
    <3>1. /\ pushed \in Seq(Name \cup {Marker}) /\ Len(pushed) = Len(Front(stack)) + 1
          /\ \A k \in 1 .. (Len(Front(stack)) + 1) :
                pushed[k] = IF k <= Len(Front(stack)) THEN Front(stack)[k]
                            ELSE <<Marker>>[k - Len(Front(stack))]
      BY <1>4, <2>1, ConcatProperties
    <3>2. ASSUME NEW k \in 1 .. Len(stack)
          PROVE  pushed[k] = IF k < Len(stack) THEN stack[k] ELSE Marker
      <4> HIDE DEF pushed
      <4>1. CASE k < Len(stack)
        BY <1>4, <3>1, <4>1
      <4>2. CASE k = Len(stack)
        BY <1>4, <2>1, <3>1, <4>2
      <4> QED BY <1>4, <4>1, <4>2
    <3> HIDE DEF pushed
    <3> QED BY <1>4, <3>1, <3>2
  <2> HIDE DEF pushed
  <2>3. stack' = pushed \o children
    BY <1>2 DEF pushed
  <2>4. /\ pushed \o children \in Seq(Name \cup {Marker})
        /\ Len(pushed \o children) = Len(stack) + Len(children)
        /\ \A k \in 1 .. (Len(stack) + Len(children)) :
              (pushed \o children)[k] = IF k <= Len(stack) THEN pushed[k]
                                        ELSE children[k - Len(stack)]
    <3>1. /\ pushed \o children \in Seq(Name \cup {Marker})
          /\ Len(pushed \o children) = Len(pushed) + Len(children)
          /\ \A k \in 1 .. (Len(pushed) + Len(children)) :
                (pushed \o children)[k] = IF k <= Len(pushed) THEN pushed[k]
                                          ELSE children[k - Len(pushed)]
      BY <1>7, <2>2, ConcatProperties
    <3> QED BY <2>2, <3>1
  <2>5. DOMAIN (pushed \o children) = 1 .. (Len(stack) + Len(children))
    BY <2>4, LenProperties
  <2>6. ASSUME NEW k \in 1 .. (Len(stack) + Len(children))
        PROVE  stack'[k] = IF k < Len(stack) THEN stack[k]
                           ELSE IF k = Len(stack) THEN Marker ELSE children[k - Len(stack)]
    BY <1>4, <2>1, <2>2, <2>3, <2>4
  <2> QED BY <2>1, <2>3, <2>4, <2>5, <2>6
<1> QED BY <1>6, <1>7, <1>8, <1>9

\* A module is visited.
LEMMA VisitStep ==
  ASSUME IInv, Search, Visit
  PROVE  IInv'
<1> DEFINE top == Last(stack)
<1>1. pc = "parse" /\ stack # <<>> /\ top # Marker /\ mark[top] = "none"
  BY DEF Search, Visit
<1>2. PICK children \in Seq(Children(top)) :
         /\ Len(children) \in Nat /\ DOMAIN children = 1 .. Len(children)
         /\ children \in Seq(Name \cup {Marker})
         /\ \A k \in DOMAIN children : children[k] \in dirty \ seen
         /\ stack' \in Seq(Name \cup {Marker})
         /\ DOMAIN stack' = 1 .. (Len(stack) + Len(children))
         /\ \A k \in 1 .. (Len(stack) + Len(children)) :
               stack'[k] = IF k < Len(stack) THEN stack[k]
                           ELSE IF k = Len(stack) THEN Marker ELSE children[k - Len(stack)]
  BY VisitPushes
<1>3. /\ mark' = [mark EXCEPT ![top] = "temporary"] /\ path' = Append(path, top)
      /\ UNCHANGED <<graph, dependents, roots, seen, buildQueue, cyclic, items, cycles>>
  BY DEF Visit
<1>4. /\ top \in Name /\ top \in dirty \ seen
      /\ Front(stack) \in Seq(Name \cup {Marker}) /\ Len(stack) \in Nat \ {0}
      /\ Len(Front(stack)) = Len(stack) - 1
      /\ \A k \in 1 .. (Len(stack) - 1) : Front(stack)[k] = stack[k]
      /\ Markers(Front(stack)) = Markers(stack) /\ IsFiniteSet(Markers(stack))
      /\ DOMAIN stack = 1 .. Len(stack)
      /\ DOMAIN Front(stack) = 1 .. (Len(stack) - 1)
  BY <1>1, TopOfStack
<1>5. /\ ParseTypeOK /\ SearchInv /\ IsFiniteSet(Name) /\ Marker \notin Name
      /\ path \in Seq(Name) /\ mark \in [Name -> {"none", "temporary", "permanent"}]
      /\ dirty \subseteq Name
  BY <1>1, Searching DEF ParseTypeOK
<1>9. Markers(stack') = Markers(stack) \cup {Len(stack)} /\ Len(stack) \notin Markers(stack)
  <2>1. Len(stack) \notin Markers(stack) /\ Markers(stack) \subseteq 1 .. Len(stack)
    BY <1>1, <1>4 DEF Markers, Last
  <2>2. \A k \in 1 .. Len(children) : children[k] # Marker
    BY <1>5, <1>2, <1>2
  <2>3. ASSUME NEW k \in DOMAIN stack'
        PROVE  stack'[k] = Marker <=> k \in Markers(stack) \cup {Len(stack)}
    <3>1. k \in 1 .. (Len(stack) + Len(children)) /\ k \in Nat
      BY <1>4, <1>2, <2>3
    <3>2. CASE k < Len(stack)
      BY <1>4, <1>2, <3>1, <3>2 DEF Markers
    <3>3. CASE k = Len(stack)
      BY <1>4, <1>2, <3>1, <3>3
    <3>4. CASE k > Len(stack)
      <4>1. k - Len(stack) \in 1 .. Len(children)
        BY <1>4, <1>2, <3>1, <3>4
      <4>2. stack'[k] = children[k - Len(stack)]
        <5>1. Len(Front(stack)) = Len(stack) - 1 /\ Len(stack) \in Nat \ {0} /\ k \in 1 .. (Len(stack) + Len(children))
          BY <1>4, <3>1
        <5> QED BY <1>2, <3>4, <5>1
      <4>3. k \notin 1 .. Len(stack) /\ k # Len(stack)
        BY <1>4, <3>1, <3>4
      <4> QED BY <2>1, <2>2, <4>1, <4>2, <4>3
    <3> QED BY <1>4, <3>1, <3>2, <3>3, <3>4
  <2>4. Markers(stack) \cup {Len(stack)} \subseteq DOMAIN stack'
    BY <1>4, <1>2, <2>1
  <2> QED BY <2>1, <2>3, <2>4 DEF Markers
<1>10. /\ path' \in Seq(Name) /\ Len(path') = Len(path) + 1 /\ DOMAIN path' = 1 .. (Len(path) + 1)
       /\ \A k \in 1 .. Len(path) : path'[k] = path[k]
       /\ path'[Len(path) + 1] = top /\ Len(path) \in Nat /\ DOMAIN path = 1 .. Len(path)
       /\ IsInjective(path) /\ top \notin ToSet(path) => IsInjective(path')
  BY <1>3, <1>4, <1>5, AppendProps, LenProperties
<1> HIDE DEF top
<1>11. top \notin ToSet(path) /\ top \notin ToSet(buildQueue)
  BY <1>1, <1>5 DEF SearchInv, ToSet
<1>12. ParseTypeOK'
  BY <1>3, <1>4, <1>5, <1>2, <1>10 DEF ParseTypeOK, graph
<1>13. SearchInv'
  <2>1. Cardinality(Markers(stack')) = Len(path')
    <3>1. Cardinality(Markers(stack) \cup {Len(stack)}) = Cardinality(Markers(stack)) + 1
      BY <1>4, <1>9, FS_AddElement
    <3> QED BY <1>5, <1>9, <1>10, <3>1 DEF SearchInv
  <2>2. ASSUME NEW k \in DOMAIN stack', stack'[k] # Marker
        PROVE  stack'[k] \in dirty' \ seen'
    <3>1. CASE k < Len(stack)
      <4>1. k \in DOMAIN stack /\ stack'[k] = stack[k]
        BY <1>4, <1>2, <3>1
      <4> QED BY <1>3, <1>5, <2>2, <4>1 DEF SearchInv, graph
    <3>2. CASE k > Len(stack)
      <4>1. k - Len(stack) \in DOMAIN children /\ stack'[k] = children[k - Len(stack)]
        BY <1>4, <1>2, <3>2
      <4> QED BY <1>3, <1>2, <4>1 DEF graph
    <3> QED BY <1>4, <1>2, <2>2, <3>1, <3>2
  <2>3. ASSUME NEW k \in DOMAIN path'
        PROVE  path'[k] \in dirty' \ seen' /\ mark'[path'[k]] = "temporary"
    <3>1. CASE k \in DOMAIN path
      <4>1. path'[k] = path[k] /\ path[k] \in dirty \ seen /\ mark[path[k]] = "temporary"
        BY <1>5, <1>10, <3>1 DEF SearchInv
      <4>2. path[k] \in Name
        BY <1>5, <4>1
      <4> QED BY <1>3, <1>5, <4>1, <4>2 DEF graph
    <3>2. CASE k = Len(path) + 1
      BY <1>3, <1>4, <1>5, <1>10, <3>2 DEF graph
    <3> QED BY <1>10, <3>1, <3>2
  <2>4. ASSUME NEW k \in DOMAIN buildQueue'
        PROVE  buildQueue'[k] \in dirty' \ seen' /\ mark'[buildQueue'[k]] = "permanent"
    <3>1. /\ k \in DOMAIN buildQueue /\ buildQueue'[k] = buildQueue[k]
          /\ buildQueue[k] \in dirty \ seen /\ mark[buildQueue[k]] = "permanent"
      BY <1>3, <1>5 DEF SearchInv
    <3>2. buildQueue[k] \in Name /\ buildQueue[k] # top
      BY <1>1, <1>5, <3>1
    <3> QED BY <1>3, <1>4, <1>5, <3>1, <3>2 DEF graph
  <2>5. IsInjective(path') /\ IsInjective(buildQueue')
    BY <1>3, <1>5, <1>10, <1>11 DEF SearchInv
  <2> QED BY <2>1, <2>2, <2>3, <2>4, <2>5 DEF SearchInv
<1>14. /\ Item' \subseteq dirty' /\ Item' \subseteq seen' /\ IsInjective(items')
       /\ seen' \subseteq Item' \cup (Name \ dirty')
  BY <1>1, <1>3, Searching DEF graph, Item
<1> QED BY <1>12, <1>13, <1>14, SearchFrame

\* A module is met again.
LEMMA FoundAgainStep ==
  ASSUME IInv, Search, FoundAgain
  PROVE  IInv'
<1>1. /\ pc = "parse" /\ stack # <<>> /\ Last(stack) # Marker
      /\ stack' = Front(stack)
      /\ cyclic' = (cyclic \/ mark[Last(stack)] = "temporary")
      /\ UNCHANGED <<graph, dependents, roots, seen, path, mark, buildQueue, items, cycles>>
  BY DEF Search, FoundAgain, Found
<1>2. /\ Front(stack) \in Seq(Name \cup {Marker}) /\ Len(stack) \in Nat \ {0}
      /\ DOMAIN Front(stack) = 1 .. (Len(stack) - 1)
      /\ \A k \in 1 .. (Len(stack) - 1) : Front(stack)[k] = stack[k]
      /\ Markers(Front(stack)) = Markers(stack) /\ DOMAIN stack = 1 .. Len(stack)
  BY <1>1, TopOfStack
<1>3. ParseTypeOK'
  BY <1>1, <1>2, Searching DEF ParseTypeOK, graph
<1>4. SearchInv'
  <2>1. Cardinality(Markers(stack')) = Len(path')
    BY <1>1, <1>2, Searching DEF SearchInv
  <2>2. ASSUME NEW k \in DOMAIN stack', stack'[k] # Marker
        PROVE  stack'[k] \in dirty' \ seen'
    <3>1. k \in DOMAIN stack /\ stack'[k] = stack[k]
      BY <1>1, <1>2
    <3> QED BY <1>1, <2>2, <3>1, Searching DEF SearchInv, graph
  <2> QED BY <1>1, <2>1, <2>2, Searching DEF SearchInv, graph
<1>5. /\ Item' \subseteq dirty' /\ Item' \subseteq seen' /\ IsInjective(items')
      /\ seen' \subseteq Item' \cup (Name \ dirty')
  BY <1>1, Searching DEF graph, Item
<1> QED BY <1>3, <1>4, <1>5, SearchFrame

\* A module is finished.
LEMMA PostOrderStep ==
  ASSUME IInv, Search, PostOrder
  PROVE  IInv'
<1> DEFINE top == Last(path)
<1>1. /\ pc = "parse" /\ stack # <<>> /\ Last(stack) = Marker
      /\ mark' = [mark EXCEPT ![top] = "permanent"]
      /\ buildQueue' = Append(buildQueue, top)
      /\ dependents' = [d \in Name |-> IF d \in requires[top]
                                       THEN dependents[d] \cup {top} ELSE dependents[d]]
      /\ stack' = Front(stack) /\ path' = Front(path)
      /\ UNCHANGED <<graph, roots, seen, cyclic, items, cycles>>
  BY DEF Search, PostOrder
<1>2. /\ Front(stack) \in Seq(Name \cup {Marker}) /\ Len(stack) \in Nat \ {0}
      /\ DOMAIN Front(stack) = 1 .. (Len(stack) - 1)
      /\ \A k \in 1 .. (Len(stack) - 1) : Front(stack)[k] = stack[k]
      /\ DOMAIN stack = 1 .. Len(stack)
      /\ Markers(Front(stack)) = Markers(stack) \ {Len(stack)} /\ Len(stack) \in Markers(stack)
      /\ IsFiniteSet(Markers(stack))
  BY <1>1, TopOfStack
<1>3. /\ ParseTypeOK /\ SearchInv /\ path \in Seq(Name) /\ buildQueue \in Seq(Name)
      /\ mark \in [Name -> {"none", "temporary", "permanent"}] /\ dirty \subseteq Name
  BY <1>1, Searching DEF ParseTypeOK
<1>4. path # <<>>
  <2>1. Cardinality(Markers(stack)) # 0
    BY <1>2, FS_EmptySet
  <2> QED BY <1>3, <2>1, EmptySeq DEF SearchInv
<1>5. /\ Front(path) \in Seq(Name) /\ top \in Name
      /\ Len(path) \in Nat \ {0} /\ DOMAIN path = 1 .. Len(path)
      /\ Len(Front(path)) = Len(path) - 1
      /\ DOMAIN Front(path) = 1 .. (Len(path) - 1)
      /\ \A k \in 1 .. (Len(path) - 1) : Front(path)[k] = path[k]
      /\ top = path[Len(path)]
      /\ IsInjective(Front(path)) /\ top \notin ToSet(Front(path))
  BY <1>3, <1>4, FrontProps DEF SearchInv
<1> HIDE DEF top
<1>6. top \in dirty \ seen /\ mark[top] = "temporary"
  <2>1. Len(path) \in DOMAIN path
    BY <1>5
  <2> QED BY <1>3, <1>5, <2>1 DEF SearchInv
<1>7. top \notin ToSet(buildQueue)
  BY <1>3, <1>6 DEF SearchInv, ToSet
<1>8. /\ buildQueue' \in Seq(Name) /\ DOMAIN buildQueue' = 1 .. (Len(buildQueue) + 1)
      /\ \A k \in 1 .. Len(buildQueue) : buildQueue'[k] = buildQueue[k]
      /\ buildQueue'[Len(buildQueue) + 1] = top /\ IsInjective(buildQueue')
      /\ Len(buildQueue) \in Nat /\ DOMAIN buildQueue = 1 .. Len(buildQueue)
  BY <1>1, <1>3, <1>5, <1>7, AppendProps, LenProperties DEF SearchInv
<1>9. ParseTypeOK'
  BY <1>1, <1>2, <1>3, <1>5, <1>8 DEF ParseTypeOK, graph
<1>10. SearchInv'
  <2>1. Cardinality(Markers(stack')) = Len(path')
    BY <1>1, <1>2, <1>3, <1>5, FS_RemoveElement DEF SearchInv
  <2>2. ASSUME NEW k \in DOMAIN stack', stack'[k] # Marker
        PROVE  stack'[k] \in dirty' \ seen'
    <3>1. k \in DOMAIN stack /\ stack'[k] = stack[k]
      BY <1>1, <1>2
    <3> QED BY <1>1, <1>3, <2>2, <3>1 DEF SearchInv, graph
  <2>3. ASSUME NEW k \in DOMAIN path'
        PROVE  path'[k] \in dirty' \ seen' /\ mark'[path'[k]] = "temporary"
    <3>1. k \in DOMAIN path /\ path'[k] = path[k]
      BY <1>1, <1>5
    <3>2. path[k] # top
      BY <1>1, <1>5, <3>1 DEF ToSet
    <3>3. path[k] \in dirty \ seen /\ mark[path[k]] = "temporary"
      BY <1>3, <3>1 DEF SearchInv
    <3> QED BY <1>1, <1>3, <1>5, <3>1, <3>2, <3>3 DEF graph
  <2>4. ASSUME NEW k \in DOMAIN buildQueue'
        PROVE  buildQueue'[k] \in dirty' \ seen' /\ mark'[buildQueue'[k]] = "permanent"
    <3>1. CASE k \in DOMAIN buildQueue
      <4>1. /\ buildQueue'[k] = buildQueue[k]
            /\ buildQueue[k] \in dirty \ seen /\ mark[buildQueue[k]] = "permanent"
        BY <1>3, <1>8, <3>1 DEF SearchInv
      <4> QED BY <1>1, <1>3, <1>5, <4>1 DEF graph
    <3>2. CASE k = Len(buildQueue) + 1
      BY <1>1, <1>3, <1>5, <1>6, <1>8, <3>2 DEF graph
    <3> QED BY <1>8, <3>1, <3>2
  <2> QED BY <1>1, <1>5, <1>8, <2>1, <2>2, <2>3, <2>4 DEF SearchInv
<1>11. /\ Item' \subseteq dirty' /\ Item' \subseteq seen' /\ IsInjective(items')
       /\ seen' \subseteq Item' \cup (Name \ dirty')
  BY <1>1, Searching DEF graph, Item
<1> QED BY <1>9, <1>10, <1>11, SearchFrame

\* The modules of a search become items.
LEMMA AddItemsStep ==
  ASSUME IInv, Search, AddBuildQueueItems
  PROVE  IInv'
<1>1. /\ pc = "parse" /\ stack = <<>> /\ roots # <<>>
      /\ items' = items \o buildQueue
      /\ cycles' = [n \in Name |-> IF cyclic /\ n \in ToSet(buildQueue)
                                   THEN RequireCycles(n) ELSE cycles[n]]
      /\ seen' = seen \cup ToSet(buildQueue)
      /\ buildQueue' = <<>> /\ roots' = Tail(roots)
      /\ UNCHANGED <<graph, dependents, stack, path, mark, cyclic>>
  BY DEF Search, AddBuildQueueItems
<1>2. /\ ParseTypeOK /\ SearchInv /\ items \in Seq(Name) /\ buildQueue \in Seq(Name)
      /\ roots \in Seq(Name) /\ path \in Seq(Name) /\ requires \in [Name -> SUBSET Name]
  BY <1>1, Searching DEF ParseTypeOK
<1>3. items' \in Seq(Name) /\ Item' = Item \cup ToSet(buildQueue)
  BY <1>1, <1>2, ConcatProperties, ToSetConcat DEF Item
<1>4. ToSet(buildQueue) \subseteq dirty \ seen /\ ToSet(buildQueue) \subseteq Name
  BY <1>2, ToSetIn DEF SearchInv, ToSet
<1>5. path = <<>>
  <2>1. Markers(stack) = {}
    BY <1>1 DEF Markers
  <2>2. Len(path) = 0
    BY <1>2, <2>1, FS_EmptySet DEF SearchInv
  <2> QED BY <1>2, <2>2, EmptySeq
<1>6. roots' \in Seq(Name)
  BY <1>1, <1>2, HeadTailProperties
<1>7. cycles' \in [Name -> SUBSET Name]
  <2>1. \A n \in Name : RequireCycles(n) \subseteq Name
    BY <1>2 DEF RequireCycles
  <2>2. cycles \in [Name -> SUBSET Name]
    BY <1>2 DEF ParseTypeOK
  <2> QED BY <1>1, <2>1, <2>2
<1>8. ParseTypeOK'
  <2>1. seen' \subseteq Name /\ buildQueue' \in Seq(Name)
    BY <1>1, <1>2, <1>4 DEF ParseTypeOK
  <2> QED BY <1>1, <1>2, <1>3, <1>6, <1>7, <2>1 DEF ParseTypeOK, graph
<1>9. SearchInv'
  <2>1. DOMAIN stack' = {} /\ DOMAIN path' = {} /\ DOMAIN buildQueue' = {}
    BY <1>1, <1>5
  <2> QED BY <1>1, <1>2, <2>1 DEF SearchInv, Markers, IsInjective
<1>10. /\ Item \subseteq dirty /\ Item \subseteq seen /\ IsInjective(items)
       /\ seen \subseteq Item \cup (Name \ dirty)
  BY <1>1, Searching
<1>11. IsInjective(items')
  <2>1. ToSet(items) \cap ToSet(buildQueue) = {}
    BY <1>4, <1>10 DEF Item
  <2> QED BY <1>1, <1>2, <1>10, <2>1, InjectiveConcat DEF SearchInv
<1>12. /\ Item' \subseteq dirty' /\ Item' \subseteq seen'
       /\ seen' \subseteq Item' \cup (Name \ dirty')
  BY <1>1, <1>3, <1>4, <1>10 DEF graph
<1> QED BY <1>8, <1>9, <1>11, <1>12, SearchFrame

\* Every step of the search.
LEMMA SearchStep ==
  ASSUME IInv, Search
  PROVE  IInv'
BY SkipRootStep, BeginRootStep, VisitStep, FoundAgainStep, PostOrderStep, AddItemsStep
   DEF Search, Parse


-----------------------------------------------------------------------------
(* The items                                                                *)

\* A set of naturals has a least one.
LEMMA LeastNat ==
  ASSUME NEW T \in SUBSET Nat, T # {}
  PROVE  \E m \in T : \A k \in T : m <= k
<1> DEFINE R == OpToRel(<, Nat)
<1>1. IsWellFoundedOn(R, Nat)
  BY NatLessThanWellFounded
<1>2. \A x, y \in Nat : <<x, y>> \in R <=> x < y
  BY DEF OpToRel
<1> HIDE DEF R
<1>3. PICK m \in T : \A k \in T : ~ (<<k, m>> \in R)
  BY <1>1, WFMin
<1>4. ASSUME NEW k \in T
      PROVE  m <= k
  <2>1. m \in Nat /\ k \in Nat /\ ~ (<<k, m>> \in R)
    BY <1>3
  <2>2. ~ (k < m)
    BY <1>2, <2>1
  <2> QED BY <2>1, <2>2
<1> QED BY <1>4

\* Whatever is a set of modules is finite.
LEMMA Finite ==
  ASSUME NEW T, T \subseteq Name
  PROVE  IsFiniteSet(T) /\ Cardinality(T) \in Nat /\ (Cardinality(T) = 0 <=> T = {})
BY GraphAssumption, FS_Subset, FS_CardinalityType, FS_EmptySet

\* The cardinality of the union of two sets without a common element.
LEMMA DisjointUnion ==
  ASSUME NEW S, NEW T, IsFiniteSet(S), IsFiniteSet(T), S \cap T = {}
  PROVE  Cardinality(S \cup T) = Cardinality(S) + Cardinality(T)
<1>1. Cardinality(S \cup T) = Cardinality(S) + Cardinality(T) - Cardinality({})
  BY FS_Union
<1>2. Cardinality({}) = 0 /\ Cardinality(S) \in Nat /\ Cardinality(T) \in Nat
  BY FS_EmptySet, FS_CardinalityType
<1> QED BY <1>1, <1>2

\* The items are modules.
LEMMA Items ==
  ASSUME IInv
  PROVE  items \in Seq(Name) /\ Item \subseteq Name /\ IsInjective(items)
         /\ dirty \subseteq Name /\ requires \in [Name -> SUBSET Name]
         /\ task \in [Name -> {"none", "sent", "checked", "pushed", "over"}]
         /\ result \in [Name -> {"none", "ok", "exception", "cancelled"}]
         /\ readyQueueItems \in Seq(Name) /\ Ready \subseteq Name
         /\ Sent \subseteq Name /\ Unhandled \subseteq Name
<1>1. items \in Seq(Name) /\ readyQueueItems \in Seq(Name)
  BY DEF IInv, TypeOK, ParseTypeOK
<1>2. Item \subseteq Name /\ Ready \subseteq Name
  BY <1>1, ToSetIn DEF Item, Ready
<1> QED BY <1>1, <1>2 DEF IInv, TypeOK, ParseTypeOK, ParseInv, Sent, Unhandled

\* There is a first unprocessed item when there is one at all.
LEMMA FirstIsItem ==
  ASSUME items \in Seq(Name), \E n \in Item : task[n] = "none"
  PROVE  FirstUnprocessed \in Item /\ task[FirstUnprocessed] = "none"
<1> DEFINE T == {k \in DOMAIN items : task[items[k]] = "none"}
<1>1. DOMAIN items = 1 .. Len(items) /\ Len(items) \in Nat
  BY LenProperties
<1>2. T \in SUBSET Nat /\ T # {}
  BY <1>1 DEF Item, ToSet
<1>3. PICK m \in T : \A k \in T : m <= k
  BY <1>2, LeastNat
<1>4. ASSUME NEW l \in 1 .. (m - 1)
      PROVE  task[items[l]] # "none"
  <2>1. l \in DOMAIN items /\ ~ (m <= l)
    BY <1>1, <1>2, <1>4
  <2> QED BY <1>3, <2>1
<1>5. \E k \in DOMAIN items : task[items[k]] = "none" /\ \A l \in 1 .. (k - 1) : task[items[l]] # "none"
  BY <1>3, <1>4
<1> QED BY <1>5 DEF FirstUnprocessed, Item, ToSet

\* A step outside of the search that cleans no more than items.
LEMMA ParseFrame ==
  ASSUME IInv, pc' # "parse", UNCHANGED <<requires, dependents, roots, seen, search, items, cycles>>,
         dirty' \subseteq dirty
  PROVE  ParseTypeOK' /\ ParseInv' /\ Item' = Item
<1>1. Item' = Item
  BY DEF Item
<1>2. ParseTypeOK'
  BY DEF IInv, TypeOK, ParseTypeOK, search
<1>3. ParseInv'
  BY <1>1 DEF IInv, ParseInv
<1> QED BY <1>1, <1>2, <1>3

-----------------------------------------------------------------------------
(* The first state, and Frontend::check                                     *)

LEMMA InitInv == Init => IInv
<1> SUFFICES ASSUME Init PROVE IInv
  OBVIOUS
<1>1. ParseTypeOK
  <2>1. /\ requires \in [Name -> SUBSET Name] /\ dirty \subseteq Name /\ roots \in Seq(Name)
    BY GraphAssumption DEF Init, ParseInit
  <2>2. dependents \in [Name -> SUBSET Name]
    BY DEF Init, ParseInit
  <2>3. /\ mark \in [Name -> {"none", "temporary", "permanent"}]
        /\ cycles \in [Name -> SUBSET Name] /\ seen \subseteq Name /\ cyclic \in BOOLEAN
        /\ stack = <<>> /\ path = <<>> /\ buildQueue = <<>> /\ items = <<>>
    BY DEF Init, ParseInit
  <2> QED BY <2>1, <2>2, <2>3 DEF ParseTypeOK
<1>2. TypeOK
  <2>1. /\ task \in [Name -> {"none", "sent", "checked", "pushed", "over"}]
        /\ result \in [Name -> {"none", "ok", "exception", "cancelled"}]
        /\ waits \in [Name -> SUBSET Name] /\ dirtyDependencies \in [Name -> Nat]
    BY DEF Init
  <2>2. readyQueueItems \in Seq(Name) /\ pc = "parse"
    BY DEF Init
  <2> QED BY <1>1, <2>1, <2>2 DEF Init, TypeOK
<1>3. SearchInv
  <2>1. stack = <<>> /\ path = <<>> /\ buildQueue = <<>>
    BY DEF Init, ParseInit
  <2>2. Markers(stack) = {} /\ Len(path) = 0
    BY <2>1 DEF Markers
  <2> QED BY <2>1, <2>2, FS_EmptySet DEF SearchInv, IsInjective
<1>4. /\ Item = {} /\ IsInjective(items) /\ seen = {}
      /\ \A n \in Name : /\ task[n] = "none" /\ result[n] = "none"
                          /\ waits[n] = {} /\ dirtyDependencies[n] = 0
      /\ readyQueueItems = <<>> /\ processing = 0 /\ remaining = 0 /\ pc = "parse"
      /\ nextItems = {} /\ itemWithException = None /\ ~cancelled
  BY DEF Init, ParseInit, Item, ToSet, IsInjective
<1>5. ParseInv
  BY <1>3, <1>4 DEF ParseInv
<1>6. CheckInv
  BY <1>4 DEF CheckInv, Sent, Ended
<1>7. QueueInv
  <2>1. Ready = {} /\ IsInjective(readyQueueItems)
    BY <1>4 DEF Ready, ToSet, IsInjective
  <2> QED BY <1>4, <2>1 DEF QueueInv, Ended
<1> QED BY <1>2, <1>4, <1>5, <1>6, <1>7 DEF IInv, CountsExact

\* Nothing needs a check.
LEMMA NothingToDoStep ==
  ASSUME IInv, NothingToDo
  PROVE  IInv'
<1>1. /\ pc = "parse" /\ pc' = "done" /\ items = <<>>
      /\ UNCHANGED <<parseVars, entry, task, result, queueVars>>
  BY DEF NothingToDo
<1>2. /\ \A n \in Name : task[n] = "none"
      /\ readyQueueItems = <<>> /\ processing = 0 /\ remaining = 0 /\ nextItems = {}
      /\ itemWithException = None /\ ~cancelled
  BY <1>1 DEF IInv, ParseInv
<1>3. Item = {} /\ Ready = {} /\ IsInjective(readyQueueItems)
  BY <1>1, <1>2 DEF Item, Ready, ToSet, IsInjective
<1>4. ParseTypeOK' /\ ParseInv' /\ Item' = Item
  BY <1>1, ParseFrame DEF parseVars, graph
<1>5. TypeOK'
  BY <1>1, <1>4 DEF IInv, TypeOK, queueVars, Ended
<1>6. CheckInv'
  BY <1>1, <1>2, <1>3, <1>4 DEF CheckInv, Sent, Ended, queueVars
<1>7. Unhandled' = {} /\ Sent' = {} /\ Ready' = {}
  BY <1>1, <1>2, <1>3, <1>4 DEF Unhandled, Sent, Ready, queueVars
<1>8. QueueInv'
  BY <1>1, <1>2, <1>3, <1>4, <1>7 DEF QueueInv, Ended, queueVars
<1>9. CountsExact'
  <2>1. /\ {n \in Name : task'[n] \in {"sent", "checked"}} \cup Ready' = {}
        /\ {n \in Item' : task'[n] \in {"none", "sent", "checked"}} \cup Ready' = {}
    BY <1>7 DEF Unhandled, Sent
  <2>2. Len(readyQueueItems') = 0 /\ processing' = 0
    BY <1>1, <1>2 DEF queueVars
  <2>3. remaining' = 0
    BY <1>1, <1>2 DEF queueVars
  <2>4. \A n \in Name : dirtyDependencies'[n] = 0 /\ waits'[n] \cap dirty' = {}
    BY <1>1 DEF IInv, ParseInv, queueVars
  <2> QED BY <1>3, <1>4, <1>7, <2>1, <2>2, <2>3, <2>4, FS_EmptySet DEF CountsExact
<1> QED BY <1>4, <1>5, <1>6, <1>8, <1>9 DEF IInv

\* A call of check is made of the steps of its own.
LEMMA SequentialStep ==
  ASSUME IInv, BeginCheck \/ CheckItem \/ EndCheck
  PROVE  entry = "check"
BY DEF BeginCheck, CheckItem, EndCheck, IInv, TypeOK, QueueInv

LEMMA BeginCheckStep ==
  ASSUME IInv, BeginCheck
  PROVE  IInv'
<1>1. /\ pc = "parse" /\ pc' = "sequential" /\ entry = "check"
      /\ UNCHANGED <<parseVars, entry, task, result, queueVars>>
  BY DEF BeginCheck
<1>2. \A n \in Name : task[n] = "none"
  BY <1>1 DEF IInv, ParseInv
<1>3. ParseTypeOK' /\ ParseInv' /\ Item' = Item
  BY <1>1, ParseFrame DEF parseVars, graph
<1>4. TypeOK'
  BY <1>1, <1>3 DEF IInv, TypeOK, queueVars
<1>5. CheckInv'
  BY <1>1, <1>2, <1>3, Items DEF CheckInv, Sent, Ended
<1> QED BY <1>1, <1>3, <1>4, <1>5 DEF IInv, QueueInv, CountsExact

LEMMA CheckItemStep ==
  ASSUME IInv, CheckItem
  PROVE  IInv'
<1> DEFINE n == FirstUnprocessed
<1>1. pc = "sequential" /\ \E m \in Item : task[m] = "none"
  BY DEF CheckItem
<1>2. PICK r \in {"ok", "exception", "cancelled"} :
         /\ result' = [result EXCEPT ![n] = r]
         /\ task' = [task EXCEPT ![n] = "over"]
         /\ dirty' = IF r = "ok" THEN dirty \ {n} ELSE dirty
         /\ pc' = CASE r = "ok" -> pc [] r = "exception" -> "threw" [] OTHER -> r
  BY DEF CheckItem
<1>3. UNCHANGED <<parsed, queueVars>>
  BY DEF CheckItem
<1>4. n \in Item /\ n \in Name
  BY <1>1, Items, FirstIsItem
<1> HIDE DEF n
<1>5. entry = "check"
  BY SequentialStep
<1>6. dirty' \subseteq dirty
  BY <1>2
<1>7. pc' = IF r = "ok" THEN "sequential" ELSE IF r = "exception" THEN "threw" ELSE "cancelled"
  BY <1>1, <1>2
<1>8. ParseTypeOK' /\ ParseInv' /\ Item' = Item
  BY <1>3, <1>6, <1>7, ParseFrame DEF parsed
<1>9. TypeOK'
  <2>1. /\ result' \in [Name -> {"none", "ok", "exception", "cancelled"}]
        /\ task' \in [Name -> {"none", "sent", "checked", "pushed", "over"}]
    BY <1>2, <1>4, Items
  <2> QED BY <1>3, <1>7, <1>8, <2>1 DEF IInv, TypeOK, queueVars, parsed, Ended
<1>10. CheckInv'
  <2>1. entry' = "check" /\ pc' \in {"sequential", "threw", "cancelled"}
    BY <1>3, <1>5, <1>7 DEF parsed
  <2>2. \A m \in Name : task'[m] \in {"sent", "checked"} => task[m] \in {"sent", "checked"}
    BY <1>2, <1>4, Items
  <2>3. Sent' = {}
    BY <1>5, <2>2 DEF IInv, CheckInv, Sent
  <2>4. ASSUME r = "ok", NEW m \in Item, task'[m] # "none"
        PROVE  m \notin dirty'
    <3>1. task'[m] = IF m = n THEN "over" ELSE task[m]
      BY <1>2, <1>4, Items
    <3> QED BY <1>1, <1>2, <1>5, <2>4, <3>1 DEF IInv, CheckInv
  <2> QED BY <1>7, <1>8, <2>1, <2>3, <2>4 DEF CheckInv, Ended
<1>11. QueueInv' /\ CountsExact'
  BY <1>3, <1>5 DEF parsed, QueueInv, CountsExact
<1> QED BY <1>8, <1>9, <1>10, <1>11 DEF IInv

LEMMA EndCheckStep ==
  ASSUME IInv, EndCheck
  PROVE  IInv'
<1>1. /\ pc = "sequential" /\ pc' = "done" /\ \A n \in Item : task[n] # "none"
      /\ UNCHANGED <<parseVars, entry, task, result, queueVars>>
  BY DEF EndCheck
<1>2. entry = "check"
  BY SequentialStep
<1>3. ParseTypeOK' /\ ParseInv' /\ Item' = Item
  BY <1>1, ParseFrame DEF parseVars, graph
<1>4. TypeOK'
  BY <1>1, <1>3 DEF IInv, TypeOK, queueVars, Ended
<1>5. CheckInv'
  BY <1>1, <1>2, <1>3 DEF IInv, CheckInv, Sent, Ended, parseVars, graph
<1> QED BY <1>1, <1>2, <1>3, <1>4, <1>5 DEF IInv, QueueInv, CountsExact

-----------------------------------------------------------------------------
(* The tasks                                                                *)

\* A task that is sent and not over is one of a running checkQueuedModules.
LEMMA TaskRunning ==
  ASSUME IInv, NEW n \in Name, task[n] \in {"sent", "checked"}
  PROVE  entry = "checkQueuedModules" /\ pc # "parse" /\ pc \notin Ended /\ n \in Item
<1>1. n \in Sent
  BY DEF Sent
<1>2. entry = "checkQueuedModules"
  BY <1>1 DEF IInv, TypeOK, CheckInv
<1>3. pc # "parse"
  BY DEF IInv, ParseInv
<1> QED BY <1>1, <1>2, <1>3 DEF IInv, QueueInv

LEMMA CheckTaskStep ==
  ASSUME IInv, NEW n \in Name, CheckTask(n)
  PROVE  IInv'
<1>1. /\ task[n] = "sent" /\ task' = [task EXCEPT ![n] = "checked"]
      /\ UNCHANGED <<parseVars, entry, pc, queueVars>>
  BY DEF CheckTask
<1>2. PICK r \in {"ok", "exception", "cancelled"} : result' = [result EXCEPT ![n] = r]
  BY DEF CheckTask
<1>3. entry = "checkQueuedModules" /\ pc # "parse" /\ pc \notin Ended /\ n \in Item
  BY <1>1, TaskRunning
<1>4. \A m \in Name : /\ task'[m] = IF m = n THEN "checked" ELSE task[m]
                      /\ result'[m] = IF m = n THEN r ELSE result[m]
  BY <1>1, <1>2, Items
<1>5. ParseTypeOK' /\ ParseInv' /\ Item' = Item
  BY <1>1, <1>3, ParseFrame DEF parseVars, graph
<1>6. TypeOK'
  <2>1. /\ result' \in [Name -> {"none", "ok", "exception", "cancelled"}]
        /\ task' \in [Name -> {"none", "sent", "checked", "pushed", "over"}]
    BY <1>1, <1>2, Items
  <2> QED BY <1>1, <1>5, <2>1 DEF IInv, TypeOK, queueVars, Ended
<1>7. /\ {m \in Name : task'[m] \in {"sent", "checked"}} = Sent
      /\ Sent' = Sent /\ Ready' = Ready /\ Unhandled' = Unhandled
  <2>1. \A m \in Name : task'[m] \in {"sent", "checked"} <=> task[m] \in {"sent", "checked"}
    BY <1>1, <1>4
  <2>2. \A m \in Name : task'[m] \in {"none", "sent", "checked"} <=> task[m] \in {"none", "sent", "checked"}
    BY <1>1, <1>4
  <2>3. Sent' = Sent /\ Ready' = Ready
    BY <1>1, <2>1 DEF Sent, Ready, queueVars
  <2> QED BY <1>5, <2>1, <2>2, <2>3, Items DEF Unhandled, Sent
<1>8. CheckInv'
  BY <1>1, <1>3 DEF CheckInv
<1>9. QueueInv'
  <2>1. QueueInv
    BY DEF IInv
  <2>2. \A m \in Name : task'[m] # "none" => m \in Item'
    BY <1>3, <1>4, <1>5, <2>1 DEF QueueInv
  <2>3. Ready' \subseteq {m \in Name : task'[m] \in {"pushed", "over"}}
    BY <1>1, <1>3, <1>4, <1>7, <2>1 DEF QueueInv
  <2>4. \A m \in Name : task'[m] \in {"checked", "pushed", "over"} => result'[m] # "none"
    BY <1>3, <1>4, <2>1 DEF QueueInv
  <2>5. \A m \in nextItems' : m \in Item' /\ task'[m] = "none"
    BY <1>1, <1>3, <1>4, <1>5, <2>1, Items DEF QueueInv, queueVars
  <2> QED BY <1>1, <1>3, <1>5, <1>7, <2>1, <2>2, <2>3, <2>4, <2>5
          DEF QueueInv, Stopped, parseVars, graph, queueVars
<1>10. CountsExact'
  <2>1. {m \in Item' : task'[m] \in {"none", "sent", "checked"}} \cup Ready' = Unhandled
    BY <1>7 DEF Unhandled
  <2> QED BY <1>1, <1>3, <1>5, <1>7, <2>1
          DEF IInv, CountsExact, Unhandled, Sent, parseVars, graph, queueVars
<1> QED BY <1>5, <1>6, <1>8, <1>9, <1>10 DEF IInv

LEMMA PushReadyStep ==
  ASSUME IInv, NEW n \in Name, PushReady(n)
  PROVE  IInv'
<1>1. /\ task[n] = "checked" /\ task' = [task EXCEPT ![n] = "pushed"]
      /\ readyQueueItems' = Append(readyQueueItems, n)
      /\ UNCHANGED <<parseVars, entry, pc, result, waits, dirtyDependencies, processing,
                     remaining, nextItems, itemWithException, cancelled>>
  BY DEF PushReady
<1>2. entry = "checkQueuedModules" /\ pc # "parse" /\ pc \notin Ended /\ n \in Item
  BY <1>1, TaskRunning
<1>3. \A m \in Name : task'[m] = IF m = n THEN "pushed" ELSE task[m]
  BY <1>1, Items
<1>4. ParseTypeOK' /\ ParseInv' /\ Item' = Item
  BY <1>1, <1>2, ParseFrame DEF parseVars, graph
<1>5. n \notin Ready
  BY <1>1, <1>2 DEF IInv, QueueInv
<1>6. /\ readyQueueItems' \in Seq(Name) /\ Len(readyQueueItems') = Len(readyQueueItems) + 1
      /\ Ready' = Ready \cup {n}
      /\ IsInjective(readyQueueItems) => IsInjective(readyQueueItems')
  BY <1>1, <1>5, Items, AppendProps DEF Ready
<1>7. TypeOK'
  <2>1. task' \in [Name -> {"none", "sent", "checked", "pushed", "over"}]
    BY <1>1, Items
  <2> QED BY <1>1, <1>4, <1>6, <2>1 DEF IInv, TypeOK, Ended
<1>8. /\ Sent' \cup Ready' = Sent \cup Ready /\ Sent' \subseteq Sent /\ Unhandled' = Unhandled
  <2>1. \A m \in Name : task'[m] \in {"sent", "checked"} <=> task[m] \in {"sent", "checked"} /\ m # n
    BY <1>3
  <2>2. \A m \in Name : task'[m] \in {"none", "sent", "checked"}
                          <=> task[m] \in {"none", "sent", "checked"} /\ m # n
    BY <1>3
  <2>3. Sent' = Sent \ {n} /\ n \in Sent
    BY <1>1, <2>1 DEF Sent
  <2>4. {m \in Item : task'[m] \in {"none", "sent", "checked"}}
           = {m \in Item : task[m] \in {"none", "sent", "checked"}} \ {n}
    BY <2>2, Items
  <2>5. n \in {m \in Item : task[m] \in {"none", "sent", "checked"}}
    BY <1>1, <1>2
  <2> QED BY <1>4, <1>6, <2>3, <2>4, <2>5 DEF Unhandled
<1>9. CheckInv'
  BY <1>1, <1>2 DEF CheckInv
<1>10. QueueInv'
  <2>1. QueueInv
    BY DEF IInv
  <2>2. \A m \in Name : task'[m] # "none" => m \in Item'
    BY <1>2, <1>3, <1>4, <2>1 DEF QueueInv
  <2>3. Ready' \subseteq {m \in Name : task'[m] \in {"pushed", "over"}}
    BY <1>2, <1>3, <1>6, <2>1 DEF QueueInv
  <2>4. \A m \in Name : task'[m] \in {"checked", "pushed", "over"} => result'[m] # "none"
    BY <1>1, <1>2, <1>3, <2>1 DEF QueueInv
  <2>5. \A m \in nextItems' : m \in Item' /\ task'[m] = "none"
    BY <1>1, <1>2, <1>3, <1>4, <2>1, Items DEF QueueInv
  <2> QED BY <1>1, <1>2, <1>4, <1>6, <1>8, <2>1, <2>2, <2>3, <2>4, <2>5
          DEF QueueInv, Stopped, parseVars, graph
<1>11. CountsExact'
  <2>1. Len(readyQueueItems) = Cardinality(Ready) /\ Cardinality(Ready') = Cardinality(Ready) + 1
    BY <1>2, <1>5, <1>6, Items, Finite, FS_AddElement DEF IInv, CountsExact
  <2>2. {m \in Name : task'[m] \in {"sent", "checked"}} \cup Ready' = Sent \cup Ready
    BY <1>8 DEF Sent
  <2>3. {m \in Item' : task'[m] \in {"none", "sent", "checked"}} \cup Ready' = Unhandled
    BY <1>8 DEF Unhandled
  <2> QED BY <1>1, <1>2, <1>4, <1>6, <2>1, <2>2, <2>3
          DEF IInv, CountsExact, Unhandled, Sent, parseVars, graph
<1> QED BY <1>4, <1>7, <1>9, <1>10, <1>11 DEF IInv

LEMMA NotifyOneStep ==
  ASSUME IInv, NEW n \in Name, NotifyOne(n)
  PROVE  IInv'
<1>1. /\ task[n] = "pushed" /\ task' = [task EXCEPT ![n] = "over"]
      /\ pc' = IF pc = "waiting" THEN "loop" ELSE pc
      /\ UNCHANGED <<parseVars, entry, result, queueVars>>
  BY DEF NotifyOne
<1>2. pc # "parse" /\ pc' # "parse"
  BY <1>1 DEF IInv, ParseInv
<1>3. \A m \in Name : task'[m] = IF m = n THEN "over" ELSE task[m]
  BY <1>1, Items
<1>4. ParseTypeOK' /\ ParseInv' /\ Item' = Item
  BY <1>1, <1>2, ParseFrame DEF parseVars, graph
<1>5. TypeOK'
  <2>1. task' \in [Name -> {"none", "sent", "checked", "pushed", "over"}]
    BY <1>1, Items
  <2> QED BY <1>1, <1>4, <2>1 DEF IInv, TypeOK, queueVars, Ended
<1>6. /\ {m \in Name : task'[m] \in {"sent", "checked"}} = Sent
      /\ Sent' = Sent /\ Ready' = Ready /\ Unhandled' = Unhandled
  <2>1. \A m \in Name : task'[m] \in {"sent", "checked"} <=> task[m] \in {"sent", "checked"}
    BY <1>1, <1>3
  <2>2. \A m \in Name : task'[m] \in {"none", "sent", "checked"} <=> task[m] \in {"none", "sent", "checked"}
    BY <1>1, <1>3
  <2>3. Sent' = Sent /\ Ready' = Ready
    BY <1>1, <2>1 DEF Sent, Ready, queueVars
  <2> QED BY <1>4, <2>1, <2>2, <2>3, Items DEF Unhandled, Sent
<1>7. CheckInv'
  <2>1. CheckInv
    BY DEF IInv
  <2>2. entry = "check" => pc' = pc
    BY <1>1, <2>1 DEF CheckInv, Ended
  <2>3. \A m \in Item : task'[m] # "none" => task[m] # "none"
    BY <1>1, <1>3, Items
  <2> QED BY <1>1, <1>4, <1>6, <2>1, <2>2, <2>3 DEF CheckInv, parseVars, graph
<1>8. QueueInv'
  <2> SUFFICES ASSUME entry = "checkQueuedModules" PROVE QueueInv'
    BY <1>1 DEF QueueInv
  <2>1. QueueInv
    BY DEF IInv
  <2>2. \A m \in Name : task'[m] # "none" => m \in Item'
    BY <1>1, <1>3, <1>4, <2>1 DEF QueueInv
  <2>3. Ready' \subseteq {m \in Name : task'[m] \in {"pushed", "over"}}
    BY <1>3, <1>6, <2>1 DEF QueueInv
  <2>4. \A m \in Name : task'[m] \in {"checked", "pushed", "over"} => result'[m] # "none"
    BY <1>1, <1>3, <2>1 DEF QueueInv
  <2>5. \A m \in nextItems' : m \in Item' /\ task'[m] = "none"
    BY <1>1, <1>3, <1>4, <2>1, Items DEF QueueInv, queueVars
  <2>6. pc' # "sequential" /\ (pc' \in Ended => pc \in Ended) /\ (pc' = "done" => pc = "done")
        /\ (pc' \in {"loop", "waiting"} => pc \in {"loop", "waiting"})
        /\ (pc' # "progress" => pc # "progress")
    BY <1>1, <2>1 DEF QueueInv, Ended
  <2> QED BY <1>1, <1>2, <1>4, <1>6, <2>1, <2>2, <2>3, <2>4, <2>5, <2>6
          DEF QueueInv, Stopped, parseVars, graph, queueVars
<1>9. CountsExact'
  <2>1. {m \in Item' : task'[m] \in {"none", "sent", "checked"}} \cup Ready' = Unhandled
    BY <1>6 DEF Unhandled
  <2> QED BY <1>1, <1>2, <1>4, <1>6, <2>1
          DEF IInv, CountsExact, Unhandled, Sent, parseVars, graph, queueVars
<1> QED BY <1>4, <1>5, <1>7, <1>8, <1>9 DEF IInv

-----------------------------------------------------------------------------
(* The main thread of Frontend::checkQueuedModules                          *)

\* The main thread waits, wakes, or finds that nothing remains.
LEMMA WaitStep ==
  ASSUME IInv, Wait \/ SpuriousWake \/ EndQueue
  PROVE  IInv'
<1>1. /\ UNCHANGED <<parseVars, entry, task, result, queueVars>>
      /\ \/ pc = "loop" /\ pc' = "waiting"
         \/ pc = "waiting" /\ pc' = "loop"
         \/ pc = "loop" /\ pc' = "done" /\ remaining = 0
  BY DEF Wait, WaitWhen, SpuriousWake, EndQueue
<1>2. entry = "checkQueuedModules"
  BY <1>1 DEF IInv, TypeOK, CheckInv, Ended
<1>3. ParseTypeOK' /\ ParseInv' /\ Item' = Item
  BY <1>1, ParseFrame DEF parseVars, graph
<1>4. TypeOK'
  BY <1>1, <1>3 DEF IInv, TypeOK, queueVars, Ended
<1>5. CheckInv'
  BY <1>1, <1>2 DEF CheckInv
<1>6. Sent' = Sent /\ Ready' = Ready /\ Unhandled' = Unhandled
  BY <1>1, <1>3 DEF Sent, Ready, Unhandled, queueVars
<1>7. CountsExact'
  BY <1>1, <1>2, <1>3, <1>6 DEF IInv, CountsExact, parseVars, graph, queueVars
<1>8. pc' = "done" => Unhandled = {}
  BY <1>1, <1>2, Items, Finite DEF IInv, CountsExact, Unhandled
<1>9. QueueInv'
  <2>1. QueueInv
    BY DEF IInv
  <2>2. pc' = "done" => ~Stopped /\ Sent = {} /\ Item \cap dirty = {}
    <3>1. \A m \in Sent : m \in Unhandled
      BY <1>2, <2>1 DEF QueueInv, Sent, Unhandled
    <3> QED BY <1>1, <1>2, <1>8, <2>1, <3>1 DEF QueueInv
  <2> QED BY <1>1, <1>2, <1>3, <1>6, <2>1, <2>2
          DEF QueueInv, Stopped, Ended, parseVars, graph, queueVars
<1> QED BY <1>3, <1>4, <1>5, <1>7, <1>9 DEF IInv

\* Items that were not sent before are sent.
LEMMA Sending ==
  ASSUME IInv, NEW S, S \subseteq Item, \A n \in S : task[n] = "none",
         S \cap Ready = {}, processing = Cardinality(Sent \cup Ready),
         SendQueueItemTasks(S), readyQueueItems' = readyQueueItems, items' = items
  PROVE  /\ task' \in [Name -> {"none", "sent", "checked", "pushed", "over"}]
         /\ \A n \in Name : task'[n] = IF n \in S THEN "sent" ELSE task[n]
         /\ processing' \in Nat
         /\ {n \in Name : task'[n] \in {"sent", "checked"}} = Sent \cup S
         /\ processing' = Cardinality(Sent \cup S \cup Ready)
         /\ Ready' = Ready /\ Unhandled' = Unhandled
         /\ \A n \in Name : task'[n] \in {"checked", "pushed", "over"} <=> 
                              task[n] \in {"checked", "pushed", "over"}
<1>1. S \subseteq Name
  BY Items
<1>2. \A n \in Name : task'[n] = IF n \in S THEN "sent" ELSE task[n]
  BY DEF SendQueueItemTasks
<1>3. task' \in [Name -> {"none", "sent", "checked", "pushed", "over"}]
  BY Items DEF SendQueueItemTasks
<1>4. {n \in Name : task'[n] \in {"sent", "checked"}} = Sent \cup S
  BY <1>1, <1>2 DEF Sent
<1>5. Ready' = Ready /\ Unhandled' = Unhandled
  <2>1. Ready' = Ready /\ Item' = Item
    BY DEF Ready, Item
  <2>2. \A n \in Name : task'[n] \in {"none", "sent", "checked"} <=> task[n] \in {"none", "sent", "checked"}
    BY <1>2
  <2> QED BY <2>1, <2>2, Items DEF Unhandled
<1>6. processing' = Cardinality(Sent \cup S \cup Ready) /\ processing' \in Nat
  <2>1. Sent \cup Ready \subseteq Name /\ IsFiniteSet(Sent \cup Ready) /\ IsFiniteSet(S)
    BY <1>1, Items, Finite
  <2>2. (Sent \cup Ready) \cap S = {}
    BY DEF Sent
  <2>3. Cardinality((Sent \cup Ready) \cup S) = Cardinality(Sent \cup Ready) + Cardinality(S)
    BY <2>1, <2>2, DisjointUnion
  <2>4. (Sent \cup Ready) \cup S = Sent \cup S \cup Ready
    OBVIOUS
  <2>5. Cardinality(Sent \cup Ready) \in Nat /\ Cardinality(S) \in Nat
    BY <2>1, FS_CardinalityType
  <2>6. processing' = Cardinality(Sent \cup Ready) + Cardinality(S)
    BY DEF SendQueueItemTasks
  <2> QED BY <2>3, <2>4, <2>5, <2>6
<1>7. \A n \in Name : task'[n] \in {"checked", "pushed", "over"} <=>
                        task[n] \in {"checked", "pushed", "over"}
  BY <1>2
<1> QED BY <1>2, <1>3, <1>4, <1>5, <1>6, <1>7

\* Where a call is that has dealt with a batch.
LEMMA AtProgress ==
  ASSUME IInv, pc = "progress"
  PROVE  /\ entry = "checkQueuedModules"
         /\ \A n \in Name : dirtyDependencies[n] = Cardinality(waits[n] \cap dirty)
         /\ processing = Cardinality(Sent \cup Ready) /\ remaining = Cardinality(Unhandled)
         /\ Len(readyQueueItems) = Cardinality(Ready)
         /\ \A n \in Name : task[n] # "none" => n \in Item
         /\ Ready \subseteq {n \in Name : task[n] \in {"pushed", "over"}}
         /\ \A n \in nextItems : n \in Item /\ task[n] = "none"
         /\ Unhandled \subseteq dirty /\ (~Stopped => Unhandled = Item \cap dirty)
<1>1. entry = "checkQueuedModules"
  BY DEF IInv, TypeOK, CheckInv, Ended
<1> QED BY <1>1 DEF IInv, QueueInv, CountsExact, Sent, Unhandled

\* After a batch, items are sent and the loop goes on.
LEMMA ResumeStep ==
  ASSUME IInv, CallProgress, NEW S, S \subseteq Item, S # {}, \A n \in S : task[n] = "none",
         SendQueueItemTasks(S), nextItems' = {}, pc' = "loop",
         UNCHANGED <<parseVars, entry, result, waits, dirtyDependencies, readyQueueItems,
                     remaining, itemWithException>>
  PROVE  IInv'
<1>1. pc = "progress" /\ cancelled' \in BOOLEAN /\ (cancelled => cancelled')
  BY DEF CallProgress, IInv, TypeOK
<1>2. /\ entry = "checkQueuedModules"
      /\ \A n \in Name : dirtyDependencies[n] = Cardinality(waits[n] \cap dirty)
      /\ processing = Cardinality(Sent \cup Ready) /\ remaining = Cardinality(Unhandled)
      /\ Len(readyQueueItems) = Cardinality(Ready)
      /\ \A n \in Name : task[n] # "none" => n \in Item
      /\ Ready \subseteq {n \in Name : task[n] \in {"pushed", "over"}}
      /\ Unhandled \subseteq dirty /\ (~Stopped => Unhandled = Item \cap dirty)
  BY <1>1, AtProgress
<1>3. S \cap Ready = {}
  BY <1>2
<1>4. ParseTypeOK' /\ ParseInv' /\ Item' = Item
  BY ParseFrame DEF parseVars, graph
<1>5. items' = items /\ readyQueueItems' = readyQueueItems
  BY DEF parseVars
<1>6. /\ task' \in [Name -> {"none", "sent", "checked", "pushed", "over"}]
      /\ \A n \in Name : task'[n] = IF n \in S THEN "sent" ELSE task[n]
      /\ processing' \in Nat
      /\ {n \in Name : task'[n] \in {"sent", "checked"}} = Sent \cup S
      /\ processing' = Cardinality(Sent \cup S \cup Ready)
      /\ Ready' = Ready /\ Unhandled' = Unhandled
      /\ \A n \in Name : task'[n] \in {"checked", "pushed", "over"} <=>
                           task[n] \in {"checked", "pushed", "over"}
  BY <1>2, <1>3, <1>5, Sending
<1>7. TypeOK'
  BY <1>1, <1>4, <1>6 DEF IInv, TypeOK
<1>8. CheckInv'
  BY <1>2 DEF CheckInv
<1>9. CountsExact'
  <2>1. {n \in Item' : task'[n] \in {"none", "sent", "checked"}} \cup Ready' = Unhandled
    BY <1>6 DEF Unhandled
  <2>2. {n \in Name : task'[n] \in {"sent", "checked"}} \cup Ready' = Sent \cup S \cup Ready
    BY <1>6
  <2> QED BY <1>2, <1>4, <1>6, <2>1, <2>2 DEF CountsExact, parseVars, graph
<1>10. QueueInv'
  <2>1. QueueInv
    BY DEF IInv
  <2>2. \A n \in Name : task'[n] # "none" => n \in Item'
    BY <1>2, <1>4, <1>6
  <2>3. Ready' \subseteq {n \in Name : task'[n] \in {"pushed", "over"}}
    BY <1>2, <1>3, <1>6
  <2>4. \A n \in Name : task'[n] \in {"checked", "pushed", "over"} => result'[n] # "none"
    BY <1>2, <1>6, <2>1 DEF QueueInv
  <2>5. Unhandled # {}
    BY Items DEF Unhandled
  <2>6. IsInjective(readyQueueItems)
    BY <1>2, <2>1 DEF QueueInv
  <2>7. ~Stopped' => ~Stopped
    BY <1>1 DEF Stopped
  <2> QED BY <1>2, <1>4, <1>6, <2>2, <2>3, <2>4, <2>5, <2>6, <2>7
          DEF QueueInv, Ended, parseVars, graph
<1> QED BY <1>4, <1>7, <1>8, <1>9, <1>10 DEF IInv

\* The items that were unlocked are sent.
LEMMA SendNextStep ==
  ASSUME IInv, SendNext
  PROVE  IInv'
<1>1. pc = "progress"
  BY DEF SendNext, CallProgress
<1>2. nextItems \subseteq Item /\ \A n \in nextItems : task[n] = "none"
  BY <1>1, AtProgress
<1> QED BY <1>2, ResumeStep DEF SendNext

\* The first item that is left breaks a cycle.
LEMMA BreakCycleStep ==
  ASSUME IInv, BreakCycle
  PROVE  IInv'
<1>1. pc = "progress" /\ processing = 0 /\ remaining # 0 /\ nextItems = {}
  BY DEF BreakCycle, CallProgress
<1>2. Sent \cup Ready = {} /\ Unhandled # {}
  <2>1. Sent \cup Ready \subseteq Name
    BY Items
  <2> QED BY <1>1, <2>1, AtProgress, Items, Finite
<1>3. \E n \in Item : task[n] = "none"
  BY <1>2, Items DEF Unhandled, Sent
<1>4. FirstUnprocessed \in Item /\ task[FirstUnprocessed] = "none"
  BY <1>3, Items, FirstIsItem
<1> QED BY <1>1, <1>4, ResumeStep DEF BreakCycle

\* After a batch, the call goes on without sending anything, or ends.
LEMMA ProceedStep ==
  ASSUME IInv, NEW condition \in BOOLEAN, NEW next \in {"loop", "cancelled", "threw"},
         Proceed(condition, next),
         next = "loop" => processing # 0 \/ ~Stopped',
         next # "loop" => processing = 0
  PROVE  IInv'
<1>1. /\ pc = "progress" /\ cancelled' \in BOOLEAN /\ (cancelled => cancelled')
      /\ nextItems = {} /\ pc' = next
      /\ UNCHANGED <<parseVars, entry, task, result, waits, dirtyDependencies,
                     readyQueueItems, processing, remaining, nextItems, itemWithException>>
  BY DEF Proceed, CallProgress, IInv, TypeOK
<1>2. /\ entry = "checkQueuedModules"
      /\ \A n \in Name : dirtyDependencies[n] = Cardinality(waits[n] \cap dirty)
      /\ processing = Cardinality(Sent \cup Ready) /\ remaining = Cardinality(Unhandled)
      /\ Unhandled \subseteq dirty /\ (~Stopped => Unhandled = Item \cap dirty)
  BY <1>1, AtProgress
<1>3. ParseTypeOK' /\ ParseInv' /\ Item' = Item
  BY <1>1, ParseFrame DEF parseVars, graph
<1>4. TypeOK'
  BY <1>1, <1>3 DEF IInv, TypeOK, Ended
<1>5. CheckInv'
  BY <1>1, <1>2 DEF CheckInv
<1>6. Sent' = Sent /\ Ready' = Ready /\ Unhandled' = Unhandled
  BY <1>1, <1>3 DEF Sent, Ready, Unhandled
<1>7. CountsExact'
  BY <1>1, <1>2, <1>3, <1>6 DEF IInv, CountsExact, parseVars, graph
<1>8. /\ processing = 0 => Sent = {}
      /\ processing # 0 => Unhandled # {}
  <2>1. QueueInv
    BY DEF IInv
  <2>2. Sent \cup Ready \subseteq Name /\ Sent \cup Ready \subseteq Unhandled
    BY <1>2, <2>1, Items DEF QueueInv, Sent, Unhandled
  <2> QED BY <1>2, <2>2, Finite
<1>9. QueueInv'
  <2>1. QueueInv
    BY DEF IInv
  <2>2. ~Stopped' => ~Stopped
    BY <1>1 DEF Stopped
  <2>3. pc' = "loop" /\ Stopped' => Unhandled' # {}
    BY <1>1, <1>6, <1>8
  <2>4. pc' \in Ended => Sent' = {}
    BY <1>1, <1>6, <1>8 DEF Ended
  <2> QED BY <1>1, <1>2, <1>3, <1>6, <2>1, <2>2, <2>3, <2>4 DEF QueueInv, parseVars, graph
<1> QED BY <1>3, <1>4, <1>5, <1>7, <1>9 DEF IInv

LEMMA KeepGoingStep ==
  ASSUME IInv, KeepGoing
  PROVE  IInv'
<1> DEFINE condition == processing # 0 \/ (remaining = 0 /\ itemWithException = None /\ ~cancelled')
<1>1. Proceed(condition, "loop")
  BY DEF KeepGoing
<1>2. condition /\ itemWithException' = itemWithException
  BY <1>1 DEF Proceed
<1>3. processing # 0 \/ ~Stopped'
  BY <1>2 DEF Stopped
<1> HIDE DEF condition
<1> QED BY <1>1, <1>2, <1>3, ProceedStep

LEMMA CancelStep ==
  ASSUME IInv, Cancel
  PROVE  IInv'
<1> DEFINE condition == processing = 0 /\ cancelled'
<1>1. Proceed(condition, "cancelled")
  BY DEF Cancel
<1>2. condition /\ processing = 0
  BY <1>1 DEF Proceed
<1> HIDE DEF condition
<1> QED BY <1>1, <1>2, ProceedStep

LEMMA ThrowStep ==
  ASSUME IInv, Throw
  PROVE  IInv'
<1> DEFINE condition == processing = 0 /\ itemWithException # None /\ ~cancelled'
<1>1. Proceed(condition, "threw")
  BY DEF Throw, ThrowWhen
<1>2. condition /\ processing = 0
  BY <1>1 DEF Proceed
<1> HIDE DEF condition
<1> QED BY <1>1, <1>2, ProceedStep

\* The first items are sent.
LEMMA BeginQueueStep ==
  ASSUME IInv, BeginQueue
  PROVE  IInv'
<1> DEFINE free == {n \in Item : waits'[n] = {}}
           S == IF free # {} THEN free ELSE {FirstUnprocessed}
<1>1. /\ pc = "parse" /\ items # <<>> /\ entry = "checkQueuedModules" /\ pc' = "loop"
      /\ waits' = [n \in Name |-> IF n \in Item THEN requires[n] \cap dirty ELSE {}]
      /\ dirtyDependencies' = [n \in Name |-> Cardinality(waits'[n])]
      /\ remaining' = Len(items)
      /\ SendQueueItemTasks(S)
      /\ UNCHANGED <<parseVars, entry, result, readyQueueItems, nextItems,
                     itemWithException, cancelled>>
  BY DEF BeginQueue
<1>2. /\ \A n \in Name : task[n] = "none"
      /\ readyQueueItems = <<>> /\ processing = 0
      /\ nextItems = {} /\ itemWithException = None /\ ~cancelled /\ Item \subseteq dirty
  BY <1>1 DEF IInv, ParseInv
<1>3. Ready = {} /\ Sent = {} /\ IsInjective(readyQueueItems) /\ Len(readyQueueItems) = 0
  BY <1>2 DEF Ready, Sent, ToSet, IsInjective
<1>4. Unhandled = Item
  BY <1>2, <1>3, Items DEF Unhandled
<1>5. \E n \in Item : task[n] = "none"
  <2>1. 1 \in DOMAIN items
    BY <1>1, Items, EmptySeq, LenProperties
  <2> QED BY <1>2, <2>1, Items DEF Item, ToSet
<1>6. FirstUnprocessed \in Item
  BY <1>5, Items, FirstIsItem
<1>7. S \subseteq Item
  BY <1>6
<1> HIDE DEF S
<1>8. ParseTypeOK' /\ ParseInv' /\ Item' = Item /\ items' = items /\ dirty' = dirty
  BY <1>1, ParseFrame DEF parseVars, graph
<1>9. /\ \A n \in S : task[n] = "none"
      /\ S \cap Ready = {} /\ processing = Cardinality(Sent \cup Ready)
  <2>1. processing = Cardinality({})
    BY <1>2, FS_EmptySet
  <2>2. Sent \cup Ready = {}
    BY <1>3
  <2> QED BY <1>2, <1>3, <1>7, <2>1, <2>2, Items
<1>10. /\ task' \in [Name -> {"none", "sent", "checked", "pushed", "over"}]
       /\ \A n \in Name : task'[n] = IF n \in S THEN "sent" ELSE task[n]
       /\ processing' \in Nat
       /\ {n \in Name : task'[n] \in {"sent", "checked"}} = Sent \cup S
       /\ processing' = Cardinality(Sent \cup S \cup Ready)
       /\ Ready' = Ready /\ Unhandled' = Unhandled
       /\ \A n \in Name : task'[n] \in {"checked", "pushed", "over"} <=>
                            task[n] \in {"checked", "pushed", "over"}
  <2>1. readyQueueItems' = readyQueueItems
    BY <1>1
  <2> QED BY <1>1, <1>7, <1>8, <1>9, <2>1, Sending
<1>11. remaining' = Cardinality(Item) /\ remaining' \in Nat
  BY <1>1, Items, Finite, InjectiveLength DEF Item
<1>12. /\ waits' \in [Name -> SUBSET Name] /\ dirtyDependencies' \in [Name -> Nat]
       /\ \A n \in Name : dirtyDependencies'[n] = Cardinality(waits'[n] \cap dirty)
  <2>1. \A n \in Name : waits'[n] \subseteq Name /\ waits'[n] \cap dirty = waits'[n]
    BY <1>1, Items
  <2>2. \A n \in Name : Cardinality(waits'[n]) \in Nat
    BY <2>1, Finite
  <2>3. waits' \in [Name -> SUBSET Name]
    BY <1>1, Items
  <2> QED BY <1>1, <2>1, <2>2, <2>3, Items
<1>13. TypeOK'
  BY <1>1, <1>8, <1>10, <1>11, <1>12 DEF IInv, TypeOK
<1>14. CheckInv'
  BY <1>1 DEF CheckInv
<1>15. CountsExact'
  <2>1. {n \in Item' : task'[n] \in {"none", "sent", "checked"}} \cup Ready' = Unhandled
    BY <1>10 DEF Unhandled
  <2>2. {n \in Name : task'[n] \in {"sent", "checked"}} \cup Ready' = Sent \cup S \cup Ready
    BY <1>10
  <2>3. Len(readyQueueItems') = Cardinality(Ready')
    BY <1>1, <1>3, <1>10, FS_EmptySet
  <2> QED BY <1>4, <1>8, <1>10, <1>11, <1>12, <2>1, <2>2, <2>3 DEF CountsExact
<1>16. QueueInv'
  <2>1. \A n \in Name : task'[n] # "none" => n \in Item'
    BY <1>2, <1>7, <1>8, <1>10
  <2>2. Ready' = {} /\ Unhandled' = Item
    BY <1>3, <1>4, <1>10
  <2>3. \A n \in Name : task'[n] \in {"checked", "pushed", "over"} => result'[n] # "none"
    BY <1>2, <1>10
  <2>4. ~Stopped' /\ nextItems' = {} /\ IsInjective(readyQueueItems')
    BY <1>1, <1>2, <1>3 DEF Stopped
  <2>5. Item \cap dirty = Item
    BY <1>2
  <2> QED BY <1>1, <1>2, <1>8, <2>1, <2>2, <2>3, <2>4, <2>5 DEF QueueInv, Ended
<1> QED BY <1>8, <1>13, <1>14, <1>15, <1>16 DEF IInv

\* What a batch records: all of it, unless it stops.
LEMMA Recording ==
  ASSUME IInv, HandleReady
  PROVE  /\ Recorded \subseteq Ready
         /\ Stopped => Stopped'
         /\ ~Stopped' => Recorded = Ready
         /\ itemWithException' \in Name \cup {None} /\ cancelled' \in BOOLEAN
<1> DEFINE reached == {readyQueueItems[k] : k \in Handled}
           threw == {n \in reached : result[n] = "exception"}
<1>1. /\ itemWithException' = IF threw = {} THEN itemWithException ELSE CHOOSE n \in threw : TRUE
      /\ cancelled' = (cancelled \/ \E n \in reached : result[n] = "cancelled")
      /\ pc = "loop"
  BY DEF HandleReady, Batch
<1>2. /\ DOMAIN readyQueueItems = 1 .. Len(readyQueueItems) /\ Len(readyQueueItems) \in Nat
      /\ Handled \subseteq DOMAIN readyQueueItems
  BY Items, LenProperties DEF Handled
<1>3. reached \subseteq Ready /\ Ready \subseteq Name /\ Recorded \subseteq Ready
  BY <1>2, Items DEF Ready, ToSet, Recorded
<1>4. threw # {} => itemWithException' \in threw
  BY <1>1
<1>5. threw \subseteq Name /\ None \notin threw
  BY <1>3, NoneAssumption
<1>6. Stopped => Stopped'
  BY <1>1, <1>4, <1>5 DEF Stopped
<1>7. /\ itemWithException' \in Name \cup {None} /\ cancelled' \in BOOLEAN
  BY <1>1, <1>4, <1>5 DEF IInv, TypeOK
<1>8. ASSUME ~Stopped', NEW k \in DOMAIN readyQueueItems
      PROVE  ~Stops(k)
  <2> SUFFICES ASSUME Stops(k) PROVE FALSE
    OBVIOUS
  <2> DEFINE T == {l \in DOMAIN readyQueueItems : Stops(l)}
  <2>1. T \in SUBSET Nat /\ k \in T
    BY <1>2
  <2> HIDE DEF T
  <2>2. PICK m \in T : \A l \in T : m <= l
    BY <2>1, LeastNat
  <2>3. m \in DOMAIN readyQueueItems /\ Stops(m) /\ m \in Nat
    BY <1>2, <2>2 DEF T
  <2>4. ASSUME NEW l \in 1 .. (m - 1)
        PROVE  ~Stops(l)
    <3>1. l \in DOMAIN readyQueueItems /\ ~ (m <= l)
      BY <1>2, <2>3, <2>4
    <3> QED BY <2>2, <3>1 DEF T
  <2>5. m \in Handled
    BY <2>3, <2>4 DEF Handled
  <2> DEFINE n == readyQueueItems[m]
  <2>6. n \in reached /\ n \in Ready /\ n \in Name
    BY <1>3, <2>5
  <2>7. ~Stopped
    BY <1>6, <1>8
  <2>8. result[n] # "ok"
    BY <2>3, <2>7 DEF Stops, Stopped
  <2>9. result[n] # "none"
    <3>1. entry = "checkQueuedModules"
      BY <1>1 DEF IInv, TypeOK, CheckInv, Ended
    <3>2. task[n] \in {"pushed", "over"}
      BY <2>6, <3>1 DEF IInv, QueueInv
    <3> QED BY <2>6, <3>1, <3>2 DEF IInv, QueueInv
  <2>10. result[n] = "exception" \/ result[n] = "cancelled"
    BY <2>6, <2>8, <2>9, Items
  <2>11. CASE result[n] = "exception"
    BY <1>4, <1>5, <1>8, <2>6, <2>11 DEF Stopped
  <2>12. CASE result[n] = "cancelled"
    BY <1>1, <1>8, <2>6, <2>12 DEF Stopped
  <2> QED BY <2>10, <2>11, <2>12
<1>9. ASSUME ~Stopped'
      PROVE  Recorded = Ready
  <2>1. \A k \in DOMAIN readyQueueItems : ~Stops(k)
    BY <1>8, <1>9
  <2>2. \A k \in DOMAIN readyQueueItems : k \in Handled
    BY <1>2, <2>1 DEF Handled
  <2>3. \A n \in Ready : n \in Recorded
    BY <2>1, <2>2 DEF Recorded, Ready, ToSet
  <2> QED BY <1>3, <2>3
<1> QED BY <1>3, <1>6, <1>7, <1>9

LEMMA HandleReadyStep ==
  ASSUME IInv, HandleReady
  PROVE  IInv'
<1>1. /\ pc = "loop" /\ pc' = "progress" /\ readyQueueItems # <<>> /\ readyQueueItems' = <<>>
      /\ dirty' = dirty \ Recorded
      /\ dirtyDependencies' =
            [n \in Name |-> dirtyDependencies[n] - Cardinality(waits[n] \cap Recorded)]
      /\ processing' = processing - Len(readyQueueItems)
      /\ remaining' = remaining - Len(readyQueueItems)
      /\ nextItems' = {n \in Notified : dirtyDependencies'[n] = 0}
      /\ UNCHANGED <<parsed, task, result, waits>>
  BY DEF HandleReady, Batch
<1>2. entry = "checkQueuedModules"
  BY <1>1 DEF IInv, TypeOK, CheckInv, Ended
<1>3. /\ Recorded \subseteq Ready /\ (Stopped => Stopped') /\ (~Stopped' => Recorded = Ready)
      /\ itemWithException' \in Name \cup {None} /\ cancelled' \in BOOLEAN
  BY Recording
<1>4. /\ \A n \in Name : dirtyDependencies[n] = Cardinality(waits[n] \cap dirty)
      /\ processing = Cardinality(Sent \cup Ready) /\ remaining = Cardinality(Unhandled)
      /\ Len(readyQueueItems) = Cardinality(Ready)
      /\ \A n \in Name : task[n] # "none" => n \in Item
      /\ Ready \subseteq {n \in Name : task[n] \in {"pushed", "over"}}
      /\ Unhandled \subseteq dirty /\ (~Stopped => Unhandled = Item \cap dirty)
      /\ \A n \in Name : task[n] \in {"checked", "pushed", "over"} => result[n] # "none"
  BY <1>1, <1>2 DEF IInv, CountsExact, QueueInv, Sent, Unhandled
<1>5. Recorded \subseteq dirty /\ dirty' \subseteq dirty
  BY <1>1, <1>3, <1>4 DEF Unhandled
<1>6. ParseTypeOK' /\ ParseInv' /\ Item' = Item
  BY <1>1, <1>5, ParseFrame DEF parsed
<1>7. Ready' = {} /\ IsInjective(readyQueueItems') /\ Len(readyQueueItems') = 0
  BY <1>1 DEF Ready, ToSet, IsInjective
<1>8. /\ Sent \cap Ready = {} /\ Sent' = Sent
      /\ {n \in Name : task'[n] \in {"sent", "checked"}} = Sent
  BY <1>1, <1>4 DEF Sent
<1>9. Unhandled' = Unhandled \ Ready /\ Ready \subseteq Unhandled
  <2>1. {n \in Item : task[n] \in {"none", "sent", "checked"}} \cap Ready = {}
    BY <1>4
  <2> QED BY <1>1, <1>6, <1>7, <2>1 DEF Unhandled
<1>10. processing' = Cardinality(Sent) /\ remaining' = Cardinality(Unhandled')
       /\ processing' \in Nat /\ remaining' \in Nat
  <2>1. IsFiniteSet(Sent) /\ IsFiniteSet(Ready) /\ IsFiniteSet(Unhandled')
        /\ Cardinality(Sent) \in Nat /\ Cardinality(Ready) \in Nat
        /\ Cardinality(Unhandled') \in Nat
    BY <1>9, Items, Finite
  <2>2. Cardinality(Sent \cup Ready) = Cardinality(Sent) + Cardinality(Ready)
    BY <1>8, <2>1, DisjointUnion
  <2>3. Unhandled' \cup Ready = Unhandled /\ Unhandled' \cap Ready = {}
    BY <1>9
  <2>4. Cardinality(Unhandled' \cup Ready) = Cardinality(Unhandled') + Cardinality(Ready)
    BY <2>1, <2>3, DisjointUnion
  <2>5. /\ processing' = Cardinality(Sent \cup Ready) - Cardinality(Ready)
        /\ remaining' = Cardinality(Unhandled' \cup Ready) - Cardinality(Ready)
    BY <1>1, <1>4, <2>3
  <2> QED BY <2>1, <2>2, <2>4, <2>5
<1>11. ASSUME NEW n \in Name
       PROVE  /\ dirtyDependencies'[n] = Cardinality(waits'[n] \cap dirty')
              /\ dirtyDependencies'[n] \in Nat
  <2> DEFINE A == waits[n] \cap dirty'
             B == waits[n] \cap Recorded
  <2>1. A \cup B = waits[n] \cap dirty /\ A \cap B = {} /\ A \subseteq Name /\ B \subseteq Name
    BY <1>1, <1>5, Items
  <2> HIDE DEF A, B
  <2>2. IsFiniteSet(A) /\ IsFiniteSet(B) /\ Cardinality(A) \in Nat /\ Cardinality(B) \in Nat
    BY <2>1, Finite
  <2>3. Cardinality(A \cup B) = Cardinality(A) + Cardinality(B)
    BY <2>1, <2>2, DisjointUnion
  <2>4. dirtyDependencies'[n] = Cardinality(A \cup B) - Cardinality(B)
    BY <1>1, <1>4, <2>1 DEF B
  <2>5. dirtyDependencies'[n] = Cardinality(A)
    BY <2>2, <2>3, <2>4
  <2> QED BY <1>1, <2>2, <2>5 DEF A
<1>12. TypeOK'
  <2>1. dirtyDependencies' \in [Name -> Nat]
    BY <1>1, <1>11
  <2>2. nextItems' \subseteq Name
    BY <1>1, Items DEF Notified
  <2>3. readyQueueItems' \in Seq(Name)
    BY <1>1
  <2> QED BY <1>1, <1>3, <1>6, <1>10, <2>1, <2>2, <2>3 DEF IInv, TypeOK, parsed
<1>13. CheckInv'
  BY <1>1, <1>2 DEF CheckInv, parsed
<1>14. CountsExact'
  <2>1. {n \in Item' : task'[n] \in {"none", "sent", "checked"}} \cup Ready' = Unhandled'
    BY DEF Unhandled
  <2>2. {n \in Name : task'[n] \in {"sent", "checked"}} \cup Ready' = Sent
    BY <1>7, <1>8
  <2>3. Len(readyQueueItems') = Cardinality(Ready')
    BY <1>7, FS_EmptySet
  <2> QED BY <1>6, <1>10, <1>11, <2>1, <2>2, <2>3 DEF CountsExact
<1>15. QueueInv'
  <2>1. Unhandled' \subseteq dirty'
    BY <1>1, <1>3, <1>4, <1>9
  <2>2. ASSUME ~Stopped'
        PROVE  Unhandled' = Item' \cap dirty'
    BY <1>1, <1>3, <1>4, <1>6, <1>9, <2>2
  <2>3. \A n \in nextItems' : n \in Item' /\ task'[n] = "none"
    BY <1>1, <1>6 DEF Notified
  <2> QED BY <1>1, <1>4, <1>6, <1>7, <2>1, <2>2, <2>3 DEF QueueInv, Ended, parsed
<1> QED BY <1>6, <1>12, <1>13, <1>14, <1>15 DEF IInv

-----------------------------------------------------------------------------
(* Theorems                                                                 *)

LEMMA NextInv ==
  ASSUME IInv, [Next]_vars
  PROVE  IInv'
<1>1. CASE UNCHANGED vars
  <2>1. /\ UNCHANGED <<parseVars, entry, pc, task, result, queueVars>>
    BY <1>1 DEF vars
  <2>2. IInv' <=> IInv
    BY <2>1 DEF parseVars, graph, search, queueVars, IInv, TypeOK, ParseTypeOK, ParseInv,
                SearchInv, Markers, CheckInv, QueueInv, CountsExact, Item, Ready, Sent,
                Unhandled, Stopped
  <2> QED BY <2>2
<1>2. CASE Main
  BY <1>2, SearchStep, NothingToDoStep, BeginCheckStep, CheckItemStep, EndCheckStep,
     BeginQueueStep, WaitStep, HandleReadyStep, SendNextStep, KeepGoingStep, CancelStep,
     ThrowStep, BreakCycleStep DEF Main
<1>3. CASE SpuriousWake
  BY <1>3, WaitStep
<1>4. CASE \E n \in Name : Task(n)
  BY <1>4, CheckTaskStep, PushReadyStep, NotifyOneStep DEF Task
<1> QED BY <1>1, <1>2, <1>3, <1>4 DEF Next

LEMMA Invariance == Spec => []IInv
<1>1. Init => IInv
  BY InitInv
<1>2. IInv /\ [Next]_vars => IInv'
  BY NextInv
<1> QED BY <1>1, <1>2, PTL DEF Spec

\* What the inductive invariant says of a state.
LEMMA InvImplies == IInv => TypeOK /\ CountsExact /\ NoTaskLeft /\ DoneMeansChecked
<1> SUFFICES ASSUME IInv PROVE TypeOK /\ CountsExact /\ NoTaskLeft /\ DoneMeansChecked
  OBVIOUS
<1>1. TypeOK /\ CountsExact
  BY DEF IInv
<1>2. NoTaskLeft
  <2> SUFFICES ASSUME pc \in Ended, NEW n \in Name, task[n] \in {"sent", "checked"}
               PROVE  FALSE
    BY DEF NoTaskLeft
  <2> QED BY TaskRunning
<1>3. DoneMeansChecked
  <2> SUFFICES ASSUME pc = "done"
               PROVE  Item \cap dirty = {} /\ \A n \in seen : n \notin dirty
    BY DEF DoneMeansChecked
  <2>1. Item \cap dirty = {}
    BY DEF IInv, TypeOK, CheckInv, QueueInv
  <2> QED BY <2>1 DEF IInv, ParseInv
<1> QED BY <1>1, <1>2, <1>3

\* Every variable keeps its type, whatever the modules and the require graph.
THEOREM TypeCorrect == Spec => []TypeOK
BY InvImplies, Invariance, PTL

\* The counts of checkQueuedModules are exact: a module is sent when the last
\* of its dependencies is recorded, and the loop ends and looks for cycles when
\* nothing is left to wait for.
THEOREM CountsCorrect == Spec => []CountsExact
BY InvImplies, Invariance, PTL

\* When check or checkQueuedModules returns or throws, no thread is checking.
THEOREM NoTaskLeftCorrect == Spec => []NoTaskLeft
BY InvImplies, Invariance, PTL

\* When a call returns what it checked, everything it had to check is clean.
THEOREM DoneCorrect == Spec => []DoneMeansChecked
BY InvImplies, Invariance, PTL

-----------------------------------------------------------------------------
(***************************************************************************)
(* The order of the build queue, and the workers: a task is in one place   *)
(* until it is over, and when the workers are joined nothing is left.      *)
(***************************************************************************)

(* The order of the items                                                   *)

\* How many markers are among the first p elements of a stack: element p was
\* pushed for that module of the path.
Level(s, p) == Cardinality({q \in 1 .. p : s[q] = Marker})

\* The path is a path of the require graph, and the stack holds what its
\* modules require; marks are of what is on the path or finished.
PathInv ==
    /\ stack # <<>> => \A n \in Name :
          /\ mark[n] = "temporary" => n \in ToSet(path)
          /\ mark[n] = "permanent" => n \in ToSet(buildQueue)
    /\ \A k \in DOMAIN path : k > 1 => path[k] \in requires[path[k - 1]]
    /\ \A p \in DOMAIN stack : stack[p] # Marker /\ Level(stack, p) > 0 =>
          stack[p] \in requires[path[Level(stack, p)]]

\* What a module of the path requires is still on the stack, or finished, or
\* searched now, or was found on the path: then there is a cycle.
ChildrenInv == \A i \in DOMAIN path : \A d \in Children(path[i]) :
    \/ \E p \in DOMAIN stack : stack[p] = d /\ Level(stack, p) = i
    \/ mark[d] = "permanent"
    \/ i < Len(path) /\ d = path[i + 1]
    \/ cyclic /\ \E j \in 1 .. i : path[j] = d

\* What a finished module requires is finished before, or on a cycle with it.
FinishedInv == \A k \in DOMAIN buildQueue : \A d \in Children(buildQueue[k]) :
    \/ \E j \in 1 .. (k - 1) : buildQueue[j] = d
    \/ cyclic /\ d \in RequireCycles(buildQueue[k]) /\ d \in ToSet(path) \cup ToSet(buildQueue)

\* The same for the items, of all searches.
ItemsOrdered ==
    /\ \A n \in Item : (requires[n] \cap dirty) \subseteq Item
    /\ \A k \in DOMAIN items, l \in DOMAIN items :
          (k <= l /\ items[l] \in requires[items[k]]) => items[l] \in cycles[items[k]]

DependentsKnown ==
    \A n \in Item \cup ToSet(buildQueue) : \A d \in requires[n] : n \in dependents[d]

OrderInv ==
    /\ ItemsOrdered /\ DependentsKnown
    /\ stack # <<>> \/ buildQueue # <<>> => roots # <<>>
    /\ pc # "parse" => buildQueue = <<>>
    /\ pc = "parse" => PathInv /\ ChildrenInv /\ FinishedInv

\* Stacks that agree have the same levels.
LEMMA LevelSame ==
  ASSUME NEW s, NEW t, NEW p \in Nat, \A q \in 1 .. p : s[q] = t[q]
  PROVE  Level(s, p) = Level(t, p)
<1>1. {q \in 1 .. p : s[q] = Marker} = {q \in 1 .. p : t[q] = Marker}
  OBVIOUS
<1> QED BY <1>1 DEF Level

\* The level changes at markers only.
LEMMA LevelFlat ==
  ASSUME NEW s, NEW p \in Nat, NEW r \in Nat, p <= r, \A q \in (p + 1) .. r : s[q] # Marker
  PROVE  Level(s, r) = Level(s, p)
<1>1. {q \in 1 .. r : s[q] = Marker} = {q \in 1 .. p : s[q] = Marker}
  <2>1. ASSUME NEW q \in 1 .. r, s[q] = Marker
        PROVE  q \in 1 .. p
    <3>1. q \notin (p + 1) .. r
      BY <2>1
    <3> QED BY <3>1
  <2> QED BY <2>1
<1> QED BY <1>1 DEF Level

\* A marker is one level above what is below it.
LEMMA LevelMarker ==
  ASSUME NEW s, NEW p \in Nat \ {0}, s[p] = Marker
  PROVE  Level(s, p) = Level(s, p - 1) + 1 /\ Level(s, p - 1) \in Nat
<1> DEFINE M == {q \in 1 .. (p - 1) : s[q] = Marker}
<1>1. {q \in 1 .. p : s[q] = Marker} = M \cup {p}
  OBVIOUS
<1>2. p \notin M /\ IsFiniteSet(M)
  <2>1. IsFiniteSet(1 .. (p - 1))
    BY FS_Interval
  <2> QED BY <2>1, FS_Subset
<1> HIDE DEF M
<1>3. Cardinality(M \cup {p}) = Cardinality(M) + 1 /\ Cardinality(M) \in Nat
  BY <1>2, FS_AddElement, FS_CardinalityType
<1> QED BY <1>1, <1>3 DEF Level, M

\* The level of an element is not above that of an element above it.
LEMMA LevelMonotonic ==
  ASSUME NEW s, NEW p \in Nat, NEW r \in Nat, p <= r
  PROVE  Level(s, p) <= Level(s, r) /\ Level(s, p) \in Nat /\ Level(s, r) \in Nat
<1> DEFINE M == {q \in 1 .. p : s[q] = Marker}
           N == {q \in 1 .. r : s[q] = Marker}
<1>1. M \subseteq N /\ IsFiniteSet(N)
  <2>1. IsFiniteSet(1 .. r)
    BY FS_Interval
  <2>2. N \subseteq 1 .. r
    OBVIOUS
  <2>3. M \subseteq N
    OBVIOUS
  <2> QED BY <2>1, <2>2, <2>3, FS_Subset
<1> HIDE DEF M, N
<1>2. Cardinality(M) <= Cardinality(N) /\ Cardinality(M) \in Nat /\ Cardinality(N) \in Nat
  BY <1>1, FS_Subset, FS_CardinalityType
<1> QED BY <1>2 DEF Level, M, N

\* The top of the stack is at the level of the end of the path.
LEMMA LevelTop ==
  ASSUME IInv, pc = "parse"
  PROVE  Level(stack, Len(stack)) = Len(path) /\ Len(stack) \in Nat /\ Len(path) \in Nat
<1>1. /\ stack \in Seq(Name \cup {Marker}) /\ path \in Seq(Name)
      /\ Cardinality(Markers(stack)) = Len(path)
  BY Searching DEF SearchInv
<1>2. DOMAIN stack = 1 .. Len(stack) /\ Len(stack) \in Nat /\ Len(path) \in Nat
  BY <1>1, LenProperties
<1> QED BY <1>1, <1>2 DEF Level, Markers

\* Every element of the stack is at the level of a module of the path, or below.
LEMMA LevelBound ==
  ASSUME IInv, pc = "parse", NEW p \in DOMAIN stack
  PROVE  Level(stack, p) \in 0 .. Len(path)
<1>1. DOMAIN stack = 1 .. Len(stack) /\ Len(stack) \in Nat
  BY Searching, LenProperties
<1>2. Level(stack, p) <= Level(stack, Len(stack)) /\ Level(stack, p) \in Nat
  BY <1>1, LevelMonotonic
<1> QED BY <1>2, LevelTop

\* A module of the path reaches all that come after it.
LEMMA PathReaches ==
  ASSUME path \in Seq(Name), requires \in [Name -> SUBSET Name],
         \A k \in DOMAIN path : k > 1 => path[k] \in requires[path[k - 1]],
         NEW i \in DOMAIN path, NEW j \in DOMAIN path, i < j
  PROVE  path[j] \in Reached(path[i])
<1>1. DOMAIN path = 1 .. Len(path) /\ Len(path) \in Nat /\ \A k \in DOMAIN path : path[k] \in Name
  BY LenProperties, ElementOfSeq
<1>2. SUFFICES ASSUME NEW S \in SUBSET Name,
                      requires[path[i]] \cup UNION {requires[s] : s \in S} \subseteq S
               PROVE  path[j] \in S
  BY <1>1 DEF Reached
<1> DEFINE T == {k \in 1 .. Len(path) : i < k /\ path[k] \notin S}
<1>3. SUFFICES ASSUME T # {} PROVE FALSE
  BY <1>1
<1>4. T \in SUBSET Nat
  BY <1>1
<1>5. PICK k \in T : \A l \in T : k <= l
  BY <1>3, <1>4, LeastNat
<1>6. k \in DOMAIN path /\ k > 1 /\ k - 1 \in DOMAIN path /\ k - 1 \notin T /\ k \in Nat
  BY <1>1, <1>5
<1>7. path[k] \in requires[path[k - 1]]
  BY <1>6
<1>8. CASE k - 1 = i
  BY <1>2, <1>5, <1>7, <1>8
<1>9. CASE k - 1 # i
  <2>1. i < k - 1
    BY <1>1, <1>5, <1>6, <1>9
  <2>2. path[k - 1] \in S
    BY <1>1, <1>6, <2>1
  <2> QED BY <1>2, <1>5, <1>7, <2>2
<1> QED BY <1>8, <1>9

\* Without a stack there is no path.
LEMMA EmptyPath ==
  ASSUME IInv, pc = "parse", stack = <<>>
  PROVE  path = <<>>
<1>1. Markers(stack) = {}
  BY DEF Markers
<1>2. Len(path) = 0
  BY <1>1, Searching, FS_EmptySet DEF SearchInv
<1> QED BY <1>2, Searching, EmptySeq

\* What does not change while the graph and what was seen stay.
LEMMA GraphStays ==
  ASSUME UNCHANGED <<graph, seen>>, NEW n
  PROVE  RequireCycles(n)' = RequireCycles(n) /\ Children(n)' = Children(n)
BY DEF graph, RequireCycles, Reached, Children

\* Before the next search begins, nothing of the last one is left.
LEMMA NoSearchOrder ==
  ASSUME IInv, OrderInv, Search, SkipRoot \/ BeginRoot
  PROVE  OrderInv'
<1>1. /\ pc = "parse" /\ pc' = "parse" /\ stack = <<>> /\ buildQueue = <<>>
      /\ roots # <<>> /\ buildQueue' = <<>> /\ path' = path /\ Marker \notin Name
      /\ UNCHANGED <<graph, dependents, items, cycles>> /\ roots \in Seq(Name)
  BY GraphAssumption, Searching DEF Search, SkipRoot, BeginRoot, search
<1>2. path' = <<>> /\ DOMAIN path' = {} /\ DOMAIN buildQueue' = {}
  BY <1>1, EmptyPath
<1>3. ChildrenInv' /\ FinishedInv'
  BY <1>2 DEF ChildrenInv, FinishedInv
<1>4. ItemsOrdered' /\ DependentsKnown'
  BY <1>1 DEF OrderInv, ItemsOrdered, DependentsKnown, graph, Item
<1>5. PathInv' /\ (stack' # <<>> \/ buildQueue' # <<>> => roots' # <<>>)
  <2>1. CASE SkipRoot
    BY <1>1, <1>2, <2>1 DEF SkipRoot, search, PathInv
  <2>2. CASE BeginRoot
    <3>1. /\ stack' = <<Head(roots)>> /\ Head(roots) \in Name /\ roots' = roots
          /\ mark' = [n \in Name |-> "none"]
      BY <1>1, <2>2, HeadTailProperties DEF BeginRoot
    <3>2. DOMAIN stack' = {1} /\ stack'[1] # Marker
      BY <1>1, <3>1
    <3>3. Level(stack', 1) = Level(stack', 0) /\ Level(stack', 0) = 0
      <4>1. \A q \in 1 .. 1 : stack'[q] # Marker
        BY <3>2
      <4>2. {q \in 1 .. 0 : stack'[q] = Marker} = {}
        OBVIOUS
      <4>3. Level(stack', 0) = 0
        BY <4>2, FS_EmptySet DEF Level
      <4> QED BY <4>1, <4>3, LevelFlat
    <3> QED BY <1>1, <1>2, <3>1, <3>2, <3>3 DEF PathInv
  <2> QED BY <1>1, <2>1, <2>2
<1> QED BY <1>1, <1>3, <1>4, <1>5 DEF OrderInv

\* What a step of the search is about.
LEMMA InSearch ==
  ASSUME IInv, OrderInv, Search, stack # <<>>
  PROVE  /\ pc = "parse" /\ pc' = "parse" /\ roots # <<>>
         /\ PathInv /\ ChildrenInv /\ FinishedInv /\ ItemsOrdered /\ DependentsKnown
         /\ path \in Seq(Name) /\ Len(path) \in Nat /\ DOMAIN path = 1 .. Len(path)
         /\ requires \in [Name -> SUBSET Name] /\ dirty \subseteq Name
         /\ mark \in [Name -> {"none", "temporary", "permanent"}]
         /\ Len(stack) \in Nat \ {0} /\ DOMAIN stack = 1 .. Len(stack)
         /\ Last(stack) = stack[Len(stack)]
         /\ Level(stack, Len(stack)) = Len(path)
         /\ \A p \in DOMAIN stack : Level(stack, p) \in 0 .. Len(path)
<1>1. pc = "parse" /\ pc' = "parse"
  BY DEF Search
<1> QED BY <1>1, Searching, LenProperties, TopOfStack, LevelTop, LevelBound DEF OrderInv, ParseTypeOK

\* A module is visited.
LEMMA VisitOrder ==
  ASSUME IInv, OrderInv, Search, Visit
  PROVE  OrderInv'
<1> DEFINE top == Last(stack)
           N == Len(stack)
           L == Len(path)
<1>1. /\ stack # <<>> /\ top # Marker /\ mark[top] = "none" /\ path' = Append(path, top)
      /\ mark' = [mark EXCEPT ![top] = "temporary"]
      /\ UNCHANGED <<graph, dependents, roots, seen, buildQueue, cyclic, items, cycles>>
  BY DEF Visit
<1>2. /\ pc = "parse" /\ pc' = "parse" /\ roots # <<>>
      /\ PathInv /\ ChildrenInv /\ FinishedInv /\ ItemsOrdered /\ DependentsKnown
      /\ path \in Seq(Name) /\ L \in Nat /\ DOMAIN path = 1 .. L
      /\ requires \in [Name -> SUBSET Name] /\ dirty \subseteq Name
      /\ mark \in [Name -> {"none", "temporary", "permanent"}]
      /\ N \in Nat \ {0} /\ DOMAIN stack = 1 .. N
      /\ top = stack[N] /\ Level(stack, N) = L
      /\ \A p \in DOMAIN stack : Level(stack, p) \in 0 .. L
  BY <1>1, InSearch
<1>3. PICK children \in Seq(Children(top)) :
         /\ Len(children) \in Nat /\ DOMAIN children = 1 .. Len(children)
         /\ \A d \in Children(top) : \E k \in DOMAIN children : children[k] = d
         /\ \A k \in DOMAIN children : children[k] \in dirty \ seen
         /\ DOMAIN stack' = 1 .. (N + Len(children))
         /\ \A k \in 1 .. (N + Len(children)) :
               stack'[k] = IF k < N THEN stack[k]
                           ELSE IF k = N THEN Marker ELSE children[k - N]
  BY VisitPushes
<1>4. top \in Name /\ Marker \notin Name
  BY <1>1, <1>2, TopOfStack, GraphAssumption
<1>5. /\ DOMAIN path' = 1 .. (L + 1) /\ Len(path') = L + 1
      /\ \A k \in 1 .. L : path'[k] = path[k]
      /\ path'[L + 1] = top
  BY <1>1, <1>2, <1>4, AppendProps, LenProperties
<1> HIDE DEF top, N, L
<1>6. ASSUME NEW p \in 1 .. (N - 1)
      PROVE  p \in DOMAIN stack /\ p \in DOMAIN stack' /\ stack'[p] = stack[p]
             /\ Level(stack', p) = Level(stack, p)
  <2>1. p \in Nat /\ \A q \in 1 .. p : q \in 1 .. (N + Len(children)) /\ q < N
    BY <1>2, <1>3
  <2>2. \A q \in 1 .. p : stack'[q] = stack[q]
    BY <1>3, <2>1
  <2> QED BY <1>2, <1>3, <2>1, <2>2, LevelSame
<1>7. stack'[N] = Marker /\ Level(stack', N) = L + 1
  <2>1. N - 1 \in Nat /\ N \in 1 .. (N + Len(children)) /\ \A q \in ((N - 1) + 1) .. N : q = N
    BY <1>2, <1>3
  <2>2. Level(stack, N - 1) = L
    BY <1>1, <1>2, <2>1, LevelFlat
  <2>3. \A q \in 1 .. (N - 1) : stack'[q] = stack[q]
    BY <1>6
  <2>4. Level(stack', N - 1) = Level(stack, N - 1)
    BY <2>1, <2>3, LevelSame
  <2>5. stack'[N] = Marker
    BY <1>2, <1>3, <2>1
  <2> QED BY <1>2, <2>2, <2>4, <2>5, LevelMarker
<1>8. ASSUME NEW k \in DOMAIN children
      PROVE  /\ N + k \in DOMAIN stack' /\ stack'[N + k] = children[k]
             /\ Level(stack', N + k) = L + 1 /\ children[k] \in Children(top)
  <2>1. k \in Nat /\ k \in 1 .. Len(children)
    BY <1>3
  <2>2. ASSUME NEW q \in (N + 1) .. (N + k)
        PROVE  stack'[q] # Marker
    <3>1. q \in 1 .. (N + Len(children)) /\ ~ (q < N) /\ q # N /\ q - N \in DOMAIN children
      BY <1>2, <1>3, <2>1
    <3> QED BY <1>2, <1>3, <1>4, <3>1
  <2>3. N \in Nat /\ N + k \in Nat /\ N <= N + k
    BY <1>2, <2>1
  <2>4. Level(stack', N + k) = Level(stack', N)
    BY <2>2, <2>3, LevelFlat
  <2>5. N + k \in 1 .. (N + Len(children)) /\ ~ (N + k < N) /\ N + k # N /\ (N + k) - N = k
    BY <1>2, <1>3, <2>1
  <2> QED BY <1>3, <1>7, <2>1, <2>4, <2>5, ElementOfSeq
<1>9. ASSUME NEW p \in DOMAIN stack'
      PROVE  \/ p \in 1 .. (N - 1) \/ p = N
             \/ \E k \in DOMAIN children : p = N + k
  <2>1. p \in 1 .. (N + Len(children))
    BY <1>3
  <2>2. CASE p > N
    <3> DEFINE C == Len(children)
    <3>1. C \in Nat /\ p \in 1 .. (N + C)
      BY <1>3, <2>1
    <3> HIDE DEF C
    <3>2. p - N \in 1 .. C /\ p = N + (p - N)
      BY <1>2, <2>2, <3>1
    <3> QED BY <1>3, <3>2 DEF C
  <2> QED BY <1>2, <2>1, <2>2
<1>10. \A n : Children(n)' = Children(n) /\ RequireCycles(n)' = RequireCycles(n)
  BY <1>1, GraphStays
<1>11. PathInv'
  <2>1. ASSUME NEW n \in Name
        PROVE  /\ mark'[n] = "temporary" => n \in ToSet(path')
               /\ mark'[n] = "permanent" => n \in ToSet(buildQueue')
    <3>1. CASE n = top
      <4>1. mark'[n] = "temporary" /\ L + 1 \in DOMAIN path' /\ path'[L + 1] = n
        BY <1>1, <1>2, <1>4, <1>5, <3>1
      <4> QED BY <4>1 DEF ToSet
    <3>2. CASE n # top
      <4>1. mark'[n] = mark[n]
        BY <1>1, <1>2, <3>2
      <4>2. \A x \in ToSet(path) : x \in ToSet(path')
        BY <1>2, <1>5 DEF ToSet
      <4> QED BY <1>1, <1>2, <4>1, <4>2 DEF PathInv
    <3> QED BY <3>1, <3>2
  <2>2. ASSUME NEW k \in DOMAIN path', k > 1
        PROVE  path'[k] \in requires'[path'[k - 1]]
    <3>1. CASE k \in 1 .. L
      <4>1. k - 1 \in 1 .. L /\ path'[k] = path[k] /\ path'[k - 1] = path[k - 1]
        BY <1>2, <1>5, <2>2, <3>1
      <4> QED BY <1>1, <1>2, <2>2, <3>1, <4>1 DEF PathInv, graph
    <3>2. CASE k = L + 1
      <4>1. L > 0 /\ path'[k] = top /\ path'[k - 1] = path[L]
        BY <1>2, <1>5, <2>2, <3>2
      <4>2. N \in DOMAIN stack
        BY <1>2
      <4>3. stack[N] \in requires[path[L]]
        BY <1>1, <1>2, <4>1, <4>2 DEF PathInv
      <4> QED BY <1>1, <1>2, <4>1, <4>3 DEF graph
    <3> QED BY <1>2, <1>5, <3>1, <3>2
  <2>3. ASSUME NEW p \in DOMAIN stack', stack'[p] # Marker, Level(stack', p) > 0
        PROVE  stack'[p] \in requires'[path'[Level(stack', p)]]
    <3>1. CASE p \in 1 .. (N - 1)
      <4>1. /\ p \in DOMAIN stack /\ stack'[p] = stack[p] /\ Level(stack', p) = Level(stack, p)
            /\ Level(stack, p) \in 1 .. L
        BY <1>2, <1>6, <2>3, <3>1
      <4>2. stack[p] \in requires[path[Level(stack, p)]]
        BY <1>2, <2>3, <4>1 DEF PathInv
      <4> QED BY <1>1, <1>5, <4>1, <4>2 DEF graph
    <3>2. ASSUME NEW k \in DOMAIN children, p = N + k
          PROVE  stack'[p] \in requires'[path'[Level(stack', p)]]
      <4>1. /\ stack'[N + k] = children[k] /\ Level(stack', N + k) = L + 1
            /\ children[k] \in Children(top)
        BY <1>8
      <4> QED BY <1>1, <1>5, <3>2, <4>1 DEF graph, Children
    <3> QED BY <1>7, <1>9, <2>3, <3>1, <3>2
  <2> QED BY <2>1, <2>2, <2>3 DEF PathInv
<1>12. ChildrenInv'
  <2> SUFFICES ASSUME NEW i \in DOMAIN path', NEW d \in Children(path'[i])
               PROVE  \/ \E p \in DOMAIN stack' : stack'[p] = d /\ Level(stack', p) = i
                      \/ mark'[d] = "permanent"
                      \/ i < Len(path') /\ d = path'[i + 1]
                      \/ cyclic' /\ \E j \in 1 .. i : path'[j] = d
    BY <1>1 DEF ChildrenInv, Children, graph
  <2>1. d \in Name
    BY <1>2 DEF Children
  <2>2. CASE i = L + 1
    <3>1. d \in Children(top)
      BY <1>5, <2>2
    <3>2. PICK k \in DOMAIN children : children[k] = d
      BY <1>3, <3>1
    <3> QED BY <1>8, <2>2, <3>2
  <2>3. CASE i \in 1 .. L
    <3>1. path'[i] = path[i] /\ i \in DOMAIN path
      BY <1>2, <1>5, <2>3
    <3>2. CASE \E p \in DOMAIN stack : stack[p] = d /\ Level(stack, p) = i
      <4>1. PICK p \in DOMAIN stack : stack[p] = d /\ Level(stack, p) = i
        BY <3>2
      <4>2. CASE p \in 1 .. (N - 1)
        BY <1>6, <4>1, <4>2
      <4>3. CASE p = N
        <5>1. d = top /\ i = L
          BY <1>2, <4>1, <4>3
        <5> QED BY <1>2, <1>5, <5>1
      <4> QED BY <1>2, <4>2, <4>3
    <3>3. CASE mark[d] = "permanent"
      <4>1. d # top
        BY <1>1, <3>3
      <4> QED BY <1>1, <1>2, <2>1, <3>3, <4>1
    <3>4. CASE i < L /\ d = path[i + 1]
      <4>1. i < Len(path') /\ path'[i + 1] = path[i + 1]
        BY <1>2, <1>5, <2>3, <3>4
      <4> QED BY <3>4, <4>1
    <3>5. CASE cyclic /\ \E j \in 1 .. i : path[j] = d
      <4>1. PICK j \in 1 .. i : path[j] = d
        BY <3>5
      <4>2. path'[j] = d
        BY <1>2, <1>5, <2>3, <4>1
      <4> QED BY <1>1, <3>5, <4>2
    <3> QED BY <1>2, <3>1, <3>2, <3>3, <3>4, <3>5 DEF ChildrenInv, L
  <2> QED BY <1>2, <1>5, <2>2, <2>3
<1>13. FinishedInv'
  <2>1. \A x \in ToSet(path) : x \in ToSet(path')
    BY <1>2, <1>5 DEF ToSet
  <2> QED BY <1>1, <1>2, <1>10, <2>1 DEF FinishedInv, Children, graph
<1>14. ItemsOrdered' /\ DependentsKnown' /\ roots' # <<>>
  BY <1>1, <1>2 DEF ItemsOrdered, DependentsKnown, Item, graph
<1> QED BY <1>2, <1>11, <1>12, <1>13, <1>14 DEF OrderInv

\* A module is met again: on the path, it closes a cycle.
LEMMA FoundAgainOrder ==
  ASSUME IInv, OrderInv, Search, FoundAgain
  PROVE  OrderInv'
<1> DEFINE top == Last(stack)
           N == Len(stack)
           L == Len(path)
<1>1. /\ stack # <<>> /\ top # Marker /\ mark[top] # "none" /\ stack' = Front(stack)
      /\ cyclic' = (cyclic \/ mark[top] = "temporary")
      /\ UNCHANGED <<graph, dependents, roots, seen, path, mark, buildQueue, items, cycles>>
  BY DEF FoundAgain, Found
<1>2. /\ pc = "parse" /\ pc' = "parse" /\ roots # <<>>
      /\ PathInv /\ ChildrenInv /\ FinishedInv /\ ItemsOrdered /\ DependentsKnown
      /\ path \in Seq(Name) /\ L \in Nat /\ DOMAIN path = 1 .. L
      /\ requires \in [Name -> SUBSET Name] /\ dirty \subseteq Name
      /\ mark \in [Name -> {"none", "temporary", "permanent"}]
      /\ N \in Nat \ {0} /\ DOMAIN stack = 1 .. N
      /\ top = stack[N] /\ Level(stack, N) = L
  BY <1>1, InSearch
<1>3. /\ top \in Name
      /\ DOMAIN stack' = 1 .. (N - 1) /\ \A k \in 1 .. (N - 1) : stack'[k] = stack[k]
  BY <1>1, <1>2, TopOfStack
<1> HIDE DEF top, N, L
<1>4. ASSUME NEW p \in 1 .. (N - 1)
      PROVE  p \in DOMAIN stack /\ stack'[p] = stack[p] /\ Level(stack', p) = Level(stack, p)
  <2>1. p \in Nat /\ \A q \in 1 .. p : stack'[q] = stack[q]
    BY <1>2, <1>3
  <2> QED BY <1>2, <1>3, <2>1, LevelSame
<1>5. \A n : Children(n)' = Children(n) /\ RequireCycles(n)' = RequireCycles(n)
  BY <1>1, GraphStays
<1>6. PathInv'
  <2>1. ASSUME NEW p \in DOMAIN stack', stack'[p] # Marker, Level(stack', p) > 0
        PROVE  stack'[p] \in requires'[path'[Level(stack', p)]]
    BY <1>1, <1>2, <1>3, <1>4, <2>1 DEF PathInv, graph
  <2> QED BY <1>1, <1>2, <2>1 DEF PathInv, graph
<1>7. ChildrenInv'
  <2> SUFFICES ASSUME NEW i \in DOMAIN path, NEW d \in Children(path[i])
               PROVE  \/ \E p \in DOMAIN stack' : stack'[p] = d /\ Level(stack', p) = i
                      \/ mark[d] = "permanent"
                      \/ i < Len(path) /\ d = path[i + 1]
                      \/ cyclic' /\ \E j \in 1 .. i : path[j] = d
    BY <1>1 DEF ChildrenInv, Children, graph
  <2>1. CASE \E p \in DOMAIN stack : stack[p] = d /\ Level(stack, p) = i
    <3>1. PICK p \in DOMAIN stack : stack[p] = d /\ Level(stack, p) = i
      BY <2>1
    <3>2. CASE p \in 1 .. (N - 1)
      BY <1>3, <1>4, <3>1, <3>2
    <3>3. CASE p = N
      <4>1. d = top /\ i = L
        BY <1>2, <3>1, <3>3
      <4>2. mark[d] = "permanent" \/ (mark[d] = "temporary" /\ d \in ToSet(path) /\ cyclic')
        BY <1>1, <1>2, <1>3, <4>1 DEF PathInv
      <4>3. d \in ToSet(path) => \E j \in 1 .. i : path[j] = d
        BY <1>2, <4>1 DEF ToSet
      <4> QED BY <4>2, <4>3
    <3> QED BY <1>2, <3>2, <3>3
  <2> QED BY <1>1, <1>2, <2>1 DEF ChildrenInv
<1>8. FinishedInv'
  BY <1>1, <1>2, <1>5 DEF FinishedInv, Children, graph
<1>9. ItemsOrdered' /\ DependentsKnown' /\ roots' # <<>>
  BY <1>1, <1>2 DEF ItemsOrdered, DependentsKnown, Item, graph
<1> QED BY <1>2, <1>6, <1>7, <1>8, <1>9 DEF OrderInv

\* A module is finished.
LEMMA PostOrderOrder ==
  ASSUME IInv, OrderInv, Search, PostOrder
  PROVE  OrderInv'
<1> DEFINE top == Last(path)
           N == Len(stack)
           L == Len(path)
           B == Len(buildQueue)
<1>1. /\ stack # <<>> /\ Last(stack) = Marker
      /\ mark' = [mark EXCEPT ![top] = "permanent"]
      /\ buildQueue' = Append(buildQueue, top)
      /\ dependents' = [d \in Name |-> IF d \in requires[top]
                                       THEN dependents[d] \cup {top} ELSE dependents[d]]
      /\ stack' = Front(stack) /\ path' = Front(path)
      /\ UNCHANGED <<graph, roots, seen, cyclic, items, cycles>>
  BY DEF PostOrder
<1>2. /\ pc = "parse" /\ pc' = "parse" /\ roots # <<>>
      /\ PathInv /\ ChildrenInv /\ FinishedInv /\ ItemsOrdered /\ DependentsKnown
      /\ path \in Seq(Name) /\ L \in Nat /\ DOMAIN path = 1 .. L
      /\ requires \in [Name -> SUBSET Name] /\ dirty \subseteq Name
      /\ mark \in [Name -> {"none", "temporary", "permanent"}]
      /\ N \in Nat \ {0} /\ DOMAIN stack = 1 .. N
      /\ stack[N] = Marker /\ Level(stack, N) = L
  BY <1>1, InSearch
<1>3. DOMAIN stack' = 1 .. (N - 1) /\ \A k \in 1 .. (N - 1) : stack'[k] = stack[k]
  BY <1>1, <1>2, TopOfStack
<1>4. buildQueue \in Seq(Name) /\ SearchInv /\ Marker \notin Name
  BY <1>2, Searching
<1>5. Level(stack, N - 1) = L - 1 /\ L > 0 /\ N - 1 \in Nat
  <2>1. Level(stack, N) = Level(stack, N - 1) + 1 /\ Level(stack, N - 1) \in Nat
    BY <1>2, LevelMarker
  <2> QED BY <1>2, <2>1
<1>6. /\ top \in Name /\ top = path[L] /\ L \in DOMAIN path /\ Len(path') = L - 1
      /\ DOMAIN path' = 1 .. (L - 1) /\ \A k \in 1 .. (L - 1) : path'[k] = path[k]
  <2>1. path # <<>> /\ IsInjective(path)
    BY <1>2, <1>4, <1>5 DEF SearchInv
  <2>2. /\ top \in Name /\ top = path[L] /\ Len(Front(path)) = L - 1
        /\ DOMAIN Front(path) = 1 .. (L - 1)
        /\ \A k \in 1 .. (L - 1) : Front(path)[k] = path[k]
    BY <1>2, <2>1, FrontProps
  <2>3. L \in DOMAIN path
    BY <1>2, <1>5
  <2> QED BY <1>1, <2>2, <2>3
<1>7. /\ DOMAIN buildQueue' = 1 .. (B + 1) /\ B \in Nat /\ DOMAIN buildQueue = 1 .. B
      /\ \A k \in 1 .. B : buildQueue'[k] = buildQueue[k]
      /\ buildQueue'[B + 1] = top
  BY <1>1, <1>4, <1>6, AppendProps, LenProperties
<1> HIDE DEF top, N, L, B
<1>8. ASSUME NEW p \in 1 .. (N - 1)
      PROVE  /\ p \in DOMAIN stack /\ stack'[p] = stack[p] /\ Level(stack', p) = Level(stack, p)
             /\ Level(stack, p) \in 0 .. (L - 1)
  <2>1. p \in Nat /\ p <= N - 1 /\ \A q \in 1 .. p : stack'[q] = stack[q]
    BY <1>2, <1>3
  <2>2. Level(stack, p) <= Level(stack, N - 1) /\ Level(stack, p) \in Nat
    BY <1>5, <2>1, LevelMonotonic
  <2> QED BY <1>2, <1>3, <1>5, <2>1, <2>2, LevelSame
<1>9. \A n : Children(n)' = Children(n) /\ RequireCycles(n)' = RequireCycles(n)
  BY <1>1, GraphStays
<1>10. /\ \A x \in ToSet(buildQueue) : x \in ToSet(buildQueue')
       /\ top \in ToSet(buildQueue')
       /\ \A x \in ToSet(path) : x = top \/ x \in ToSet(path')
       /\ \A x \in ToSet(buildQueue') : x = top \/ x \in ToSet(buildQueue)
  <2>1. ASSUME NEW x \in ToSet(path)
        PROVE  x = top \/ x \in ToSet(path')
    <3>1. PICK k \in DOMAIN path : path[k] = x
      BY DEF ToSet
    <3>2. CASE k = L
      BY <1>6, <3>1, <3>2
    <3>3. CASE k # L
      <4>1. k \in DOMAIN path' /\ path'[k] = x
        BY <1>2, <1>6, <3>1, <3>3
      <4> QED BY <4>1 DEF ToSet
    <3> QED BY <3>2, <3>3
  <2>2. \A x \in ToSet(buildQueue) : x \in ToSet(buildQueue')
    BY <1>7 DEF ToSet
  <2>3. top \in ToSet(buildQueue')
    <3>1. B + 1 \in DOMAIN buildQueue'
      BY <1>7
    <3> QED BY <1>7, <3>1 DEF ToSet
  <2>4. \A x \in ToSet(buildQueue') : x = top \/ x \in ToSet(buildQueue)
    BY <1>7 DEF ToSet
  <2> QED BY <2>1, <2>2, <2>3, <2>4
<1>11. PathInv'
  <2>1. ASSUME NEW n \in Name
        PROVE  /\ mark'[n] = "temporary" => n \in ToSet(path')
               /\ mark'[n] = "permanent" => n \in ToSet(buildQueue')
    <3>1. CASE n = top
      BY <1>1, <1>2, <1>6, <1>10, <3>1
    <3>2. CASE n # top
      <4>1. mark'[n] = mark[n]
        BY <1>1, <1>2, <3>2
      <4> QED BY <1>1, <1>2, <1>10, <3>2, <4>1 DEF PathInv
    <3> QED BY <3>1, <3>2
  <2>2. ASSUME NEW k \in DOMAIN path', k > 1
        PROVE  path'[k] \in requires'[path'[k - 1]]
    <3>1. k \in DOMAIN path /\ path'[k] = path[k] /\ path'[k - 1] = path[k - 1]
      BY <1>2, <1>6, <2>2
    <3> QED BY <1>1, <1>2, <2>2, <3>1 DEF PathInv, graph
  <2>3. ASSUME NEW p \in DOMAIN stack', stack'[p] # Marker, Level(stack', p) > 0
        PROVE  stack'[p] \in requires'[path'[Level(stack', p)]]
    <3>1. /\ p \in DOMAIN stack /\ stack'[p] = stack[p] /\ Level(stack', p) = Level(stack, p)
          /\ Level(stack, p) \in 1 .. (L - 1)
      BY <1>2, <1>3, <1>8, <2>3
    <3>2. stack[p] \in requires[path[Level(stack, p)]]
      BY <1>2, <2>3, <3>1 DEF PathInv
    <3> QED BY <1>1, <1>6, <3>1, <3>2 DEF graph
  <2> QED BY <2>1, <2>2, <2>3 DEF PathInv
<1>12. ChildrenInv'
  <2> SUFFICES ASSUME NEW i \in DOMAIN path', NEW d \in Children(path'[i])
               PROVE  \/ \E p \in DOMAIN stack' : stack'[p] = d /\ Level(stack', p) = i
                      \/ mark'[d] = "permanent"
                      \/ i < Len(path') /\ d = path'[i + 1]
                      \/ cyclic' /\ \E j \in 1 .. i : path'[j] = d
    BY <1>1 DEF ChildrenInv, Children, graph
  <2>1. d \in Name /\ i \in 1 .. (L - 1) /\ i \in DOMAIN path /\ path'[i] = path[i]
    BY <1>2, <1>6 DEF Children
  <2>2. CASE \E p \in DOMAIN stack : stack[p] = d /\ Level(stack, p) = i
    <3>1. PICK p \in DOMAIN stack : stack[p] = d /\ Level(stack, p) = i
      BY <2>2
    <3>2. p \in 1 .. (N - 1)
      BY <1>2, <1>4, <2>1, <3>1
    <3> QED BY <1>3, <1>8, <3>1, <3>2
  <2>3. CASE mark[d] = "permanent"
    BY <1>1, <1>2, <1>6, <2>1, <2>3
  <2>4. CASE i < L /\ d = path[i + 1]
    <3>1. CASE i + 1 = L
      BY <1>1, <1>2, <1>6, <2>1, <2>4, <3>1
    <3>2. CASE i + 1 # L
      BY <1>2, <1>6, <2>1, <2>4, <3>2
    <3> QED BY <3>1, <3>2
  <2>5. CASE cyclic /\ \E j \in 1 .. i : path[j] = d
    <3>1. PICK j \in 1 .. i : path[j] = d
      BY <2>5
    <3>2. path'[j] = d
      BY <1>2, <1>6, <2>1, <3>1
    <3> QED BY <1>1, <2>5, <3>2
  <2> QED BY <1>2, <2>1, <2>2, <2>3, <2>4, <2>5 DEF ChildrenInv, L
<1>13. FinishedInv'
  <2> SUFFICES ASSUME NEW k \in DOMAIN buildQueue', NEW d \in Children(buildQueue'[k])
               PROVE  \/ \E j \in 1 .. (k - 1) : buildQueue'[j] = d
                      \/ /\ cyclic /\ d \in RequireCycles(buildQueue'[k])
                         /\ d \in ToSet(path') \cup ToSet(buildQueue')
    BY <1>1 DEF FinishedInv, Children, RequireCycles, Reached, graph
  <2>1. CASE k \in 1 .. B
    <3>1. buildQueue'[k] = buildQueue[k] /\ k \in DOMAIN buildQueue
      BY <1>7, <2>1
    <3>2. CASE \E j \in 1 .. (k - 1) : buildQueue[j] = d
      <4>1. PICK j \in 1 .. (k - 1) : buildQueue[j] = d
        BY <3>2
      <4>2. buildQueue'[j] = d
        BY <1>7, <2>1, <4>1
      <4> QED BY <4>2
    <3> QED BY <1>2, <1>10, <3>1, <3>2 DEF FinishedInv
  <2>2. CASE k = B + 1
    <3>1. d \in Children(path[L]) /\ d \in Name /\ buildQueue'[k] = top /\ d \in requires[top]
      BY <1>2, <1>6, <1>7, <2>2 DEF Children
    <3>2. CASE \E p \in DOMAIN stack : stack[p] = d /\ Level(stack, p) = L
      <4>1. PICK p \in DOMAIN stack : stack[p] = d /\ Level(stack, p) = L
        BY <3>2
      <4>2. p \in 1 .. (N - 1)
        BY <1>2, <1>4, <3>1, <4>1
      <4> QED BY <1>2, <1>8, <4>1, <4>2
    <3>3. CASE mark[d] = "permanent"
      <4>1. d \in ToSet(buildQueue)
        BY <1>1, <1>2, <3>1, <3>3 DEF PathInv
      <4>2. PICK j \in 1 .. B : buildQueue[j] = d
        BY <1>7, <4>1 DEF ToSet
      <4>3. buildQueue'[j] = d /\ j \in 1 .. (k - 1)
        BY <1>7, <2>2, <4>2
      <4> QED BY <4>3
    <3>4. CASE cyclic /\ \E j \in 1 .. L : path[j] = d
      <4>1. PICK j \in 1 .. L : path[j] = d
        BY <3>4
      <4>2. d = top \/ top \in Reached(d)
        <5>1. CASE j = L
          BY <1>6, <4>1, <5>1
        <5>2. CASE j < L
          BY <1>2, <1>6, <4>1, <5>2, PathReaches DEF PathInv
        <5> QED BY <1>2, <4>1, <5>1, <5>2
      <4>3. d \in RequireCycles(top)
        BY <3>1, <4>2 DEF RequireCycles
      <4>4. d \in ToSet(path)
        BY <1>2, <4>1 DEF ToSet
      <4> QED BY <1>10, <3>1, <3>4, <4>3, <4>4
    <3> QED BY <1>2, <1>6, <3>1, <3>2, <3>3, <3>4 DEF ChildrenInv, L
  <2> QED BY <1>7, <2>1, <2>2
<1>14. ItemsOrdered' /\ roots' # <<>>
  BY <1>1, <1>2 DEF ItemsOrdered, Item, graph
<1>15. DependentsKnown'
  <2> SUFFICES ASSUME NEW n \in Item \cup ToSet(buildQueue'), NEW d \in requires[n]
               PROVE  n \in dependents'[d]
    BY <1>1 DEF DependentsKnown, Item, graph
  <2>1. n \in Name /\ d \in Name
    <3>1. Item \subseteq Name /\ ToSet(buildQueue) \subseteq Name
      BY <1>4, Items, ToSetIn
    <3> QED BY <1>2, <1>6, <1>10, <3>1
  <2>2. CASE n = top
    BY <1>1, <2>1, <2>2
  <2>3. CASE n # top
    BY <1>1, <1>2, <1>10, <2>1, <2>3 DEF DependentsKnown
  <2> QED BY <2>2, <2>3
<1> QED BY <1>2, <1>11, <1>12, <1>13, <1>14, <1>15 DEF OrderInv

\* The modules of a search become items.
LEMMA AddItemsOrder ==
  ASSUME IInv, OrderInv, Search, AddBuildQueueItems
  PROVE  OrderInv'
<1> DEFINE I == Len(items)
           B == Len(buildQueue)
<1>1. /\ pc = "parse" /\ pc' = "parse" /\ stack = <<>> /\ stack' = <<>> /\ roots # <<>>
      /\ items' = items \o buildQueue
      /\ cycles' = [n \in Name |-> IF cyclic /\ n \in ToSet(buildQueue)
                                   THEN RequireCycles(n) ELSE cycles[n]]
      /\ seen' = seen \cup ToSet(buildQueue) /\ buildQueue' = <<>> /\ path' = path
      /\ UNCHANGED <<graph, dependents>>
  BY DEF Search, AddBuildQueueItems
<1>2. /\ items \in Seq(Name) /\ buildQueue \in Seq(Name) /\ SearchInv
      /\ Item \subseteq dirty /\ Item \subseteq seen
      /\ seen \subseteq Item \cup (Name \ dirty) /\ IsInjective(items)
  BY <1>1, Searching
<1>3. /\ FinishedInv /\ ItemsOrdered /\ DependentsKnown
  BY <1>1 DEF OrderInv
<1>4. path = <<>> /\ ToSet(path) = {}
  BY <1>1, EmptyPath DEF ToSet
<1>5. /\ I \in Nat /\ B \in Nat /\ DOMAIN items = 1 .. I /\ DOMAIN buildQueue = 1 .. B
      /\ DOMAIN items' = 1 .. (I + B)
      /\ \A k \in 1 .. I : items'[k] = items[k] /\ items[k] \in Item
      /\ \A k \in (I + 1) .. (I + B) :
            /\ items'[k] = buildQueue[k - I] /\ k - I \in DOMAIN buildQueue
            /\ buildQueue[k - I] \in ToSet(buildQueue)
  <2>1. /\ I \in Nat /\ B \in Nat /\ DOMAIN items = 1 .. I /\ DOMAIN buildQueue = 1 .. B
        /\ \A k \in 1 .. (I + B) : items'[k] = IF k <= I THEN items[k] ELSE buildQueue[k - I]
        /\ DOMAIN items' = 1 .. (I + B)
    BY <1>1, <1>2, ConcatProperties, LenProperties
  <2> HIDE DEF I, B
  <2>2. ASSUME NEW k \in 1 .. I
        PROVE  items'[k] = items[k] /\ items[k] \in Item
    BY <2>1 DEF Item, ToSet
  <2>3. ASSUME NEW k \in (I + 1) .. (I + B)
        PROVE  /\ items'[k] = buildQueue[k - I] /\ k - I \in DOMAIN buildQueue
               /\ buildQueue[k - I] \in ToSet(buildQueue)
    <3>1. k \in 1 .. (I + B) /\ ~ (k <= I) /\ k - I \in 1 .. B
      BY <2>1
    <3> QED BY <2>1, <3>1 DEF ToSet
  <2> QED BY <2>1, <2>2, <2>3
<1> HIDE DEF I, B
<1>6. /\ ToSet(buildQueue) \subseteq dirty \ seen /\ ToSet(buildQueue) \subseteq Name
      /\ Item' = Item \cup ToSet(buildQueue)
  <2>1. ToSet(buildQueue) \subseteq Name /\ Item' = Item \cup ToSet(buildQueue)
    BY <1>1, <1>2, ToSetIn, ToSetConcat DEF Item
  <2>2. ToSet(buildQueue) \subseteq dirty \ seen
    BY <1>2 DEF SearchInv, ToSet
  <2> QED BY <2>1, <2>2
<1>7. ASSUME NEW n \in ToSet(buildQueue), NEW d \in Children(n)
      PROVE  d \in ToSet(buildQueue)
  <2>1. PICK k \in DOMAIN buildQueue : buildQueue[k] = n
    BY DEF ToSet
  <2>2. CASE \E j \in 1 .. (k - 1) : buildQueue[j] = d
    <3>1. PICK j \in 1 .. (k - 1) : buildQueue[j] = d
      BY <2>2
    <3>2. j \in DOMAIN buildQueue
      BY <1>5, <2>1, <3>1
    <3> QED BY <3>1, <3>2 DEF ToSet
  <2> QED BY <1>3, <1>4, <2>1, <2>2 DEF FinishedInv
<1>8. ASSUME NEW n \in Item'
      PROVE  (requires'[n] \cap dirty') \subseteq Item'
  <2>1. CASE n \in Item
    BY <1>1, <1>3, <1>6, <2>1 DEF ItemsOrdered, graph
  <2>2. CASE n \in ToSet(buildQueue)
    BY <1>1, <1>2, <1>6, <1>7, <2>2 DEF Children, graph
  <2> QED BY <1>6, <2>1, <2>2
<1>9. ASSUME NEW k \in DOMAIN items', NEW l \in DOMAIN items', k <= l,
             items'[l] \in requires'[items'[k]]
      PROVE  items'[l] \in cycles'[items'[k]]
  <2>1. CASE k \in 1 .. I /\ l \in 1 .. I
    <3>1. /\ items'[k] = items[k] /\ items'[l] = items[l] /\ items[k] \in Item
          /\ k \in DOMAIN items /\ l \in DOMAIN items
      BY <1>5, <2>1
    <3>2. items[l] \in cycles[items[k]]
      BY <1>1, <1>3, <1>9, <3>1 DEF ItemsOrdered, graph
    <3>3. items[k] \notin ToSet(buildQueue) /\ items[k] \in Name
      BY <1>2, <1>6, <3>1, ElementOfSeq
    <3> QED BY <1>1, <3>1, <3>2, <3>3
  <2>2. CASE k \in 1 .. I /\ l \in (I + 1) .. (I + B)
    <3>1. items'[k] \in Item /\ items'[l] \in ToSet(buildQueue) /\ items'[l] \in dirty \ seen
      BY <1>5, <1>6, <2>2
    <3> QED BY <1>1, <1>2, <1>3, <1>9, <3>1 DEF ItemsOrdered, graph
  <2>3. CASE k \in (I + 1) .. (I + B) /\ l \in (I + 1) .. (I + B)
    <3> DEFINE kk == k - I
               ll == l - I
               n == buildQueue[kk]
               d == buildQueue[ll]
    <3>1. /\ items'[k] = n /\ items'[l] = d /\ n \in ToSet(buildQueue) /\ d \in ToSet(buildQueue)
          /\ kk \in DOMAIN buildQueue /\ ll \in DOMAIN buildQueue /\ ~ (ll \in 1 .. (kk - 1))
      <4>1. kk <= ll /\ kk \in Int /\ ll \in Int
        BY <1>5, <1>9, <2>3
      <4> QED BY <1>5, <2>3, <4>1
    <3> HIDE DEF kk, ll
    <3>2. d \in Children(n)
      BY <1>1, <1>6, <1>9, <3>1 DEF Children, graph
    <3>3. ASSUME NEW j \in 1 .. (kk - 1), buildQueue[j] = d
          PROVE  FALSE
      <4>1. j \in DOMAIN buildQueue
        BY <1>5, <3>1
      <4>2. j = ll
        BY <1>2, <3>1, <3>3, <4>1 DEF SearchInv, IsInjective
      <4> QED BY <3>1, <4>2
    <3>4. cyclic /\ d \in RequireCycles(n)
      BY <1>3, <3>1, <3>2, <3>3 DEF FinishedInv
    <3>5. cycles'[n] = RequireCycles(n)
      BY <1>1, <1>6, <3>1, <3>4
    <3> QED BY <3>1, <3>4, <3>5
  <2>4. CASE k \in (I + 1) .. (I + B) /\ l \in 1 .. I
    BY <1>5, <1>9, <2>4
  <2> QED BY <1>5, <2>1, <2>2, <2>3, <2>4
<1>10. DependentsKnown'
  <2>1. ToSet(buildQueue') = {}
    BY <1>1 DEF ToSet
  <2> QED BY <1>1, <1>3, <1>6, <2>1 DEF DependentsKnown, graph
<1>11. PathInv' /\ ChildrenInv' /\ FinishedInv'
  <2>1. DOMAIN path' = {} /\ DOMAIN stack' = {} /\ DOMAIN buildQueue' = {} /\ stack' = <<>>
    BY <1>1, <1>4
  <2> QED BY <2>1 DEF PathInv, ChildrenInv, FinishedInv
<1> QED BY <1>1, <1>8, <1>9, <1>10, <1>11 DEF OrderInv, ItemsOrdered

\* A step that changes nothing of a search.
LEMMA SearchUnchanged ==
  ASSUME UNCHANGED <<graph, seen, stack, path, mark, buildQueue, cyclic>>
  PROVE  (PathInv' <=> PathInv) /\ (ChildrenInv' <=> ChildrenInv) /\ (FinishedInv' <=> FinishedInv)
<1>1. PathInv' <=> PathInv
  BY DEF PathInv, graph
<1>2. ChildrenInv' <=> ChildrenInv
  BY DEF ChildrenInv, Children, graph
<1>3. FinishedInv' <=> FinishedInv
  <2>1. \A n : Children(n)' = Children(n) /\ RequireCycles(n)' = RequireCycles(n)
    BY GraphStays
  <2> QED BY <2>1 DEF FinishedInv, Children, RequireCycles, Reached, graph
<1> QED BY <1>1, <1>2, <1>3

\* When the search is over, its locals are no more used, and modules only get clean.
LEMMA AfterSearchOrder ==
  ASSUME IInv, OrderInv, ~Search, [Next]_vars
  PROVE  OrderInv'
<1>1. CASE UNCHANGED vars
  <2>1. /\ UNCHANGED <<graph, dependents, roots, seen, search, items, cycles>>
        /\ UNCHANGED <<requires, dirty, pc>>
    BY <1>1 DEF vars, parseVars, graph
  <2>2. UNCHANGED <<stack, path, mark, buildQueue, cyclic>> /\ Item' = Item
    BY <2>1 DEF search, Item
  <2> QED BY <2>1, <2>2, SearchUnchanged DEF OrderInv, ItemsOrdered, DependentsKnown
<1>2. CASE ~ UNCHANGED vars
  <2>1. /\ UNCHANGED <<requires, dependents, roots, seen, search, items, cycles>>
        /\ dirty' \subseteq dirty
        /\ (pc # "parse" /\ pc' # "parse") \/ (pc = "parse" /\ pc' # "parse" /\ roots = <<>>)
           \/ (pc' = pc /\ dirty' = dirty)
    <3>1. CASE Main
      <4>1. CASE NothingToDo \/ BeginCheck \/ EndCheck \/ BeginQueue
        BY <4>1 DEF NothingToDo, BeginCheck, EndCheck, BeginQueue, parseVars, graph, Parsed
      <4>2. CASE CheckItem
        BY <4>2 DEF CheckItem, parsed
      <4>3. CASE Wait \/ HandleReady \/ EndQueue
        BY <4>3 DEF Wait, WaitWhen, HandleReady, Batch, EndQueue, parseVars, graph, parsed
      <4>4. CASE SendNext \/ KeepGoing \/ Cancel \/ Throw \/ BreakCycle
        BY <4>4 DEF SendNext, KeepGoing, Cancel, Throw, ThrowWhen, BreakCycle, Proceed,
           CallProgress, parseVars, graph
      <4> QED BY <1>2, <3>1, <4>1, <4>2, <4>3, <4>4 DEF Main
    <3>2. CASE SpuriousWake
      BY <3>2 DEF SpuriousWake, parseVars, graph
    <3>3. CASE \E n \in Name : Task(n)
      BY <3>3 DEF Task, CheckTask, PushReady, NotifyOne, parseVars, graph
    <3> QED BY <1>2, <3>1, <3>2, <3>3 DEF Next
  <2>2. Item' = Item /\ stack' = stack /\ path' = path /\ mark' = mark /\ cyclic' = cyclic
        /\ buildQueue' = buildQueue
    BY <2>1 DEF Item, search
  <2>3. ItemsOrdered' /\ DependentsKnown'
    BY <2>1, <2>2 DEF OrderInv, ItemsOrdered, DependentsKnown
  <2>4. /\ stack' # <<>> \/ buildQueue' # <<>> => roots' # <<>>
        /\ pc' # "parse" => buildQueue' = <<>>
    BY <2>1, <2>2 DEF OrderInv
  <2>5. pc' = "parse" => PathInv' /\ ChildrenInv' /\ FinishedInv'
    BY <2>1, <2>2, SearchUnchanged DEF OrderInv, graph
  <2> QED BY <2>3, <2>4, <2>5 DEF OrderInv
<1> QED BY <1>1, <1>2

LEMMA OrderStep ==
  ASSUME IInv, OrderInv, [Next]_vars
  PROVE  OrderInv'
BY NoSearchOrder, VisitOrder, FoundAgainOrder, PostOrderOrder, AddItemsOrder, AfterSearchOrder
   DEF Search, Parse

LEMMA InitOrder == Init => OrderInv
<1> SUFFICES ASSUME Init PROVE OrderInv
  OBVIOUS
<1>1. /\ stack = <<>> /\ path = <<>> /\ buildQueue = <<>> /\ items = <<>> /\ pc = "parse"
  BY DEF Init, ParseInit
<1>2. Item = {} /\ ToSet(buildQueue) = {} /\ DOMAIN items = {} /\ DOMAIN path = {}
      /\ DOMAIN stack = {} /\ DOMAIN buildQueue = {}
  BY <1>1 DEF Item, ToSet
<1> QED BY <1>1, <1>2 DEF OrderInv, ItemsOrdered, DependentsKnown, PathInv, ChildrenInv, FinishedInv

LEMMA Ordered == Spec => []OrderInv
<1>1. IInv /\ OrderInv /\ [Next]_vars => OrderInv'
  BY OrderStep
<1> QED BY <1>1, InitOrder, Invariance, PTL DEF Spec

\* What the order of the build queue comes to.
LEMMA OrderImplies == IInv /\ OrderInv => BuildOrder
<1> SUFFICES ASSUME IInv, OrderInv PROVE BuildOrder
  OBVIOUS
<1>1. Unqueued
  <2>1. IsInjective(items) /\ Item \subseteq seen
    BY DEF IInv, ParseInv
  <2>2. CASE pc = "parse"
    BY <2>1, <2>2, Searching DEF SearchInv, Unqueued, ToSet
  <2>3. CASE pc # "parse"
    BY <2>1, <2>3 DEF OrderInv, Unqueued, ToSet, IsInjective
  <2> QED BY <2>2, <2>3
<1> QED BY <1>1 DEF BuildOrder, OrderInv, ItemsOrdered, DependentsKnown

\* The items come in an order in which they can be checked: what an item requires comes
\* before it or is on a reported cycle with it, and who is to be marked dirty with a
\* module is known to it.
THEOREM BuildOrderCorrect == Spec => []BuildOrder
BY OrderImplies, Ordered, Invariance, PTL

-----------------------------------------------------------------------------
(* What is checked before what it requires                                  *)

\* An item waits for all it requires that may be unchecked, and what is about to be
\* sent waits for nothing.
CutInv ==
    /\ CyclesCut
    /\ \A n \in nextItems : requires[n] \cap dirty = {}
    /\ (entry = "checkQueuedModules" /\ pc # "parse") =>
          \A n \in Item : (requires[n] \cap dirty) \subseteq waits[n]

\* The first unprocessed item may be checked when no other that was sent is dirty.
LEMMA FirstCut ==
  ASSUME IInv, OrderInv, \E n \in Item : task[n] = "none",
         \A d \in Item : task[d] # "none" => d \notin dirty
  PROVE  /\ FirstUnprocessed \in Item
         /\ (requires[FirstUnprocessed] \cap dirty) \subseteq cycles[FirstUnprocessed]
<1>1. items \in Seq(Name) /\ DOMAIN items = 1 .. Len(items) /\ Len(items) \in Nat
  BY Items, LenProperties
<1> DEFINE T == {k \in DOMAIN items : task[items[k]] = "none"}
<1>2. T \in SUBSET Nat /\ T # {}
  BY <1>1 DEF Item, ToSet
<1>3. PICK m \in T : \A k \in T : m <= k
  BY <1>2, LeastNat
<1>4. ASSUME NEW l \in 1 .. (m - 1)
      PROVE  task[items[l]] # "none"
  <2>1. l \in DOMAIN items /\ ~ (m <= l)
    BY <1>1, <1>2, <1>4
  <2> QED BY <1>3, <2>1
<1> DEFINE first == CHOOSE k \in DOMAIN items :
               /\ task[items[k]] = "none"
               /\ \A l \in 1 .. (k - 1) : task[items[l]] # "none"
<1>5. /\ first \in DOMAIN items /\ task[items[first]] = "none"
      /\ \A l \in 1 .. (first - 1) : task[items[l]] # "none"
      /\ FirstUnprocessed = items[first]
  BY <1>3, <1>4 DEF FirstUnprocessed
<1> HIDE DEF first
<1>6. items[first] \in Item
  BY <1>5 DEF Item, ToSet
<1>7. ASSUME NEW d \in requires[items[first]] \cap dirty
      PROVE  d \in cycles[items[first]]
  <2>1. d \in Item
    BY <1>6 DEF OrderInv, ItemsOrdered
  <2>2. PICK l \in DOMAIN items : items[l] = d
    BY <2>1 DEF Item, ToSet
  <2>3. task[items[l]] = "none"
    BY <2>1, <2>2
  <2>4. first <= l
    BY <1>1, <1>5, <2>2, <2>3
  <2> QED BY <1>5, <2>2, <2>4 DEF OrderInv, ItemsOrdered
<1> QED BY <1>5, <1>6, <1>7

\* When nothing is processing and items remain, these are the unprocessed ones.
LEMMA CycleLeft ==
  ASSUME IInv, BreakCycle
  PROVE  /\ \E n \in Item : task[n] = "none"
         /\ \A d \in Item : task[d] # "none" => d \notin dirty
<1>1. /\ pc = "progress" /\ processing = 0 /\ remaining # 0
      /\ itemWithException = None /\ ~cancelled
  BY DEF BreakCycle, CallProgress, IInv, TypeOK
<1>2. entry = "checkQueuedModules"
  BY <1>1 DEF IInv, TypeOK, CheckInv, Ended
<1>3. Sent \cup Ready = {}
  <2>1. Cardinality(Sent \cup Ready) = 0 /\ Sent \cup Ready \subseteq Name
    BY <1>1, <1>2, Items DEF IInv, CountsExact, Sent
  <2> QED BY <2>1, Finite
<1>4. Unhandled = Item \cap dirty /\ remaining = Cardinality(Unhandled)
  BY <1>1, <1>2 DEF IInv, QueueInv, CountsExact, Stopped, Unhandled
<1>5. Unhandled = {n \in Item : task[n] = "none"}
  BY <1>3, Items DEF Unhandled, Sent
<1>6. Unhandled # {}
  BY <1>1, <1>4, FS_EmptySet
<1> QED BY <1>4, <1>5, <1>6

\* Steps that send nothing.
LEMMA NothingSentCut ==
  ASSUME IInv, CutInv, UNCHANGED <<requires, items, cycles, entry>>, dirty' \subseteq dirty,
         waits' = waits, pc = "parse" => entry = "check" \/ pc' = "parse" \/ items = <<>>,
         \A n \in nextItems' : requires[n] \cap dirty' = {},
         \A n \in Item : task'[n] # "none" => task[n] # "none"
  PROVE  CutInv'
<1>1. Item' = Item
  BY DEF Item
<1>2. CyclesCut'
  BY <1>1 DEF CutInv, CyclesCut
<1>3. (entry' = "checkQueuedModules" /\ pc' # "parse") =>
         \A n \in Item' : (requires'[n] \cap dirty') \subseteq waits'[n]
  <2>1. CASE items = <<>>
    <3>1. Item = {}
      BY <2>1 DEF Item, ToSet
    <3> QED BY <1>1, <3>1
  <2> QED BY <1>1, <2>1 DEF CutInv
<1> QED BY <1>2, <1>3 DEF CutInv

\* Steps that send items which wait for nothing, or the first unprocessed one.
LEMMA SentCut ==
  ASSUME IInv, CutInv, UNCHANGED <<requires, items, cycles, entry, dirty>>, nextItems' = {},
         NEW S, SendQueueItemTasks(S), pc # "parse", waits' = waits,
         \A n \in S : (requires[n] \cap dirty) \subseteq cycles[n]
  PROVE  CutInv'
<1>1. Item' = Item /\ Item \subseteq Name
  BY Items DEF Item
<1>2. CyclesCut'
  BY <1>1 DEF CutInv, CyclesCut, SendQueueItemTasks
<1> QED BY <1>1, <1>2 DEF CutInv

LEMMA CutStep ==
  ASSUME IInv, IInv', OrderInv, CutInv, [Next]_vars
  PROVE  CutInv'
<1>1. CASE UNCHANGED vars
  BY <1>1 DEF vars, parseVars, graph, queueVars, CutInv, CyclesCut, Item
<1>2. CASE Search
  <2>1. /\ pc = "parse" /\ pc' = "parse" /\ task' = task /\ nextItems' = nextItems
    BY <1>2 DEF Search, queueVars
  <2>2. nextItems = {} /\ \A n \in Name : task[n] = "none"
    BY <2>1 DEF IInv, ParseInv
  <2>3. Item' \subseteq Name
    <3>1. items' \in Seq(Name)
      BY DEF IInv, TypeOK, ParseTypeOK
    <3> QED BY <3>1, ToSetIn DEF Item
  <2> QED BY <2>1, <2>2, <2>3 DEF CutInv, CyclesCut
<1>3. CASE NothingToDo \/ BeginCheck \/ EndCheck \/ Wait \/ EndQueue \/ SpuriousWake
  <2>1. /\ UNCHANGED <<requires, items, cycles, entry, dirty, waits, nextItems, task>>
        /\ pc = "parse" => entry = "check" \/ items = <<>>
    BY <1>3 DEF NothingToDo, BeginCheck, EndCheck, Wait, WaitWhen, EndQueue, SpuriousWake,
       parseVars, graph, queueVars
  <2> QED BY <2>1, NothingSentCut DEF CutInv
<1>4. CASE KeepGoing \/ Cancel \/ Throw
  <2>1. /\ UNCHANGED <<requires, items, cycles, entry, dirty, waits, nextItems, task>>
        /\ pc # "parse"
    BY <1>4 DEF KeepGoing, Cancel, Throw, ThrowWhen, Proceed, CallProgress, parseVars, graph
  <2> QED BY <2>1, NothingSentCut DEF CutInv
<1>5. CASE \E n \in Name : Task(n)
  <2>1. PICK n \in Name : Task(n)
    BY <1>5
  <2>2. /\ UNCHANGED <<requires, items, cycles, entry, dirty, waits, nextItems>>
        /\ task[n] # "none"
        /\ \E s : task' = [task EXCEPT ![n] = s]
    BY <2>1 DEF Task, CheckTask, PushReady, NotifyOne, parseVars, graph, queueVars
  <2>3. pc # "parse"
    BY <2>2 DEF IInv, ParseInv
  <2>4. \A m \in Item : task'[m] # "none" => task[m] # "none"
    BY <2>2, Items
  <2> QED BY <2>2, <2>3, <2>4, NothingSentCut DEF CutInv
<1>6. CASE HandleReady
  <2>1. /\ UNCHANGED <<requires, items, cycles, entry, waits, task>> /\ dirty' = dirty \ Recorded
        /\ nextItems' = {n \in Notified : dirtyDependencies'[n] = 0}
        /\ pc = "loop" /\ pc' = "progress"
    BY <1>6 DEF HandleReady, Batch, parsed
  <2>2. entry = "checkQueuedModules"
    BY <2>1 DEF IInv, TypeOK, CheckInv, Ended
  <2>3. ASSUME NEW n \in nextItems'
        PROVE  requires[n] \cap dirty' = {}
    <3>1. n \in Item /\ n \in Name /\ dirtyDependencies'[n] = 0
      BY <2>1, Items DEF Notified
    <3>2. Cardinality(waits'[n] \cap dirty') = 0
      BY <2>1, <2>2, <3>1 DEF IInv, CountsExact
    <3>3. dirty' \subseteq Name
      BY <2>1, Items
    <3>4. waits[n] \cap dirty' = {}
      BY <2>1, <3>2, <3>3, Finite
    <3> QED BY <2>1, <2>2, <3>1, <3>4 DEF CutInv
  <2> QED BY <2>1, <2>3, NothingSentCut
<1>7. CASE SendNext
  <2>1. /\ UNCHANGED <<requires, items, cycles, entry, dirty, waits>> /\ nextItems' = {}
        /\ SendQueueItemTasks(nextItems) /\ pc # "parse"
    BY <1>7 DEF SendNext, CallProgress, parseVars, graph
  <2>2. \A n \in nextItems : (requires[n] \cap dirty) \subseteq cycles[n]
    BY DEF CutInv
  <2> QED BY <2>1, <2>2, SentCut
<1>8. CASE BreakCycle
  <2>1. /\ UNCHANGED <<requires, items, cycles, entry, dirty, waits>> /\ nextItems' = {}
        /\ SendQueueItemTasks({FirstUnprocessed}) /\ pc = "progress"
    BY <1>8 DEF BreakCycle, CallProgress, parseVars, graph
  <2>2. (requires[FirstUnprocessed] \cap dirty) \subseteq cycles[FirstUnprocessed]
    BY <1>8, CycleLeft, FirstCut
  <2> QED BY <2>1, <2>2, SentCut
<1>9. CASE CheckItem
  <2>1. /\ UNCHANGED <<requires, items, cycles, entry, waits, nextItems>> /\ dirty' \subseteq dirty
        /\ pc = "sequential" /\ task' = [task EXCEPT ![FirstUnprocessed] = "over"]
        /\ \E n \in Item : task[n] = "none"
    BY <1>9 DEF CheckItem, parsed, queueVars
  <2>2. entry = "check"
    BY <2>1 DEF IInv, TypeOK, QueueInv
  <2>3. \A d \in Item : task[d] # "none" => d \notin dirty
    BY <2>1, <2>2 DEF IInv, CheckInv
  <2>4. (requires[FirstUnprocessed] \cap dirty) \subseteq cycles[FirstUnprocessed]
    BY <2>1, <2>3, FirstCut
  <2>5. Item' = Item /\ Item \subseteq Name
    BY <2>1, Items DEF Item
  <2>6. CyclesCut'
    BY <2>1, <2>4, <2>5, Items DEF CutInv, CyclesCut
  <2> QED BY <2>1, <2>2, <2>6 DEF CutInv
<1>10. CASE BeginQueue
  <2> DEFINE free == {n \in Item : waits'[n] = {}}
             S == IF free # {} THEN free ELSE {FirstUnprocessed}
  <2>1. /\ UNCHANGED <<requires, items, cycles, entry, dirty, nextItems>> /\ pc = "parse"
        /\ waits' = [n \in Name |-> IF n \in Item THEN requires[n] \cap dirty ELSE {}]
        /\ SendQueueItemTasks(S) /\ items # <<>>
    BY <1>10 DEF BeginQueue, parseVars, graph
  <2>2. nextItems = {} /\ \A n \in Name : task[n] = "none"
    BY <2>1 DEF IInv, ParseInv
  <2>3. Item' = Item /\ Item \subseteq Name
    BY <2>1, Items DEF Item
  <2>4. \E n \in Item : task[n] = "none"
    <3>1. 1 \in DOMAIN items
      BY <2>1, Items, EmptySeq, LenProperties
    <3> QED BY <2>2, <3>1, Items DEF Item, ToSet
  <2>5. (requires[FirstUnprocessed] \cap dirty) \subseteq cycles[FirstUnprocessed]
    BY <2>2, <2>3, <2>4, FirstCut
  <2>6. \A n \in S : (requires[n] \cap dirty) \subseteq cycles[n]
    BY <2>1, <2>3, <2>5
  <2> HIDE DEF S
  <2>7. CyclesCut'
    BY <2>1, <2>2, <2>3, <2>6 DEF CyclesCut, SendQueueItemTasks
  <2>8. \A n \in Item' : (requires'[n] \cap dirty') \subseteq waits'[n]
    BY <2>1, <2>3
  <2> QED BY <2>1, <2>2, <2>7, <2>8 DEF CutInv
<1> QED BY <1>1, <1>2, <1>3, <1>4, <1>5, <1>6, <1>7, <1>8, <1>9, <1>10 DEF Next, Main

LEMMA InitCut == Init => CutInv
<1> SUFFICES ASSUME Init PROVE CutInv
  OBVIOUS
<1>1. Item = {} /\ nextItems = {} /\ pc = "parse"
  BY DEF Init, ParseInit, Item, ToSet
<1> QED BY <1>1 DEF CutInv, CyclesCut

\* A module is checked before one it requires only if the two are on a cycle, which is
\* reported: whatever order the threads of the executor work in.
THEOREM CyclesCutCorrect == Spec => []CyclesCut
<1>1. CutInv => CyclesCut
  BY DEF CutInv
<1> QED BY <1>1, InitCut, CutStep, Invariance, Ordered, PTL DEF Spec

-----------------------------------------------------------------------------
(* The workers: the inductive invariant                                     *)

Unfinished == {"sent", "checked", "pushed"}
Task_ == Name \cup {NoTask}

\* What waits for a worker: the queue, and what main has yet to push.
Queue == tasks \o outbox
RunningWorkers == {w \in Worker : worker[w] = "run"}
EndedWorkers == {w \in Worker : worker[w] = "ended"}

SchedulerTypeOK ==
    /\ tasks \in Seq(Task_) /\ outbox \in Seq(Task_)
    /\ worker \in [Worker -> {"pop", "waiting", "run", "ended"}]
    /\ job \in [Worker -> Task_]
    /\ phase \in {"none", "use", "destroy", "joined"} /\ notifying \in BOOLEAN

\* The item of every unfinished task is in one place: once in the queue, or the job of one
\* worker.
TaskInOnePlace ==
    /\ \A i \in DOMAIN Queue : Queue[i] \in Name => task[Queue[i]] = "sent"
    /\ \A i, j \in DOMAIN Queue : Queue[i] = Queue[j] /\ Queue[i] \in Name => i = j
    /\ \A w \in RunningWorkers :
          /\ job[w] \in Name /\ task[job[w]] \in Unfinished
          /\ \A i \in DOMAIN Queue : job[w] # Queue[i]
    /\ \A v, w \in RunningWorkers : job[v] = job[w] => v = w
    /\ \A n \in Name : task[n] \in Unfinished =>
          \/ \E i \in DOMAIN Queue : Queue[i] = n
          \/ \E w \in RunningWorkers : job[w] = n

\* There is an empty task for each worker that has yet to end, and no other.
EmptyTasks ==
    /\ phase \in {"none", "use"} =>
          EndedWorkers = {} /\ \A i \in DOMAIN Queue : Queue[i] # NoTask
    /\ phase \in {"destroy", "joined"} =>
          /\ pc \in Ended /\ \A i \in DOMAIN Queue : Queue[i] = NoTask
          /\ Len(Queue) + Cardinality(EndedWorkers) = Cardinality(Worker)
    /\ phase = "joined" => EndedWorkers = Worker

SchedulerInv == SchedulerTypeOK /\ TaskInOnePlace /\ EmptyTasks

-----------------------------------------------------------------------------
(* The queue                                                                *)

LEMMA QueueIs ==
  ASSUME SchedulerTypeOK
  PROVE  /\ Queue \in Seq(Task_) /\ Len(Queue) = Len(tasks) + Len(outbox)
         /\ Len(tasks) \in Nat /\ Len(outbox) \in Nat /\ DOMAIN Queue = 1 .. Len(Queue)
         /\ DOMAIN tasks = 1 .. Len(tasks) /\ DOMAIN outbox = 1 .. Len(outbox)
         /\ \A i \in 1 .. (Len(tasks) + Len(outbox)) :
               Queue[i] = IF i <= Len(tasks) THEN tasks[i] ELSE outbox[i - Len(tasks)]
BY ConcatProperties, LenProperties DEF SchedulerTypeOK, Queue

\* What is pushed stays in its place of the queue.
LEMMA PushKeepsQueue ==
  ASSUME SchedulerTypeOK, outbox # <<>>, tasks' = Append(tasks, Head(outbox)), outbox' = Tail(outbox)
  PROVE  /\ Queue' = Queue /\ tasks' \in Seq(Task_) /\ outbox' \in Seq(Task_)
<1> DEFINE h == Head(outbox)
<1>1. tasks \in Seq(Task_) /\ outbox \in Seq(Task_)
  BY DEF SchedulerTypeOK
<1>2. h \in Task_ /\ outbox' \in Seq(Task_)
  BY <1>1, HeadTailProperties
<1>3. tasks' = tasks \o <<h>> /\ tasks' \in Seq(Task_) /\ <<h>> \in Seq(Task_)
  BY <1>1, <1>2, AppendIsConcat, AppendProperties
<1>4. outbox = <<h>> \o outbox'
  <2>1. /\ Len(outbox) \in Nat \ {0} /\ Len(outbox') = Len(outbox) - 1
        /\ \A i \in 1 .. Len(outbox') : outbox'[i] = outbox[i + 1]
        /\ h = outbox[1]
    BY <1>1, HeadTailProperties, EmptySeq
  <2>2. /\ <<h>> \o outbox' \in Seq(Task_) /\ Len(<<h>>) = 1 /\ <<h>>[1] = h
        /\ Len(<<h>> \o outbox') = 1 + Len(outbox')
        /\ \A i \in 1 .. (1 + Len(outbox')) :
              (<<h>> \o outbox')[i] = IF i <= 1 THEN <<h>>[i] ELSE outbox'[i - 1]
    BY <1>2, <1>3, ConcatProperties
  <2> DEFINE t == <<h>> \o outbox'
  <2> HIDE DEF t
  <2>3. Len(t) = Len(outbox) /\ t \in Seq(Task_)
    BY <2>1, <2>2 DEF t
  <2>4. ASSUME NEW i \in 1 .. Len(outbox)
        PROVE  t[i] = outbox[i]
    <3>1. CASE i = 1
      BY <2>1, <2>2, <3>1 DEF t
    <3>2. CASE i > 1
      <4>1. i \in 1 .. (1 + Len(outbox')) /\ ~ (i <= 1) /\ i - 1 \in 1 .. Len(outbox') /\ (i - 1) + 1 = i
        BY <2>1, <3>2
      <4> QED BY <2>1, <2>2, <4>1 DEF t
    <3> QED BY <2>1, <3>1, <3>2
  <2>5. t = outbox
    BY <1>1, <2>3, <2>4, SeqEqual
  <2> QED BY <2>5 DEF t
<1> HIDE DEF h
<1>5. (tasks \o <<h>>) \o outbox' = tasks \o (<<h>> \o outbox')
  BY <1>1, <1>2, <1>3, ConcatAssociative
<1>6. Queue' = Queue
  BY <1>3, <1>4, <1>5 DEF Queue
<1> QED BY <1>2, <1>3, <1>6

\* What is popped is the first of the queue.
LEMMA PopTakesFirst ==
  ASSUME SchedulerTypeOK, tasks # <<>>, tasks' = Tail(tasks), outbox' = outbox
  PROVE  /\ tasks' \in Seq(Task_) /\ Head(tasks) \in Task_ /\ Head(tasks) = Queue[1]
         /\ Len(Queue) \in Nat \ {0} /\ Len(Queue') = Len(Queue) - 1
         /\ DOMAIN Queue = 1 .. Len(Queue) /\ DOMAIN Queue' = 1 .. (Len(Queue) - 1)
         /\ \A i \in 1 .. (Len(Queue) - 1) : Queue'[i] = Queue[i + 1]
<1>1. tasks \in Seq(Task_) /\ outbox \in Seq(Task_)
  BY DEF SchedulerTypeOK
<1>2. /\ tasks' \in Seq(Task_) /\ Head(tasks) \in Task_ /\ Len(tasks) \in Nat \ {0}
      /\ Len(tasks') = Len(tasks) - 1
      /\ \A i \in 1 .. Len(tasks') : tasks'[i] = tasks[i + 1]
      /\ Head(tasks) = tasks[1]
  BY <1>1, HeadTailProperties, EmptySeq
<1>3. /\ Queue \in Seq(Task_) /\ Len(Queue) = Len(tasks) + Len(outbox)
      /\ Len(outbox) \in Nat /\ DOMAIN Queue = 1 .. Len(Queue)
      /\ \A i \in 1 .. (Len(tasks) + Len(outbox)) :
            Queue[i] = IF i <= Len(tasks) THEN tasks[i] ELSE outbox[i - Len(tasks)]
  BY QueueIs
<1>4. /\ Queue' \in Seq(Task_) /\ Len(Queue') = Len(tasks') + Len(outbox)
      /\ DOMAIN Queue' = 1 .. Len(Queue')
      /\ \A i \in 1 .. (Len(tasks') + Len(outbox)) :
            Queue'[i] = IF i <= Len(tasks') THEN tasks'[i] ELSE outbox[i - Len(tasks')]
  BY <1>1, <1>2, ConcatProperties, LenProperties DEF Queue
<1>5. Head(tasks) = Queue[1]
  <2>1. 1 \in 1 .. (Len(tasks) + Len(outbox)) /\ 1 <= Len(tasks)
    BY <1>2, <1>3
  <2> QED BY <1>2, <1>3, <2>1
<1>6. ASSUME NEW i \in 1 .. (Len(Queue) - 1)
      PROVE  Queue'[i] = Queue[i + 1]
  <2>1. CASE i <= Len(tasks')
    <3>1. /\ i \in 1 .. (Len(tasks') + Len(outbox)) /\ i \in 1 .. Len(tasks')
          /\ i + 1 \in 1 .. (Len(tasks) + Len(outbox)) /\ i + 1 <= Len(tasks)
      BY <1>2, <1>3, <2>1
    <3> QED BY <1>2, <1>3, <1>4, <2>1, <3>1
  <2>2. CASE i > Len(tasks')
    <3>1. /\ i \in 1 .. (Len(tasks') + Len(outbox)) /\ ~ (i <= Len(tasks'))
          /\ i + 1 \in 1 .. (Len(tasks) + Len(outbox)) /\ ~ (i + 1 <= Len(tasks))
          /\ i - Len(tasks') = (i + 1) - Len(tasks)
      BY <1>2, <1>3, <2>2
    <3> QED BY <1>3, <1>4, <3>1
  <2> QED BY <1>2, <2>1, <2>2
<1>7. Len(Queue) \in Nat \ {0} /\ Len(Queue') = Len(Queue) - 1
  BY <1>2, <1>3, <1>4
<1> QED BY <1>2, <1>3, <1>4, <1>5, <1>6, <1>7

-----------------------------------------------------------------------------
(* The executor of BuildQueue                                               *)

\* Main gives out what was not given out, and what it does itself is over at once.
LEMMA MainSends ==
  ASSUME IInv, Main, NEW n \in Name
  PROVE  /\ task[n] # "none" => task'[n] = task[n]
         /\ task[n] = "none" => task'[n] \in {"none", "sent", "over"}
         /\ pc \notin Ended
<1>0. task \in [Name -> {"none", "sent", "checked", "pushed", "over"}]
  BY Items
<1>1. CASE UNCHANGED task /\ pc \notin Ended
  BY <1>1
<1>2. CASE Search \/ NothingToDo \/ BeginCheck \/ EndCheck \/ Wait \/ HandleReady \/ EndQueue
  <2>1. UNCHANGED task /\ pc \in {"parse", "sequential", "loop"}
    BY <1>2 DEF Search, NothingToDo, BeginCheck, EndCheck, Wait, WaitWhen, HandleReady, Batch,
       EndQueue, queueVars
  <2> QED BY <1>1, <2>1 DEF Ended
<1>3. CASE KeepGoing \/ Cancel \/ Throw
  <2>1. UNCHANGED task /\ pc = "progress"
    BY <1>3 DEF KeepGoing, Cancel, Throw, ThrowWhen, Proceed, CallProgress
  <2> QED BY <1>1, <2>1 DEF Ended
<1>4. CASE CheckItem
  <2>1. /\ task' = [task EXCEPT ![FirstUnprocessed] = "over"] /\ pc = "sequential"
        /\ \E m \in Item : task[m] = "none"
    BY <1>4 DEF CheckItem
  <2>2. task[FirstUnprocessed] = "none"
    BY <2>1, Items, FirstIsItem
  <2> QED BY <1>0, <2>1, <2>2 DEF Ended
<1>5. CASE BeginQueue
  <2>1. \A m \in Name : task[m] = "none"
    BY <1>5 DEF BeginQueue, IInv, ParseInv
  <2>2. \E S : SendQueueItemTasks(S)
    BY <1>5 DEF BeginQueue
  <2>3. pc = "parse"
    BY <1>5 DEF BeginQueue
  <2> QED BY <2>1, <2>2, <2>3 DEF SendQueueItemTasks, Ended
<1>6. CASE SendNext
  <2>1. SendQueueItemTasks(nextItems) /\ pc = "progress"
    BY <1>6 DEF SendNext, CallProgress
  <2>2. \A m \in nextItems : task[m] = "none"
    BY <2>1 DEF IInv, TypeOK, CheckInv, QueueInv, Ended
  <2> QED BY <1>0, <2>1, <2>2 DEF SendQueueItemTasks, Ended
<1>7. CASE BreakCycle
  <2>1. SendQueueItemTasks({FirstUnprocessed}) /\ pc = "progress"
    BY <1>7 DEF BreakCycle, CallProgress
  <2>2. \E m \in Item : task[m] = "none"
    BY <1>7, CycleLeft
  <2>3. task[FirstUnprocessed] = "none"
    BY <2>2, Items, FirstIsItem
  <2> QED BY <1>0, <2>1, <2>3 DEF SendQueueItemTasks, Ended
<1> QED BY <1>2, <1>3, <1>4, <1>5, <1>6, <1>7 DEF Main

\* A step of the scheduler is one of BuildQueue or changes nothing of it.
LEMMA SchedulerIsExecutor ==
  ASSUME SchedulerInv, [SchedulerNext]_<<vars, schedulerVars>>
  PROVE  [Next]_vars
<1>1. CASE MainThread
  BY <1>1 DEF MainThread, MainGoesOn, Push, PushWhen, NotifyWorker, DestroyScheduler, JoinWorkers, Next
<1>2. CASE MainWakes
  BY <1>2 DEF MainWakes, Next
<1>3. ASSUME NEW w \in Worker, WorkerThread(w) \/ WakeWorker(w)
      PROVE  [Next]_vars
  <2>1. CASE RunTask(w)
    <3>1. job[w] \in Name
      BY <2>1 DEF RunTask, SchedulerInv, TaskInOnePlace, RunningWorkers
    <3> QED BY <2>1, <3>1 DEF RunTask, Next
  <2>2. CASE PopTask(w) \/ WaitForTask(w) \/ WakeWorker(w)
    BY <2>2 DEF PopTask, WaitForTask, WakeWorker
  <2> QED BY <1>3, <2>1, <2>2 DEF WorkerThread
<1>4. CASE UNCHANGED <<vars, schedulerVars>>
  BY <1>4
<1> QED BY <1>1, <1>2, <1>3, <1>4 DEF SchedulerNext

LEMMA InitScheduler == Init /\ SchedulerInit => SchedulerInv
<1> SUFFICES ASSUME Init, SchedulerInit PROVE SchedulerInv
  OBVIOUS
<1>1. /\ tasks = <<>> /\ outbox = <<>> /\ phase \in {"none", "use"} /\ notifying = FALSE
      /\ worker = [w \in Worker |-> "pop"] /\ job = [w \in Worker |-> NoTask]
      /\ task = [n \in Name |-> "none"]
  BY DEF Init, SchedulerInit
<1>2. SchedulerTypeOK
  <2>1. tasks \in Seq(Task_) /\ outbox \in Seq(Task_)
    BY <1>1
  <2> QED BY <1>1, <2>1 DEF SchedulerTypeOK, Task_
<1>3. Len(Queue) = 0 /\ DOMAIN Queue = {}
  <2>1. Len(tasks) = 0 /\ Len(outbox) = 0
    BY <1>1
  <2>2. Len(Queue) = 0 /\ DOMAIN Queue = 1 .. 0
    BY <1>2, <2>1, QueueIs
  <2> QED BY <2>2
<1>4. RunningWorkers = {} /\ EndedWorkers = {}
  BY <1>1 DEF RunningWorkers, EndedWorkers
<1>5. TaskInOnePlace
  BY <1>1, <1>3, <1>4 DEF TaskInOnePlace, Unfinished
<1> QED BY <1>1, <1>2, <1>3, <1>4, <1>5 DEF SchedulerInv, EmptyTasks

\* Main gives tasks to the scheduler.
LEMMA MainGoesOnStep ==
  ASSUME IInv, SchedulerInv, MainGoesOn
  PROVE  SchedulerInv'
<1> DEFINE New == {n \in Name : task[n] = "none" /\ task'[n] = "sent"}
<1>1. /\ phase = "use" /\ outbox = <<>> /\ Main /\ outbox' \in SetToSeqs(New)
      /\ UNCHANGED <<phase, tasks, worker, job, notifying>>
  BY DEF MainGoesOn, AtLeisure
<1>2. /\ outbox' \in Seq(Task_) /\ DOMAIN outbox' = 1 .. Len(outbox') /\ Len(outbox') \in Nat
      /\ \A i \in DOMAIN outbox' : outbox'[i] \in New
      /\ \A i, j \in DOMAIN outbox' : outbox'[i] = outbox'[j] => i = j
      /\ \A n \in New : \E i \in DOMAIN outbox' : outbox'[i] = n
  <2> DEFINE C == Cardinality(New)
  <2>1. IsFiniteSet(New) /\ C \in Nat /\ New \subseteq Task_
    BY Finite DEF Task_
  <2>2. outbox' \in [1 .. C -> New] /\ \A i, j \in 1 .. C : i # j => outbox'[i] # outbox'[j]
    BY <1>1 DEF SetToSeqs
  <2> HIDE DEF New
  <2>3. C = Cardinality(New)
    OBVIOUS
  <2> HIDE DEF C
  <2>4. outbox' \in Seq(New)
    BY <2>1, <2>2, SeqDef
  <2>5. outbox' \in Seq(Task_)
    BY <2>1, <2>4, SeqMonotonic
  <2>6. outbox' \in Injection(1 .. C, New)
    BY <2>2 DEF Injection, IsInjective
  <2>7. Cardinality(1 .. C) = C
    BY <2>1, FS_Interval
  <2>8. outbox' \in Surjection(1 .. C, New)
    BY <2>1, <2>3, <2>6, <2>7, FS_Injection
  <2>9. DOMAIN outbox' = 1 .. C
    BY <2>2
  <2> QED BY <2>2, <2>4, <2>5, <2>8, <2>9, LenProperties DEF Surjection
<1>3. /\ SchedulerTypeOK /\ TaskInOnePlace /\ EmptyTasks
  BY DEF SchedulerInv
<1>4. SchedulerTypeOK'
  BY <1>1, <1>2, <1>3 DEF SchedulerTypeOK
<1>5. /\ Len(tasks) \in Nat /\ Len(outbox) = 0 /\ DOMAIN Queue = 1 .. Len(tasks)
      /\ \A i \in 1 .. Len(tasks) : Queue[i] = tasks[i]
      /\ DOMAIN Queue' = 1 .. (Len(tasks) + Len(outbox'))
      /\ \A i \in 1 .. (Len(tasks) + Len(outbox')) :
            Queue'[i] = IF i <= Len(tasks) THEN tasks[i] ELSE outbox'[i - Len(tasks)]
  <2>1. /\ Len(outbox) = 0 /\ Len(tasks) \in Nat /\ DOMAIN Queue = 1 .. Len(tasks)
        /\ \A i \in 1 .. Len(tasks) : Queue[i] = tasks[i]
    BY <1>1, <1>3, QueueIs
  <2>2. /\ tasks' \in Seq(Task_) /\ tasks' = tasks
    BY <1>1, <1>3 DEF SchedulerTypeOK
  <2>3. /\ Queue' \in Seq(Task_) /\ Len(Queue') = Len(tasks) + Len(outbox')
        /\ \A i \in 1 .. (Len(tasks) + Len(outbox')) :
              Queue'[i] = IF i <= Len(tasks) THEN tasks[i] ELSE outbox'[i - Len(tasks)]
    BY <1>2, <2>2, ConcatProperties DEF Queue
  <2> QED BY <2>1, <2>3, LenProperties
<1>6. ASSUME NEW i \in DOMAIN Queue'
      PROVE  \/ i \in DOMAIN Queue /\ Queue'[i] = Queue[i]
             \/ /\ i - Len(tasks) \in DOMAIN outbox' /\ i \notin DOMAIN Queue
                /\ Queue'[i] = outbox'[i - Len(tasks)] /\ Queue'[i] \in New
  <2>1. CASE i <= Len(tasks)
    BY <1>5, <2>1
  <2>2. CASE i > Len(tasks)
    <3>1. i - Len(tasks) \in 1 .. Len(outbox')
      BY <1>2, <1>5, <2>2
    <3> QED BY <1>2, <1>5, <2>2, <3>1
  <2> QED BY <1>5, <2>1, <2>2
<1>7. ASSUME NEW i \in DOMAIN Queue
      PROVE  i \in DOMAIN Queue' /\ Queue'[i] = Queue[i]
  BY <1>2, <1>5
<1>8. ASSUME NEW i \in DOMAIN outbox'
      PROVE  Len(tasks) + i \in DOMAIN Queue' /\ Queue'[Len(tasks) + i] = outbox'[i]
  BY <1>2, <1>5
<1>9. /\ \A n \in Name : task[n] # "none" => task'[n] = task[n]
      /\ \A n \in Name : task[n] = "none" => task'[n] \in {"none", "sent", "over"}
      /\ \A n \in New : n \in Name /\ task[n] = "none" /\ task'[n] = "sent"
      /\ \A n \in Name : task[n] = "none" /\ task'[n] = "sent" => n \in New
  BY <1>1, MainSends
<1>10. ASSUME NEW i \in DOMAIN Queue, Queue[i] \in Name
       PROVE  task[Queue[i]] = "sent" /\ Queue[i] \notin New
  BY <1>3, <1>9, <1>10 DEF TaskInOnePlace
<1> HIDE DEF New
<1>11. RunningWorkers' = RunningWorkers /\ EndedWorkers' = EndedWorkers
  BY <1>1 DEF RunningWorkers, EndedWorkers
<1>12. TaskInOnePlace'
  <2>1. ASSUME NEW i \in DOMAIN Queue', Queue'[i] \in Name
        PROVE  task'[Queue'[i]] = "sent"
    BY <1>6, <1>9, <1>10, <2>1
  <2>2. ASSUME NEW i \in DOMAIN Queue', NEW j \in DOMAIN Queue', Queue'[i] = Queue'[j], Queue'[i] \in Name
        PROVE  i = j
    <3>1. CASE i \in DOMAIN Queue /\ j \in DOMAIN Queue
      BY <1>3, <1>7, <2>2, <3>1 DEF TaskInOnePlace
    <3>2. CASE i \notin DOMAIN Queue /\ j \notin DOMAIN Queue
      <4>1. i - Len(tasks) = j - Len(tasks)
        BY <1>2, <1>6, <2>2, <3>2
      <4>2. i \in Int /\ j \in Int /\ Len(tasks) \in Int
        BY <1>5
      <4> QED BY <4>1, <4>2
    <3> QED BY <1>6, <1>7, <1>10, <2>2, <3>1, <3>2
  <2>3. ASSUME NEW w \in RunningWorkers
        PROVE  /\ job'[w] \in Name /\ task'[job'[w]] \in Unfinished
               /\ \A i \in DOMAIN Queue' : job'[w] # Queue'[i]
    <3>1. /\ job[w] \in Name /\ task[job[w]] \in Unfinished
          /\ \A i \in DOMAIN Queue : job[w] # Queue[i]
      BY <1>3 DEF TaskInOnePlace
    <3>2. task'[job[w]] = task[job[w]] /\ job[w] \notin New
      BY <1>9, <3>1 DEF Unfinished
    <3> QED BY <1>1, <1>6, <3>1, <3>2
  <2>4. ASSUME NEW n \in Name, task'[n] \in Unfinished
        PROVE  \/ \E i \in DOMAIN Queue' : Queue'[i] = n
               \/ \E w \in RunningWorkers : job[w] = n
    <3>1. CASE n \in New
      BY <1>2, <1>8, <3>1
    <3>2. CASE n \notin New
      <4>1. task[n] \in Unfinished
        BY <1>9, <2>4, <3>2 DEF Unfinished
      <4> QED BY <1>3, <1>7, <4>1 DEF TaskInOnePlace
    <3> QED BY <3>1, <3>2
  <2>5. \A v, w \in RunningWorkers' : job'[v] = job'[w] => v = w
    BY <1>1, <1>3, <1>11 DEF TaskInOnePlace
  <2> QED BY <1>1, <1>11, <2>1, <2>2, <2>3, <2>4, <2>5 DEF TaskInOnePlace
<1>13. EmptyTasks'
  <2>1. NoTask \notin New
    BY <1>9, WorkerAssumption
  <2> QED BY <1>1, <1>3, <1>6, <1>11, <2>1 DEF EmptyTasks
<1> QED BY <1>4, <1>12, <1>13 DEF SchedulerInv

\* Steps that keep the queue and what tasks have come to.
LEMMA WorkersMove ==
  ASSUME SchedulerInv, SchedulerTypeOK', Queue' = Queue, UNCHANGED <<task, job>>,
         RunningWorkers' = RunningWorkers, EndedWorkers' = EndedWorkers,
         phase' = phase \/ (phase = "destroy" /\ phase' = "joined" /\ EndedWorkers = Worker),
         pc \in Ended => pc' = pc
  PROVE  SchedulerInv'
<1>1. TaskInOnePlace'
  BY DEF SchedulerInv, TaskInOnePlace
<1>2. EmptyTasks'
  BY DEF SchedulerInv, EmptyTasks
<1> QED BY <1>1, <1>2 DEF SchedulerInv

LEMMA QuietStep ==
  ASSUME IInv, SchedulerInv,
         \/ MainWakes \/ Push \/ NotifyWorker \/ JoinWorkers
         \/ \E w \in Worker : WaitForTask(w) \/ WakeWorker(w)
         \/ UNCHANGED <<vars, schedulerVars>>
  PROVE  SchedulerInv'
<1>1. SchedulerTypeOK
  BY DEF SchedulerInv
<1>2. CASE Push
  <2>1. /\ outbox # <<>> /\ tasks' = Append(tasks, Head(outbox)) /\ outbox' = Tail(outbox)
        /\ notifying' = TRUE /\ UNCHANGED <<vars, phase, worker, job>>
    BY <1>2 DEF Push, PushWhen
  <2>2. Queue' = Queue /\ SchedulerTypeOK'
    BY <1>1, <2>1, PushKeepsQueue DEF SchedulerTypeOK
  <2>3. RunningWorkers' = RunningWorkers /\ EndedWorkers' = EndedWorkers /\ UNCHANGED <<task, pc>>
    BY <2>1 DEF RunningWorkers, EndedWorkers, vars
  <2> QED BY <2>1, <2>2, <2>3, WorkersMove
<1>3. CASE MainWakes \/ JoinWorkers \/ UNCHANGED <<vars, schedulerVars>>
  <2>1. /\ UNCHANGED <<task, tasks, outbox, worker, job, notifying>> /\ (pc \in Ended => pc' = pc)
        /\ phase' = phase \/ (phase = "destroy" /\ phase' = "joined" /\ EndedWorkers = Worker)
    BY <1>3 DEF MainWakes, JoinWorkers, SpuriousWake, vars, schedulerVars, EndedWorkers, Ended
  <2>2. Queue' = Queue /\ RunningWorkers' = RunningWorkers /\ EndedWorkers' = EndedWorkers
    BY <2>1 DEF Queue, RunningWorkers, EndedWorkers
  <2>3. SchedulerTypeOK'
    BY <1>1, <2>1 DEF SchedulerTypeOK
  <2> QED BY <2>1, <2>2, <2>3, WorkersMove
<1>4. CASE NotifyWorker \/ \E w \in Worker : WaitForTask(w) \/ WakeWorker(w)
  <2>1. /\ UNCHANGED <<vars, phase, tasks, outbox, job>> /\ notifying' \in BOOLEAN
        /\ \/ UNCHANGED worker
           \/ \E w \in Worker : /\ worker[w] \in {"pop", "waiting"}
                                 /\ \E s \in {"pop", "waiting"} : worker' = [worker EXCEPT ![w] = s]
    BY <1>1, <1>4 DEF NotifyWorker, WaitForTask, WakeWorker, SchedulerTypeOK
  <2>2. /\ worker' \in [Worker -> {"pop", "waiting", "run", "ended"}]
        /\ \A w \in Worker : worker'[w] = "run" <=> worker[w] = "run"
        /\ \A w \in Worker : worker'[w] = "ended" <=> worker[w] = "ended"
    BY <1>1, <2>1 DEF SchedulerTypeOK
  <2>3. SchedulerTypeOK'
    BY <1>1, <2>1, <2>2 DEF SchedulerTypeOK
  <2>4. Queue' = Queue /\ RunningWorkers' = RunningWorkers /\ EndedWorkers' = EndedWorkers
    BY <2>1, <2>2 DEF Queue, RunningWorkers, EndedWorkers
  <2>5. UNCHANGED <<task, pc>>
    BY <2>1 DEF vars
  <2> QED BY <2>1, <2>3, <2>4, <2>5, WorkersMove
<1> QED BY <1>2, <1>3, <1>4

\* A worker pops a task, which becomes its job, or the empty task, which ends it.
LEMMA PopTaskStep ==
  ASSUME SchedulerInv, NEW w \in Worker, PopTask(w)
  PROVE  SchedulerInv'
<1> DEFINE h == Head(tasks)
<1>1. /\ SchedulerTypeOK /\ TaskInOnePlace /\ EmptyTasks
  BY DEF SchedulerInv
<1>2. /\ phase # "none" /\ worker[w] = "pop" /\ tasks # <<>> /\ tasks' = Tail(tasks)
      /\ job' = [job EXCEPT ![w] = h]
      /\ worker' = [worker EXCEPT ![w] = IF h = NoTask THEN "ended" ELSE "run"]
      /\ UNCHANGED <<phase, outbox, notifying, task, pc>>
  BY DEF PopTask, vars
<1>3. /\ tasks' \in Seq(Task_) /\ h \in Task_ /\ h = Queue[1]
      /\ Len(Queue) \in Nat \ {0} /\ Len(Queue') = Len(Queue) - 1
      /\ DOMAIN Queue = 1 .. Len(Queue) /\ DOMAIN Queue' = 1 .. (Len(Queue) - 1)
      /\ \A i \in 1 .. (Len(Queue) - 1) : Queue'[i] = Queue[i + 1]
  BY <1>1, <1>2, PopTakesFirst
<1>4. SchedulerTypeOK'
  BY <1>1, <1>2, <1>3 DEF SchedulerTypeOK
<1>5. /\ \A v \in Worker : v # w => job'[v] = job[v] /\ worker'[v] = worker[v]
      /\ job'[w] = h /\ worker'[w] = IF h = NoTask THEN "ended" ELSE "run"
  BY <1>1, <1>2 DEF SchedulerTypeOK
<1>6. 1 \in DOMAIN Queue /\ \A i \in DOMAIN Queue' : /\ i + 1 \in DOMAIN Queue /\ i + 1 # 1
                                                    /\ Queue'[i] = Queue[i + 1]
  BY <1>3
<1>7. \A i \in DOMAIN Queue : i # 1 => i - 1 \in DOMAIN Queue' /\ Queue'[i - 1] = Queue[i]
  BY <1>3
<1> HIDE DEF h
<1>8. CASE h = NoTask
  <2>1. h \notin Name
    BY <1>8, WorkerAssumption
  <2>2. RunningWorkers' = RunningWorkers /\ w \notin RunningWorkers /\ w \notin EndedWorkers
        /\ EndedWorkers' = EndedWorkers \cup {w}
    BY <1>2, <1>5, <1>8 DEF RunningWorkers, EndedWorkers
  <2>3. TaskInOnePlace'
    <3>1. \A i \in DOMAIN Queue' : Queue'[i] \in Name => task'[Queue'[i]] = "sent"
      BY <1>1, <1>2, <1>6 DEF TaskInOnePlace
    <3>2. ASSUME NEW i \in DOMAIN Queue', NEW j \in DOMAIN Queue', Queue'[i] = Queue'[j], Queue'[i] \in Name
          PROVE  i = j
      <4>1. i + 1 = j + 1
        BY <1>1, <1>6, <3>2 DEF TaskInOnePlace
      <4>2. i \in Int /\ j \in Int
        BY <1>3
      <4> QED BY <4>1, <4>2
    <3>3. ASSUME NEW v \in RunningWorkers'
          PROVE  /\ job'[v] \in Name /\ task'[job'[v]] \in Unfinished
                 /\ \A i \in DOMAIN Queue' : job'[v] # Queue'[i]
      <4>1. job'[v] = job[v] /\ v \in RunningWorkers
        BY <1>5, <2>2 DEF RunningWorkers
      <4> QED BY <1>1, <1>2, <1>6, <4>1 DEF TaskInOnePlace
    <3>4. \A u, v \in RunningWorkers' : job'[u] = job'[v] => u = v
      BY <1>1, <1>5, <2>2 DEF TaskInOnePlace, RunningWorkers
    <3>5. ASSUME NEW n \in Name, task'[n] \in Unfinished
          PROVE  \/ \E i \in DOMAIN Queue' : Queue'[i] = n
                 \/ \E v \in RunningWorkers' : job'[v] = n
      <4>1. CASE \E i \in DOMAIN Queue : Queue[i] = n
        <5>1. PICK i \in DOMAIN Queue : Queue[i] = n
          BY <4>1
        <5>2. i # 1
          BY <1>3, <2>1, <5>1
        <5> QED BY <1>7, <5>1, <5>2
      <4>2. CASE \E v \in RunningWorkers : job[v] = n
        <5>1. PICK v \in RunningWorkers : job[v] = n
          BY <4>2
        <5>2. v \in Worker /\ v # w
          BY <2>2, <5>1 DEF RunningWorkers
        <5> QED BY <1>5, <2>2, <5>1, <5>2
      <4> QED BY <1>1, <1>2, <3>5, <4>1, <4>2 DEF TaskInOnePlace
    <3> QED BY <3>1, <3>2, <3>3, <3>4, <3>5 DEF TaskInOnePlace
  <2>4. Cardinality(EndedWorkers') = Cardinality(EndedWorkers) + 1 /\ Cardinality(EndedWorkers) \in Nat
    <3>1. IsFiniteSet(EndedWorkers)
      BY WorkerAssumption, FS_Subset DEF EndedWorkers
    <3> QED BY <2>2, <3>1, FS_AddElement, FS_CardinalityType
  <2>5. phase \in {"destroy", "joined"}
    BY <1>1, <1>3, <1>6, <1>8 DEF EmptyTasks, SchedulerTypeOK
  <2>6. /\ pc' \in Ended /\ \A i \in DOMAIN Queue' : Queue'[i] = NoTask
    BY <1>1, <1>2, <1>6, <2>5 DEF EmptyTasks
  <2>7. Len(Queue') + Cardinality(EndedWorkers') = Cardinality(Worker)
    <3>1. Len(Queue) + Cardinality(EndedWorkers) = Cardinality(Worker)
      BY <1>1, <2>5 DEF EmptyTasks
    <3>2. Len(Queue) - 1 + (Cardinality(EndedWorkers) + 1) = Len(Queue) + Cardinality(EndedWorkers)
      BY <1>3, <2>4
    <3> QED BY <1>3, <2>4, <3>1, <3>2
  <2>8. phase = "joined" => EndedWorkers' = Worker
    BY <1>1, <2>2 DEF EmptyTasks
  <2> QED BY <1>2, <1>4, <2>3, <2>5, <2>6, <2>7, <2>8 DEF SchedulerInv, EmptyTasks
<1>9. CASE h # NoTask
  <2>1. h \in Name
    BY <1>3, <1>9 DEF Task_
  <2>2. RunningWorkers' = RunningWorkers \cup {w} /\ w \notin RunningWorkers
        /\ EndedWorkers' = EndedWorkers
    BY <1>2, <1>5, <1>9 DEF RunningWorkers, EndedWorkers
  <2>3. /\ task[h] = "sent" /\ \A v \in RunningWorkers : job[v] # h
        /\ \A i \in DOMAIN Queue' : Queue'[i] # h
    <3>1. task[h] = "sent" /\ \A v \in RunningWorkers : job[v] # h
      BY <1>1, <1>3, <1>6, <2>1 DEF TaskInOnePlace
    <3>2. \A i \in DOMAIN Queue' : Queue'[i] # h
      BY <1>1, <1>3, <1>6, <2>1 DEF TaskInOnePlace
    <3> QED BY <3>1, <3>2
  <2>4. TaskInOnePlace'
    <3>1. \A i \in DOMAIN Queue' : Queue'[i] \in Name => task'[Queue'[i]] = "sent"
      BY <1>1, <1>2, <1>6 DEF TaskInOnePlace
    <3>2. ASSUME NEW i \in DOMAIN Queue', NEW j \in DOMAIN Queue', Queue'[i] = Queue'[j], Queue'[i] \in Name
          PROVE  i = j
      <4>1. i + 1 = j + 1
        BY <1>1, <1>6, <3>2 DEF TaskInOnePlace
      <4>2. i \in Int /\ j \in Int
        BY <1>3
      <4> QED BY <4>1, <4>2
    <3>3. ASSUME NEW v \in RunningWorkers'
          PROVE  /\ job'[v] \in Name /\ task'[job'[v]] \in Unfinished
                 /\ \A i \in DOMAIN Queue' : job'[v] # Queue'[i]
      <4>1. CASE v = w
        BY <1>2, <1>5, <2>1, <2>3, <4>1 DEF Unfinished
      <4>2. CASE v # w
        <5>1. job'[v] = job[v] /\ v \in RunningWorkers
          BY <1>5, <2>2, <4>2 DEF RunningWorkers
        <5> QED BY <1>1, <1>2, <1>6, <5>1 DEF TaskInOnePlace
      <4> QED BY <4>1, <4>2
    <3>4. ASSUME NEW u \in RunningWorkers', NEW v \in RunningWorkers', job'[u] = job'[v]
          PROVE  u = v
      <4>1. \A x \in RunningWorkers : x # w /\ job'[x] = job[x]
        BY <1>5, <2>2 DEF RunningWorkers
      <4> QED BY <1>1, <1>5, <2>2, <2>3, <3>4, <4>1 DEF TaskInOnePlace
    <3>5. ASSUME NEW n \in Name, task'[n] \in Unfinished
          PROVE  \/ \E i \in DOMAIN Queue' : Queue'[i] = n
                 \/ \E v \in RunningWorkers' : job'[v] = n
      <4>1. CASE \E i \in DOMAIN Queue : Queue[i] = n
        <5>1. PICK i \in DOMAIN Queue : Queue[i] = n
          BY <4>1
        <5>2. CASE i = 1
          BY <1>3, <1>5, <2>2, <5>1, <5>2
        <5>3. CASE i # 1
          BY <1>7, <5>1, <5>3
        <5> QED BY <5>2, <5>3
      <4>2. CASE \E v \in RunningWorkers : job[v] = n
        <5>1. PICK v \in RunningWorkers : job[v] = n
          BY <4>2
        <5>2. v \in Worker /\ v # w
          BY <2>2, <5>1 DEF RunningWorkers
        <5> QED BY <1>5, <2>2, <5>1, <5>2
      <4> QED BY <1>1, <1>2, <3>5, <4>1, <4>2 DEF TaskInOnePlace
    <3> QED BY <3>1, <3>2, <3>3, <3>4, <3>5 DEF TaskInOnePlace
  <2>5. phase \notin {"destroy", "joined"}
    BY <1>1, <1>3, <1>6, <1>9 DEF EmptyTasks
  <2>6. \A i \in DOMAIN Queue' : Queue'[i] # NoTask
    BY <1>1, <1>6, <2>5 DEF EmptyTasks, SchedulerTypeOK
  <2> QED BY <1>1, <1>2, <1>4, <2>2, <2>4, <2>5, <2>6 DEF SchedulerInv, EmptyTasks, SchedulerTypeOK
<1> QED BY <1>8, <1>9

\* A worker goes on with its task, and is free when the task is over.
LEMMA RunTaskStep ==
  ASSUME IInv, SchedulerInv, NEW w \in Worker, RunTask(w)
  PROVE  SchedulerInv'
<1> DEFINE n == job[w]
<1>0. task \in [Name -> {"none", "sent", "checked", "pushed", "over"}]
  BY Items
<1>1. /\ SchedulerTypeOK /\ TaskInOnePlace /\ EmptyTasks
  BY DEF SchedulerInv
<1>2. /\ worker[w] = "run" /\ Task(n) /\ UNCHANGED <<phase, tasks, job, outbox, notifying>>
      /\ worker' = IF task'[n] = "over" THEN [worker EXCEPT ![w] = "pop"] ELSE worker
  BY DEF RunTask
<1>3. w \in RunningWorkers /\ n \in Name /\ \A i \in DOMAIN Queue : n # Queue[i]
  BY <1>1, <1>2 DEF RunningWorkers, TaskInOnePlace
<1>4. /\ task'[n] \in {"checked", "pushed", "over"}
      /\ \A m \in Name : m # n => task'[m] = task[m]
      /\ pc \in Ended => pc' = pc
  BY <1>0, <1>2, <1>3 DEF Task, CheckTask, PushReady, NotifyOne, Ended
<1>5. Queue' = Queue
  BY <1>2 DEF Queue
<1>6. SchedulerTypeOK'
  BY <1>1, <1>2 DEF SchedulerTypeOK
<1> HIDE DEF n
<1>7. /\ EndedWorkers' = EndedWorkers
      /\ RunningWorkers' = IF task'[n] = "over" THEN RunningWorkers \ {w} ELSE RunningWorkers
  BY <1>1, <1>2 DEF SchedulerTypeOK, EndedWorkers, RunningWorkers
<1>8. TaskInOnePlace'
  <2>1. \A i \in DOMAIN Queue' : Queue'[i] \in Name => task'[Queue'[i]] = "sent"
    BY <1>1, <1>3, <1>4, <1>5 DEF TaskInOnePlace
  <2>2. \A i, j \in DOMAIN Queue' : Queue'[i] = Queue'[j] /\ Queue'[i] \in Name => i = j
    BY <1>1, <1>5 DEF TaskInOnePlace
  <2>3. ASSUME NEW v \in RunningWorkers'
        PROVE  /\ job'[v] \in Name /\ task'[job'[v]] \in Unfinished
               /\ \A i \in DOMAIN Queue' : job'[v] # Queue'[i]
    <3>1. v \in RunningWorkers /\ job'[v] = job[v]
      BY <1>2, <1>7
    <3>2. job[v] \in Name /\ task[job[v]] \in Unfinished /\ \A i \in DOMAIN Queue : job[v] # Queue[i]
      BY <1>1, <3>1 DEF TaskInOnePlace
    <3>3. CASE v = w
      <4>1. task'[n] # "over"
        BY <1>7, <3>3
      <4> QED BY <1>3, <1>4, <1>5, <3>1, <3>2, <3>3, <4>1 DEF n, Unfinished
    <3>4. CASE v # w
      <4>1. job[v] # n
        BY <1>1, <1>3, <3>1, <3>4 DEF TaskInOnePlace, n
      <4> QED BY <1>4, <1>5, <3>1, <3>2, <4>1
    <3> QED BY <3>3, <3>4
  <2>4. \A u, v \in RunningWorkers' : job'[u] = job'[v] => u = v
    BY <1>1, <1>2, <1>7 DEF TaskInOnePlace
  <2>5. ASSUME NEW m \in Name, task'[m] \in Unfinished
        PROVE  \/ \E i \in DOMAIN Queue' : Queue'[i] = m
               \/ \E v \in RunningWorkers' : job'[v] = m
    <3>1. CASE m = n
      <4>1. w \in RunningWorkers' /\ job'[w] = m
        BY <1>2, <1>3, <1>7, <2>5, <3>1 DEF n, Unfinished
      <4> QED BY <4>1
    <3>2. CASE m # n
      <4>1. task[m] \in Unfinished
        BY <1>4, <2>5, <3>2
      <4>2. ASSUME NEW v \in RunningWorkers, job[v] = m
            PROVE  v \in RunningWorkers' /\ job'[v] = m
        BY <1>2, <1>7, <3>2, <4>2 DEF n
      <4> QED BY <1>1, <1>5, <4>1, <4>2 DEF TaskInOnePlace
    <3> QED BY <3>1, <3>2
  <2> QED BY <2>1, <2>2, <2>3, <2>4, <2>5 DEF TaskInOnePlace
<1>9. EmptyTasks'
  BY <1>1, <1>2, <1>4, <1>5, <1>7 DEF EmptyTasks
<1> QED BY <1>6, <1>8, <1>9 DEF SchedulerInv

\* The scheduler is destroyed when its queue is empty: an empty task is sent for each worker.
LEMMA DestroySchedulerStep ==
  ASSUME SchedulerInv, NoTaskLeft, DestroyScheduler
  PROVE  SchedulerInv'
<1>1. /\ SchedulerTypeOK /\ TaskInOnePlace /\ EmptyTasks
  BY DEF SchedulerInv
<1> DEFINE C == Cardinality(Worker)
<1>2. /\ phase = "use" /\ pc \in Ended /\ outbox = <<>> /\ phase' = "destroy"
      /\ outbox' = [i \in 1 .. C |-> NoTask]
      /\ UNCHANGED <<task, pc, tasks, worker, job, notifying>>
  BY DEF DestroyScheduler, AtLeisure, vars
<1>3. C \in Nat
  BY WorkerAssumption, FS_CardinalityType
<1> HIDE DEF C
<1>4. outbox' \in Seq(Task_) /\ Len(outbox') = C /\ \A i \in 1 .. C : outbox'[i] = NoTask
  <2>1. outbox' \in [1 .. C -> Task_]
    BY <1>2 DEF Task_
  <2>2. outbox' \in Seq(Task_) /\ DOMAIN outbox' = 1 .. C
    BY <1>3, <2>1, SeqDef
  <2>3. Len(outbox') = C
    BY <1>3, <2>2, LenProperties
  <2> QED BY <1>2, <2>2, <2>3
<1>5. tasks = <<>>
  <2>1. /\ Len(tasks) \in Nat /\ Len(outbox) \in Nat /\ DOMAIN Queue = 1 .. Len(Queue)
        /\ Len(Queue) = Len(tasks) + Len(outbox) /\ Queue \in Seq(Task_)
    BY <1>1, QueueIs
  <2>2. ASSUME Len(tasks) # 0 PROVE FALSE
    <3>1. 1 \in DOMAIN Queue
      BY <2>1, <2>2
    <3>2. Queue[1] \in Task_
      BY <2>1, <3>1, ElementOfSeq
    <3>3. Queue[1] \in Name
      BY <1>1, <1>2, <3>1, <3>2 DEF EmptyTasks, Task_
    <3>4. task[Queue[1]] = "sent"
      BY <1>1, <3>1, <3>3 DEF TaskInOnePlace
    <3> QED BY <1>2, <3>3, <3>4 DEF NoTaskLeft
  <2> QED BY <1>1, <2>2, EmptySeq DEF SchedulerTypeOK
<1>6. SchedulerTypeOK'
  BY <1>1, <1>2, <1>4 DEF SchedulerTypeOK
<1>7. Len(Queue') = C /\ DOMAIN Queue' = 1 .. C /\ \A i \in 1 .. C : Queue'[i] = NoTask
  <2>1. Len(tasks') = 0 /\ tasks' \in Seq(Task_)
    BY <1>1, <1>2, <1>5 DEF SchedulerTypeOK
  <2>2. /\ Queue' \in Seq(Task_) /\ Len(Queue') = Len(tasks') + Len(outbox')
        /\ \A i \in 1 .. (Len(tasks') + Len(outbox')) :
              Queue'[i] = IF i <= Len(tasks') THEN tasks'[i] ELSE outbox'[i - Len(tasks')]
    BY <1>4, <2>1, ConcatProperties DEF Queue
  <2>3. Len(Queue') = C /\ DOMAIN Queue' = 1 .. C
    BY <1>3, <1>4, <2>1, <2>2, LenProperties
  <2> QED BY <1>3, <1>4, <2>1, <2>2, <2>3
<1>8. RunningWorkers' = RunningWorkers /\ EndedWorkers' = EndedWorkers /\ EndedWorkers = {}
  BY <1>1, <1>2 DEF RunningWorkers, EndedWorkers, EmptyTasks
<1>9. Len(Queue) = 0 /\ DOMAIN Queue = {}
  <2>1. Len(Queue) = 0 /\ DOMAIN Queue = 1 .. 0
    BY <1>1, <1>2, <1>5, QueueIs
  <2> QED BY <2>1
<1>10. TaskInOnePlace'
  <2>1. ASSUME NEW v \in RunningWorkers
        PROVE  /\ job'[v] \in Name /\ task'[job'[v]] \in Unfinished
               /\ \A i \in DOMAIN Queue' : job'[v] # Queue'[i]
    BY <1>1, <1>2, <1>7, WorkerAssumption DEF TaskInOnePlace
  <2>2. \A n \in Name : task'[n] \in Unfinished => \E v \in RunningWorkers : job'[v] = n
    BY <1>1, <1>2, <1>9 DEF TaskInOnePlace
  <2>3. \A i \in DOMAIN Queue' : Queue'[i] \notin Name
    BY <1>7, WorkerAssumption
  <2>4. \A u, v \in RunningWorkers : job'[u] = job'[v] => u = v
    BY <1>1, <1>2 DEF TaskInOnePlace
  <2> QED BY <1>8, <2>1, <2>2, <2>3, <2>4 DEF TaskInOnePlace
<1>11. EmptyTasks'
  <2>1. Cardinality(EndedWorkers') = 0
    BY <1>8, FS_EmptySet
  <2> QED BY <1>2, <1>3, <1>7, <2>1 DEF EmptyTasks, C
<1> QED BY <1>6, <1>10, <1>11 DEF SchedulerInv

LEMMA SchedulerStep ==
  ASSUME IInv, SchedulerInv, [SchedulerNext]_<<vars, schedulerVars>>
  PROVE  SchedulerInv'
<1>1. NoTaskLeft
  BY InvImplies
<1> QED BY <1>1, MainGoesOnStep, PopTaskStep, RunTaskStep, DestroySchedulerStep, QuietStep
        DEF SchedulerNext, MainThread, WorkerThread

-----------------------------------------------------------------------------
(* The workers: what is proved                                              *)

\* The workers are an executor as BuildQueue assumes one: the main thread and the
\* workers of luau-analyze do nothing that BuildQueue does not.
THEOREM SchedulerImplementsQueue == SchedulerSpec => Init /\ [][Next]_vars
<1> USE DEF SchedulerSpec
<1>1. IInv /\ [Next]_vars => IInv'
  BY NextInv
<1> QED BY <1>1, InitInv, InitScheduler, SchedulerIsExecutor, SchedulerStep, PTL

\* So the build queue is as correct with these workers as with any executor: the counts,
\* the order and the cycles, and that no thread is checking when a call has returned.
THEOREM SchedulerChecksInOrder ==
  SchedulerSpec => [](CountsExact /\ NoTaskLeft /\ DoneMeansChecked /\ BuildOrder /\ CyclesCut)
<1>1. IInv /\ [Next]_vars => IInv'
  BY NextInv
<1>2. CutInv => CyclesCut
  BY DEF CutInv
<1>3. SchedulerSpec => Init
  BY DEF SchedulerSpec
<1> QED BY <1>1, <1>2, <1>3, SchedulerImplementsQueue, InitInv, InitOrder, OrderStep, InitCut, CutStep,
           InvImplies, OrderImplies, PTL

LEMMA SchedulerInvariance == SchedulerSpec => [](IInv /\ SchedulerInv)
<1>1. IInv /\ [Next]_vars => IInv'
  BY NextInv
<1> QED BY <1>1, SchedulerImplementsQueue, InitInv, InitScheduler, SchedulerStep, PTL DEF SchedulerSpec

\* No task is lost, and none runs twice or on two workers: the task of an item is in the
\* queue once, or the job of one worker, until it is over.
THEOREM TaskInOnePlaceCorrect == SchedulerSpec => []TaskInOnePlace
<1>1. SchedulerInv => TaskInOnePlace
  BY DEF SchedulerInv
<1> QED BY <1>1, SchedulerInvariance, PTL

\* Once the workers are joined, the call has returned or thrown, the queue is empty and no
\* task is unfinished: nothing refers to the destroyed scheduler or to the Frontend.
NothingLeft ==
    phase = "joined" =>
        /\ pc \in Ended /\ tasks = <<>> /\ outbox = <<>>
        /\ \A n \in Name : task[n] \notin Unfinished
THEOREM NothingLeftCorrect == SchedulerSpec => []NothingLeft
<1>1. SchedulerInv => NothingLeft
  <2> SUFFICES ASSUME SchedulerInv, phase = "joined"
               PROVE  /\ pc \in Ended /\ tasks = <<>> /\ outbox = <<>>
                      /\ \A n \in Name : task[n] \notin Unfinished
    BY DEF NothingLeft
  <2>1. SchedulerTypeOK /\ TaskInOnePlace /\ EmptyTasks
    BY DEF SchedulerInv
  <2>2. EndedWorkers = Worker /\ pc \in Ended /\ Len(Queue) + Cardinality(Worker) = Cardinality(Worker)
    BY <2>1 DEF EmptyTasks
  <2>3. Cardinality(Worker) \in Nat
    BY WorkerAssumption, FS_CardinalityType
  <2>4. /\ Len(Queue) = Len(tasks) + Len(outbox) /\ Len(tasks) \in Nat /\ Len(outbox) \in Nat
        /\ DOMAIN Queue = 1 .. Len(Queue)
    BY <2>1, QueueIs
  <2>5. Len(tasks) = 0 /\ Len(outbox) = 0 /\ DOMAIN Queue = {}
    BY <2>2, <2>3, <2>4
  <2>6. tasks = <<>> /\ outbox = <<>>
    BY <2>1, <2>5, EmptySeq DEF SchedulerTypeOK
  <2>7. RunningWorkers = {}
    BY <2>2 DEF RunningWorkers, EndedWorkers
  <2> QED BY <2>1, <2>2, <2>5, <2>6, <2>7 DEF TaskInOnePlace
<1> QED BY <1>1, SchedulerInvariance, PTL

=============================================================================
