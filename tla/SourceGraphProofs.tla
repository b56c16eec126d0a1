-------------------------- MODULE SourceGraphProofs --------------------------
(***************************************************************************)
(* Theorems about SourceGraph, for any modules and sources, any number of  *)
(* resolvers and any order in which a search follows requires.             *)
(***************************************************************************)
EXTENDS SourceGraph, FiniteSetTheorems, SequenceTheorems, WellFoundedInduction, TLAPS

-----------------------------------------------------------------------------
(* The invariant                                                            *)

Frontends ==
    [node : SUBSET Name, requires : [Name -> SUBSET Name], dependents : [Name -> SUBSET Name],
     dirtySource : SUBSET Name, dirty : [Mode -> SUBSET Name], invalid : [Mode -> SUBSET Name],
     resolver : [Mode -> SUBSET Name], parsed : SUBSET Name, made : [Mode -> SUBSET Name],
     used : [Mode -> [Name -> SUBSET Name]], stale : [Mode -> [Name -> SUBSET Name]]]

\* The modules that a check need not look at, those that are parsed, and those called valid
Clean(g, m) == g.node \ g.dirty[m]
Parsed(g) == g.node \ g.dirtySource
Valid(g, m) == g.node \ g.invalid[m]

\* Dependents are nodes that require the module.
Linked(g) == \A d \in Name : \A x \in g.dependents[d] : x \in g.node /\ d \in g.requires[x]

\* P: the modules whose sources have changed since they were announced.
Known(g, P) ==
    /\ g.node \ g.dirtySource \subseteq P \cup g.parsed
    /\ \A m \in Mode : /\ g.resolver[m] \subseteq g.node /\ g.dirtySource \subseteq g.dirty[m]
                       /\ Valid(g, m) \subseteq g.resolver[m]

\* What a clean module was made from
Current(g, P) ==
    \A m \in Mode : \A n \in Clean(g, m) :
        /\ n \in g.resolver[m] /\ n \in P \cup g.made[m] /\ g.stale[m][n] = {}
        /\ \A d \in g.used[m][n] : d \in Clean(g, m) /\ n \in g.dependents[d]

Sound(g, P) == g \in Frontends /\ Linked(g) /\ Known(g, P) /\ Current(g, P)

\* Valid modules other than E are made from valid modules, and will be told of another.
Tracks(g, m, E) ==
    \A n \in Valid(g, m) \ E :
        g.stale[m][n] = {} /\ \A d \in g.used[m][n] : d \in Valid(g, m) /\ n \in g.dependents[d]

Disks == [Name -> (SUBSET Name) \cup {Absent}]

SessionInv ==
    /\ disk \in Disks /\ pending \subseteq Name /\ doubtful \in [Mode -> SUBSET Name]
    /\ Sound(f, pending)
    /\ \A m \in Mode : Tracks(f, m, doubtful[m])

-----------------------------------------------------------------------------
(* Numbers and sets                                                         *)

\* A set of numbers has a least element.
LEMMA LeastNumber ==
  ASSUME NEW S, S \subseteq Nat, S # {}
  PROVE  \E m \in S : \A k \in S : m <= k
<1> DEFINE R == OpToRel(<, Nat)
<1>1. IsWellFoundedOn(R, Nat)
  BY NatLessThanWellFounded
<1>2. \A x, y \in Nat : <<x, y>> \in R <=> x < y
  BY DEF OpToRel
<1> HIDE DEF R
<1>3. PICK l \in S : \A k \in S : ~ (<<k, l>> \in R)
  BY <1>1, WFMin
<1>4. ASSUME NEW k \in S
      PROVE  l <= k
  <2>1. k \in Nat /\ l \in Nat /\ ~ (k < l)
    BY <1>2, <1>3
  <2> QED BY <2>1
<1> QED BY <1>4

\* What holds of 0 and is passed on holds up to N.
LEMMA UpTo ==
  ASSUME NEW N \in Nat, NEW S, 0 \in S, \A i \in 1 .. N : i - 1 \in S => i \in S
  PROVE  0 .. N \subseteq S
<1> SUFFICES ASSUME (0 .. N) \ S # {}
             PROVE  FALSE
  OBVIOUS
<1>1. PICK m \in (0 .. N) \ S : \A k \in (0 .. N) \ S : m <= k
  <2>1. (0 .. N) \ S \subseteq Nat
    OBVIOUS
  <2> QED BY <2>1, LeastNumber
<1>2. m \in 1 .. N
  BY <1>1
<1>3. m - 1 \in 0 .. N /\ ~ (m <= m - 1)
  BY <1>2
<1> QED BY <1>1, <1>2, <1>3

\* A function may be defined from its value at 0 upwards.
Up(g, N, T, a, F) == g \in [0 .. N -> T] /\ g[0] = a /\ \A i \in 1 .. N : g[i] = F[i][g[i - 1]]

LEMMA RecursionUp ==
  ASSUME NEW N, NEW T, NEW a, NEW F, N \in Nat, a \in T, F \in [1 .. N -> [T -> T]]
  PROVE  \E g : Up(g, N, T, a, F)
<1> DEFINE Defines(n, g) == g[0] = a /\ \A i \in 1 .. n : g[i] = F[i][g[i - 1]]
           S == {n \in 0 .. N : \E g \in [0 .. n -> T] : Defines(n, g)}
<1>1. 0 \in S
  <2>1. [i \in 0 .. 0 |-> a] \in [0 .. 0 -> T] /\ Defines(0, [i \in 0 .. 0 |-> a])
    OBVIOUS
  <2>2. \E g \in [0 .. 0 -> T] : Defines(0, g)
    <3> HIDE DEF Defines
    <3> QED BY <2>1
  <2> QED BY <2>2
<1>2. ASSUME NEW n \in 1 .. N, n - 1 \in S
      PROVE  n \in S
  <2>1. PICK g \in [0 .. (n - 1) -> T] : Defines(n - 1, g)
    BY <1>2
  <2>2. g[n - 1] \in T /\ F[n] \in [T -> T]
    BY <2>1
  <2>3. F[n][g[n - 1]] \in T
    BY <2>2
  <2> DEFINE h == [i \in 0 .. n |-> IF i = n THEN F[n][g[n - 1]] ELSE g[i]]
  <2>4. h \in [0 .. n -> T]
    BY <2>1, <2>3
  <2>5. h[0] = a
    BY <2>1
  <2>6. ASSUME NEW i \in 1 .. n
        PROVE  h[i] = F[i][h[i - 1]]
    <3>1. h[i - 1] = g[i - 1]
      OBVIOUS
    <3>2. CASE i = n
      BY <3>1, <3>2
    <3>3. CASE i # n
      <4>1. i \in 1 .. (n - 1) /\ h[i] = g[i]
        BY <3>3
      <4> QED BY <2>1, <3>1, <4>1
    <3> QED BY <3>2, <3>3
  <2>7. Defines(n, h)
    BY <2>5, <2>6
  <2> HIDE DEF h, Defines
  <2>8. \E up \in [0 .. n -> T] : Defines(n, up)
    BY <2>4, <2>7
  <2> QED BY <2>8
<1> HIDE DEF S
<1>3. 0 .. N \subseteq S
  BY <1>1, <1>2, UpTo
<1>4. N \in S
  BY <1>3
<1> QED BY <1>4 DEF S, Up

-----------------------------------------------------------------------------
(* What is reached                                                          *)

Edges(E) == E \in [Name -> SUBSET Name]

LEMMA ReachedIs ==
  ASSUME NEW n, NEW E, n \in Name, Edges(E)
  PROVE  /\ Reached(n, E) \subseteq Name /\ n \in Reached(n, E)
         /\ \A d \in Reached(n, E) : E[d] \subseteq Reached(n, E)
         /\ \A S \in SUBSET Name : n \in S /\ (\A d \in S : E[d] \subseteq S) => Reached(n, E) \subseteq S
BY DEF Reached, Edges

LEMMA ReachedMore ==
  ASSUME NEW n, NEW D, NEW E, n \in Name, Edges(D), Edges(E), \A d \in Name : D[d] \subseteq E[d]
  PROVE  Reached(n, D) \subseteq Reached(n, E)
<1>1. /\ Reached(n, E) \subseteq Name /\ n \in Reached(n, E)
      /\ \A d \in Reached(n, E) : E[d] \subseteq Reached(n, E)
  BY ONLY n \in Name, Edges(E), ReachedIs
<1>2. \A d \in Reached(n, E) : D[d] \subseteq Reached(n, E)
  BY ONLY <1>1, \A d \in Name : D[d] \subseteq E[d]
<1> QED BY ONLY <1>1, <1>2, n \in Name, Edges(D), ReachedIs

\* The dependents of a frontend
LEMMA TraversedIs ==
  ASSUME NEW g, NEW n, NEW Stop, g \in Frontends, Linked(g), n \in Name
  PROVE  /\ Traversed(g, n, Stop) \subseteq g.node
         /\ n \in g.node => n \in Traversed(g, n, Stop)
         /\ \A d \in Traversed(g, n, Stop) \ Stop : g.dependents[d] \subseteq Traversed(g, n, Stop)
<1> DEFINE E == [d \in Name |-> IF d \in Stop THEN {} ELSE g.dependents[d]]
<1>1. Edges(E) /\ g.node \subseteq Name /\ g.dependents \in [Name -> SUBSET Name]
  BY g \in Frontends DEF Frontends, Edges
<1>2. \A d \in Name : E[d] = IF d \in Stop THEN {} ELSE g.dependents[d]
  OBVIOUS
<1>3. Traversed(g, n, Stop) = IF n \in g.node THEN Reached(n, E) ELSE {}
  BY DEF Traversed
<1> HIDE DEF E
<1>4. /\ Reached(n, E) \subseteq Name /\ n \in Reached(n, E)
      /\ \A d \in Reached(n, E) : E[d] \subseteq Reached(n, E)
      /\ \A S \in SUBSET Name : n \in S /\ (\A d \in S : E[d] \subseteq S) => Reached(n, E) \subseteq S
  BY ONLY <1>1, n \in Name, ReachedIs
<1>5. \A d \in g.node : E[d] \subseteq g.node
  <2>1. \A d \in Name : g.dependents[d] \subseteq g.node
    BY DEF Linked
  <2> QED BY ONLY <1>1, <1>2, <2>1
<1>6. n \in g.node => Reached(n, E) \subseteq g.node
  BY ONLY <1>1, <1>4, <1>5
<1>7. \A d \in Reached(n, E) \ Stop : g.dependents[d] \subseteq Reached(n, E)
  BY ONLY <1>2, <1>4
<1> QED BY ONLY <1>3, <1>4, <1>6, <1>7

-----------------------------------------------------------------------------
(* markDirty                                                                *)

\* h is g with the modules R marked: n and all that depend on what is marked.
Marks(g, h, n, R) ==
    /\ R \subseteq g.node /\ (n \in g.node => n \in R)
    /\ \A d \in R : (d \in g.dirtySource /\ \A m \in Mode : d \in g.dirty[m]) \/ g.dependents[d] \subseteq R
    /\ h = [g EXCEPT !.dirtySource = g.dirtySource \cup R, !.dirty = [m \in Mode |-> g.dirty[m] \cup R]]

LEMMA MarkedDirtyIs ==
  ASSUME NEW g, NEW h, NEW n, g \in Frontends, Linked(g), n \in Name, h = MarkedDirty(g, n)
  PROVE  \E R : Marks(g, h, n, R)
<1> DEFINE allDirty == {d \in g.dirtySource : \A m \in Mode : d \in g.dirty[m]}
           R == Traversed(g, n, allDirty)
<1>1. /\ R \subseteq g.node /\ (n \in g.node => n \in R)
      /\ \A d \in R \ allDirty : g.dependents[d] \subseteq R
  <2> HIDE DEF allDirty
  <2> QED BY ONLY g \in Frontends, Linked(g), n \in Name, TraversedIs
<1>2. h = [g EXCEPT !.dirtySource = g.dirtySource \cup R,
                    !.dirty = [m \in Mode |-> g.dirty[m] \cup R]]
  BY DEF MarkedDirty
<1>3. \A d \in R : (d \in g.dirtySource /\ \A m \in Mode : d \in g.dirty[m]) \/ g.dependents[d] \subseteq R
  BY <1>1
<1> HIDE DEF R
<1> QED BY ONLY <1>1, <1>2, <1>3 DEF Marks

\* A module that is marked is parsed and checked again, and so are those made from it.
LEMMA MarkedDirtySound ==
  ASSUME NEW g, NEW h, NEW P, NEW n, Sound(g, P), n \in Name, h = MarkedDirty(g, n)
  PROVE  /\ Sound(h, P \ {n}) /\ h.node = g.node
         /\ n \in g.node => n \in h.dirtySource
         /\ g.dirtySource \subseteq h.dirtySource
         /\ \A m \in Mode : \A E : Tracks(g, m, E) => Tracks(h, m, E)
<1>1. g \in Frontends /\ Linked(g) /\ Known(g, P) /\ Current(g, P)
  BY DEF Sound
<1>2. PICK R : Marks(g, h, n, R)
  BY ONLY <1>1, n \in Name, h = MarkedDirty(g, n), MarkedDirtyIs
<1>3. /\ h \in Frontends /\ h.node = g.node /\ h.requires = g.requires /\ h.dependents = g.dependents
      /\ h.dirtySource = g.dirtySource \cup R /\ h.parsed = g.parsed /\ h.made = g.made
      /\ h.invalid = g.invalid /\ h.resolver = g.resolver /\ h.used = g.used /\ h.stale = g.stale
  BY ONLY <1>1, <1>2 DEF Frontends, Marks
<1>4. \A m \in Mode : h.dirty[m] = g.dirty[m] \cup R
  BY ONLY <1>1, <1>2 DEF Frontends, Marks
<1>5. Linked(h)
  BY ONLY <1>1, <1>3 DEF Linked
<1>6. Known(h, P \ {n})
  <2>1. h.node \ h.dirtySource \subseteq (P \ {n}) \cup h.parsed
    BY ONLY <1>1, <1>2, <1>3 DEF Known, Marks
  <2>2. \A m \in Mode : /\ h.resolver[m] \subseteq h.node /\ h.dirtySource \subseteq h.dirty[m]
                        /\ Valid(h, m) \subseteq h.resolver[m]
    BY ONLY <1>1, <1>3, <1>4 DEF Known, Valid
  <2> QED BY ONLY <2>1, <2>2 DEF Known
<1>7. \A m \in Mode : Clean(h, m) = Clean(g, m) \ R
  BY ONLY <1>3, <1>4 DEF Clean
<1>8. Current(h, P \ {n})
  <2> SUFFICES ASSUME NEW m \in Mode, NEW x \in Clean(h, m)
               PROVE  /\ x \in h.resolver[m] /\ x \in (P \ {n}) \cup h.made[m] /\ h.stale[m][x] = {}
                      /\ \A d \in h.used[m][x] : d \in Clean(h, m) /\ x \in h.dependents[d]
    BY DEF Current
  <2>1. x \in Clean(g, m) /\ x \notin R /\ x \in g.node /\ x # n
    BY ONLY <1>2, <1>3, <1>7, x \in Clean(h, m), m \in Mode DEF Clean, Marks
  <2>2. /\ x \in g.resolver[m] /\ x \in P \cup g.made[m] /\ g.stale[m][x] = {}
        /\ \A d \in g.used[m][x] : d \in Clean(g, m) /\ x \in g.dependents[d]
    BY ONLY <1>1, <2>1, m \in Mode DEF Current
  <2>3. ASSUME NEW d \in g.used[m][x]
        PROVE  d \notin R
    <3>1. d \in Clean(g, m) /\ x \in g.dependents[d]
      BY <2>2, <2>3
    <3>2. d \notin g.dirty[m]
      BY <3>1 DEF Clean
    <3> QED BY ONLY <1>2, <2>1, <3>1, <3>2, m \in Mode DEF Marks
  <2> QED BY ONLY <1>3, <1>7, <2>1, <2>2, <2>3, m \in Mode
<1>9. ASSUME NEW m \in Mode, NEW E, Tracks(g, m, E)
      PROVE  Tracks(h, m, E)
  BY ONLY <1>3, <1>9 DEF Tracks, Valid
<1> QED BY ONLY <1>2, <1>3, <1>5, <1>6, <1>8, <1>9 DEF Sound, Marks

-----------------------------------------------------------------------------
(* getSourceNode                                                            *)

LEMMA UnlinkedIs ==
  ASSUME NEW g, NEW h, NEW n, g \in Frontends, Linked(g), n \in Name, h = Unlinked(g, n)
  PROVE  /\ h \in Frontends /\ \A d \in Name : h.dependents[d] = g.dependents[d] \ {n}
         /\ h = [g EXCEPT !.dependents = h.dependents]
<1>1. h = [g EXCEPT !.dependents = [d \in Name |-> IF d \in g.requires[n] THEN g.dependents[d] \ {n}
                                                   ELSE g.dependents[d]]]
  BY DEF Unlinked
<1>2. h.dependents = [d \in Name |-> IF d \in g.requires[n] THEN g.dependents[d] \ {n} ELSE g.dependents[d]]
  BY ONLY <1>1, g \in Frontends DEF Frontends
<1>3. g.dependents \in [Name -> SUBSET Name]
  BY DEF Frontends
<1>4. h.dependents \in [Name -> SUBSET Name]
  BY ONLY <1>2, <1>3
<1>5. h = [g EXCEPT !.dependents = h.dependents]
  BY ONLY <1>1, <1>2
<1>6. h \in Frontends
  BY ONLY <1>4, <1>5, g \in Frontends DEF Frontends
<1>7. \A d \in Name : h.dependents[d] = g.dependents[d] \ {n}
  BY ONLY <1>2, Linked(g) DEF Linked
<1> QED BY ONLY <1>5, <1>6, <1>7

\* h is g without n.
Erased(g, h, n) ==
    /\ h \in Frontends
    /\ h.node = g.node \ {n} /\ h.dirtySource = g.dirtySource \ {n} /\ h.parsed = g.parsed \ {n}
    /\ \A d \in Name : /\ h.requires[d] = IF d = n THEN {} ELSE g.requires[d]
                       /\ h.dependents[d] = IF d = n THEN {} ELSE g.dependents[d] \ {n}
    /\ \A m \in Mode : /\ h.dirty[m] = g.dirty[m] \ {n} /\ h.invalid[m] = g.invalid[m] \ {n}
                       /\ h.resolver[m] = g.resolver[m] \ {n} /\ h.made[m] = g.made[m] \ {n}
    /\ \A m \in Mode : \A x \in Name :
          x # n => /\ h.used[m][x] = g.used[m][x]
                   /\ n \notin g.used[m][x] => h.stale[m][x] = g.stale[m][x]

LEMMA EraseIs ==
  ASSUME NEW g, NEW h, NEW n, g \in Frontends, Linked(g), n \in Name, h = Erase(g, n)
  PROVE  Erased(g, h, n)
<1>1. PICK u : u = Unlinked(g, n)
  OBVIOUS
<1>2. /\ u \in Frontends /\ \A d \in Name : u.dependents[d] = g.dependents[d] \ {n}
      /\ u = [g EXCEPT !.dependents = u.dependents]
  BY ONLY <1>1, g \in Frontends, Linked(g), n \in Name, UnlinkedIs
<1>3. PICK r : r = Replaced(u, Mode, n)
  OBVIOUS
<1>4. r = [u EXCEPT !.stale = [m \in Mode |-> [x \in Name |->
              IF m \in Mode /\ n \in u.used[m][x] THEN u.stale[m][x] \cup {n} ELSE u.stale[m][x]]]]
  BY ONLY <1>3 DEF Replaced
<1>5. r.stale = [m \in Mode |-> [x \in Name |->
              IF m \in Mode /\ n \in u.used[m][x] THEN u.stale[m][x] \cup {n} ELSE u.stale[m][x]]]
  BY ONLY <1>2, <1>4 DEF Frontends
<1>6. r.stale \in [Mode -> [Name -> SUBSET Name]]
  <2>1. \A m \in Mode : \A x \in Name : u.stale[m][x] \subseteq Name
    BY ONLY <1>2 DEF Frontends
  <2> QED BY ONLY <1>5, <2>1, n \in Name
<1>7. /\ r.node = g.node /\ r.requires = g.requires /\ r.dependents = u.dependents
      /\ r.dirtySource = g.dirtySource /\ r.dirty = g.dirty /\ r.invalid = g.invalid
      /\ r.resolver = g.resolver /\ r.parsed = g.parsed /\ r.made = g.made /\ r.used = g.used /\ u.stale = g.stale
      /\ u.used = g.used
  BY ONLY <1>2, <1>4, g \in Frontends DEF Frontends
<1>8. r = [node |-> g.node, requires |-> g.requires, dependents |-> u.dependents,
           dirtySource |-> g.dirtySource, dirty |-> g.dirty, invalid |-> g.invalid, resolver |-> g.resolver,
           parsed |-> g.parsed, made |-> g.made, used |-> g.used, stale |-> r.stale]
  BY ONLY <1>2, <1>4, <1>7 DEF Frontends
<1> DEFINE Without(S) == [m \in Mode |-> S[m] \ {n}]
           Nothing(S) == [m \in Mode |-> [x \in Name |-> IF x = n THEN {} ELSE S[m][x]]]
<1>9. h = [r EXCEPT
             !.node = @ \ {n}, !.requires[n] = {}, !.dependents[n] = {},
             !.dirtySource = @ \ {n}, !.parsed = @ \ {n},
             !.dirty = Without(r.dirty), !.invalid = Without(r.invalid),
             !.resolver = Without(r.resolver), !.made = Without(r.made),
             !.used = Nothing(r.used), !.stale = Nothing(r.stale)]
  BY ONLY <1>1, <1>3, h = Erase(g, n) DEF Erase
<1>10. /\ \A S \in [Mode -> SUBSET Name] : Without(S) \in [Mode -> SUBSET Name]
       /\ \A S : \A m \in Mode : Without(S)[m] = S[m] \ {n}
       /\ \A S \in [Mode -> [Name -> SUBSET Name]] : Nothing(S) \in [Mode -> [Name -> SUBSET Name]]
       /\ \A S : \A m \in Mode : \A x \in Name : Nothing(S)[m][x] = IF x = n THEN {} ELSE S[m][x]
  OBVIOUS
<1> HIDE DEF Without, Nothing
<1>11. h = [node |-> g.node \ {n}, requires |-> [g.requires EXCEPT ![n] = {}],
            dependents |-> [u.dependents EXCEPT ![n] = {}],
            dirtySource |-> g.dirtySource \ {n}, dirty |-> Without(g.dirty), invalid |-> Without(g.invalid),
            resolver |-> Without(g.resolver), parsed |-> g.parsed \ {n}, made |-> Without(g.made),
            used |-> Nothing(g.used), stale |-> Nothing(r.stale)]
  BY ONLY <1>7, <1>8, <1>9
<1>12. /\ g.node \subseteq Name /\ g.requires \in [Name -> SUBSET Name] /\ u.dependents \in [Name -> SUBSET Name]
       /\ g.dirtySource \subseteq Name /\ g.parsed \subseteq Name
       /\ g.dirty \in [Mode -> SUBSET Name] /\ g.invalid \in [Mode -> SUBSET Name]
       /\ g.resolver \in [Mode -> SUBSET Name] /\ g.made \in [Mode -> SUBSET Name]
       /\ g.used \in [Mode -> [Name -> SUBSET Name]]
  BY ONLY <1>2, g \in Frontends DEF Frontends
<1>13. h \in Frontends
  <2>1. [g.requires EXCEPT ![n] = {}] \in [Name -> SUBSET Name] /\ [u.dependents EXCEPT ![n] = {}] \in [Name -> SUBSET Name]
    BY ONLY <1>12
  <2>2. g.node \ {n} \subseteq Name /\ g.dirtySource \ {n} \subseteq Name /\ g.parsed \ {n} \subseteq Name
    BY ONLY <1>12
  <2> QED BY ONLY <1>6, <1>10, <1>11, <1>12, <2>1, <2>2 DEF Frontends
<1>14. h.node = g.node \ {n} /\ h.dirtySource = g.dirtySource \ {n} /\ h.parsed = g.parsed \ {n}
  BY ONLY <1>11
<1>15. \A d \in Name : /\ h.requires[d] = IF d = n THEN {} ELSE g.requires[d]
                       /\ h.dependents[d] = IF d = n THEN {} ELSE g.dependents[d] \ {n}
  <2>1. h.requires = [g.requires EXCEPT ![n] = {}] /\ h.dependents = [u.dependents EXCEPT ![n] = {}]
    BY ONLY <1>11
  <2> QED BY ONLY <1>2, <1>12, <2>1
<1>16. \A m \in Mode : /\ h.dirty[m] = g.dirty[m] \ {n} /\ h.invalid[m] = g.invalid[m] \ {n}
                       /\ h.resolver[m] = g.resolver[m] \ {n} /\ h.made[m] = g.made[m] \ {n}
  <2>1. /\ h.dirty = Without(g.dirty) /\ h.invalid = Without(g.invalid)
        /\ h.resolver = Without(g.resolver) /\ h.made = Without(g.made)
    BY ONLY <1>11
  <2> QED BY ONLY <1>10, <2>1
<1>17. \A m \in Mode : \A x \in Name :
          x # n => /\ h.used[m][x] = g.used[m][x]
                   /\ n \notin g.used[m][x] => h.stale[m][x] = g.stale[m][x]
  <2>1. h.used = Nothing(g.used) /\ h.stale = Nothing(r.stale)
    BY ONLY <1>11
  <2>2. \A m \in Mode : \A x \in Name : n \notin g.used[m][x] => r.stale[m][x] = g.stale[m][x]
    BY ONLY <1>5, <1>7
  <2> QED BY ONLY <1>10, <2>1, <2>2
<1> QED BY ONLY <1>13, <1>14, <1>15, <1>16, <1>17 DEF Erased

\* h is g with the source of n.
Read(g, h, n) ==
    /\ h \in Frontends /\ disk[n] # Absent
    /\ h.node = g.node \cup {n} /\ h.dirtySource = g.dirtySource \ {n} /\ h.parsed = g.parsed \cup {n}
    /\ \A d \in Name : /\ h.requires[d] = IF d = n THEN disk[n] ELSE g.requires[d]
                       /\ h.dependents[d] = g.dependents[d] \ {n}
    /\ h.resolver = g.resolver /\ h.made = g.made /\ h.used = g.used /\ h.stale = g.stale
    /\ \A m \in Mode : /\ h.dirty[m] = IF n \in g.node THEN g.dirty[m] ELSE g.dirty[m] \cup {n}
                       /\ h.invalid[m] = IF n \in g.node THEN g.invalid[m] ELSE g.invalid[m] \cup {n}

LEMMA ReadIs ==
  ASSUME NEW g, NEW h, NEW n, g \in Frontends, Linked(g), n \in Name, disk \in Disks, disk[n] # Absent,
         h = ReadSource(g, n)
  PROVE  Read(g, h, n)
<1>1. PICK u : u = Unlinked(g, n)
  OBVIOUS
<1>2. /\ u \in Frontends /\ \A d \in Name : u.dependents[d] = g.dependents[d] \ {n}
      /\ u = [g EXCEPT !.dependents = u.dependents]
  BY ONLY <1>1, g \in Frontends, Linked(g), n \in Name, UnlinkedIs
<1>3. u = [node |-> g.node, requires |-> g.requires, dependents |-> u.dependents,
           dirtySource |-> g.dirtySource, dirty |-> g.dirty, invalid |-> g.invalid, resolver |-> g.resolver,
           parsed |-> g.parsed, made |-> g.made, used |-> g.used, stale |-> g.stale]
  BY ONLY <1>2, g \in Frontends DEF Frontends
<1>4. PICK dir : dir = [m \in Mode |-> IF n \notin g.node THEN g.dirty[m] \cup {n} ELSE g.dirty[m]]
  OBVIOUS
<1>5. PICK inv : inv = [m \in Mode |-> IF n \notin g.node THEN g.invalid[m] \cup {n} ELSE g.invalid[m]]
  OBVIOUS
<1>6. h = [node |-> g.node \cup {n}, requires |-> [g.requires EXCEPT ![n] = disk[n]],
           dependents |-> u.dependents, dirtySource |-> g.dirtySource \ {n}, dirty |-> dir, invalid |-> inv,
           resolver |-> g.resolver, parsed |-> g.parsed \cup {n}, made |-> g.made, used |-> g.used,
           stale |-> g.stale]
  <2>1. h = [u EXCEPT !.node = u.node \cup {n}, !.requires[n] = disk[n], !.parsed = u.parsed \cup {n},
                      !.dirtySource = u.dirtySource \ {n},
                      !.dirty = [m \in Mode |-> IF n \notin g.node THEN u.dirty[m] \cup {n} ELSE u.dirty[m]],
                      !.invalid = [m \in Mode |-> IF n \notin g.node THEN u.invalid[m] \cup {n} ELSE u.invalid[m]]]
    BY ONLY <1>1, disk[n] # Absent, h = ReadSource(g, n) DEF ReadSource
  <2>2. u.dirty = g.dirty /\ u.invalid = g.invalid /\ u.node = g.node /\ u.parsed = g.parsed
        /\ u.dirtySource = g.dirtySource /\ u.requires = g.requires
    BY ONLY <1>3
  <2>3. h = [u EXCEPT !.node = g.node \cup {n}, !.requires = [g.requires EXCEPT ![n] = disk[n]],
                      !.parsed = g.parsed \cup {n}, !.dirtySource = g.dirtySource \ {n},
                      !.dirty = dir, !.invalid = inv]
    BY ONLY <1>4, <1>5, <2>1, <2>2
  <2>4. PICK req, nodes, par, src, dep :
           /\ req = [g.requires EXCEPT ![n] = disk[n]] /\ nodes = g.node \cup {n} /\ dep = u.dependents
           /\ par = g.parsed \cup {n} /\ src = g.dirtySource \ {n}
    OBVIOUS
  <2>5. h = [u EXCEPT !.node = nodes, !.requires = req, !.parsed = par, !.dirtySource = src,
                      !.dirty = dir, !.invalid = inv]
    BY ONLY <2>3, <2>4
  <2>6. h = [node |-> nodes, requires |-> req,
             dependents |-> dep, dirtySource |-> src, dirty |-> dir, invalid |-> inv,
             resolver |-> g.resolver, parsed |-> par, made |-> g.made, used |-> g.used,
             stale |-> g.stale]
    <3>1. u = [node |-> g.node, requires |-> g.requires, dependents |-> dep,
               dirtySource |-> g.dirtySource, dirty |-> g.dirty, invalid |-> g.invalid,
               resolver |-> g.resolver, parsed |-> g.parsed, made |-> g.made, used |-> g.used,
               stale |-> g.stale]
      BY ONLY <1>3, <2>4
    <3> QED BY ONLY <2>5, <3>1
  <2> QED BY ONLY <2>4, <2>6
<1>7. /\ g.node \subseteq Name /\ g.requires \in [Name -> SUBSET Name] /\ u.dependents \in [Name -> SUBSET Name]
      /\ g.dirtySource \subseteq Name /\ g.parsed \subseteq Name
      /\ g.dirty \in [Mode -> SUBSET Name] /\ g.invalid \in [Mode -> SUBSET Name]
      /\ g.resolver \in [Mode -> SUBSET Name] /\ g.made \in [Mode -> SUBSET Name]
      /\ g.used \in [Mode -> [Name -> SUBSET Name]] /\ g.stale \in [Mode -> [Name -> SUBSET Name]]
      /\ disk[n] \subseteq Name
  BY ONLY <1>2, g \in Frontends, n \in Name, disk \in Disks, disk[n] # Absent DEF Frontends, Disks
<1>8. h \in Frontends
  <2>1. [g.requires EXCEPT ![n] = disk[n]] \in [Name -> SUBSET Name]
    BY ONLY <1>7
  <2>2. g.node \cup {n} \subseteq Name /\ g.dirtySource \ {n} \subseteq Name /\ g.parsed \cup {n} \subseteq Name
    BY ONLY <1>7, n \in Name
  <2>3. dir \in [Mode -> SUBSET Name] /\ inv \in [Mode -> SUBSET Name]
    BY ONLY <1>4, <1>5, <1>7, n \in Name
  <2> QED BY ONLY <1>6, <1>7, <2>1, <2>2, <2>3 DEF Frontends
<1>9. \A d \in Name : /\ h.requires[d] = IF d = n THEN disk[n] ELSE g.requires[d]
                      /\ h.dependents[d] = g.dependents[d] \ {n}
  <2>1. h.requires = [g.requires EXCEPT ![n] = disk[n]] /\ h.dependents = u.dependents
    BY ONLY <1>6
  <2> QED BY ONLY <1>2, <1>7, <2>1
<1>10. \A m \in Mode : /\ h.dirty[m] = IF n \in g.node THEN g.dirty[m] ELSE g.dirty[m] \cup {n}
                       /\ h.invalid[m] = IF n \in g.node THEN g.invalid[m] ELSE g.invalid[m] \cup {n}
  <2>1. h.dirty = dir /\ h.invalid = inv
    BY ONLY <1>6
  <2> QED BY ONLY <1>4, <1>5, <2>1
<1>11. /\ h.node = g.node \cup {n} /\ h.dirtySource = g.dirtySource \ {n} /\ h.parsed = g.parsed \cup {n}
       /\ h.resolver = g.resolver /\ h.made = g.made /\ h.used = g.used /\ h.stale = g.stale
  BY ONLY <1>6
<1> QED BY ONLY <1>8, <1>9, <1>10, <1>11, disk[n] # Absent DEF Read

Gone(g, n) == n \notin g.node /\ disk[n] = Absent

\* What getSourceNode leaves
Got(g, h, n) ==
    \/ (n \in Parsed(g) \/ Gone(g, n)) /\ h = g
    \/ n \in g.node /\ n \in g.dirtySource /\ disk[n] = Absent /\ Erased(g, h, n)
    \/ n \notin Parsed(g) /\ Read(g, h, n)

LEMMA GetSourceNodeIs ==
  ASSUME NEW g, NEW h, NEW n, g \in Frontends, Linked(g), n \in Name, disk \in Disks, h = GetSourceNode(g, n)
  PROVE  Got(g, h, n)
<1>1. CASE n \in g.node /\ n \notin g.dirtySource
  BY <1>1 DEF GetSourceNode, Got, Parsed
<1>2. CASE n \notin g.node \/ n \in g.dirtySource
  <2>1. h = ReadSource(g, n) /\ n \notin Parsed(g)
    BY <1>2 DEF GetSourceNode, Parsed
  <2>2. CASE disk[n] # Absent
    <3>1. Read(g, h, n)
      BY ONLY <2>1, <2>2, g \in Frontends, Linked(g), n \in Name, disk \in Disks, ReadIs
    <3> QED BY ONLY <2>1, <3>1 DEF Got
  <2>3. CASE disk[n] = Absent /\ n \in g.node
    <3>1. h = Erase(g, n)
      BY ONLY <2>1, <2>3 DEF ReadSource
    <3>2. Erased(g, h, n)
      BY ONLY <3>1, g \in Frontends, Linked(g), n \in Name, EraseIs
    <3> QED BY ONLY <1>2, <2>3, <3>2 DEF Got
  <2>4. CASE disk[n] = Absent /\ n \notin g.node
    <3>1. h = g
      BY ONLY <2>1, <2>4 DEF ReadSource
    <3> QED BY ONLY <2>4, <3>1 DEF Got, Gone
  <2> QED BY ONLY <2>2, <2>3, <2>4
<1> QED BY ONLY <1>1, <1>2

\* Only modules of E were checked against n.
Unused(g, m, n, E) == \A x \in Name \ E : x # n => n \notin g.used[m][x]

\* Erasing a module that is dirty leaves what is clean, and what was not checked against it.
LEMMA ErasedSound ==
  ASSUME NEW g, NEW h, NEW P, NEW n, Sound(g, P), n \in Name, \A m \in Mode : n \in g.dirty[m], Erased(g, h, n)
  PROVE  /\ Sound(h, P) /\ \A m \in Mode : Clean(h, m) = Clean(g, m)
         /\ \A m \in Mode : \A E : Unused(g, m, n, E) /\ Tracks(g, m, E) => Tracks(h, m, E)
<1>1. g \in Frontends /\ Linked(g) /\ Known(g, P) /\ Current(g, P)
  BY DEF Sound
<1>2. g.node \subseteq Name /\ g.dependents \in [Name -> SUBSET Name] /\ g.used \in [Mode -> [Name -> SUBSET Name]]
  BY ONLY <1>1 DEF Frontends
<1>3. Linked(h)
  <2> SUFFICES ASSUME NEW d \in Name, NEW x \in h.dependents[d]
               PROVE  x \in h.node /\ d \in h.requires[x]
    BY DEF Linked
  <2>1. /\ h.node = g.node \ {n} /\ h.dependents[d] = IF d = n THEN {} ELSE g.dependents[d] \ {n}
        /\ \A y \in Name : h.requires[y] = IF y = n THEN {} ELSE g.requires[y]
    BY ONLY Erased(g, h, n), d \in Name DEF Erased
  <2>2. x \in g.dependents[d] /\ x # n
    BY ONLY <2>1, x \in h.dependents[d]
  <2>3. x \in g.node /\ d \in g.requires[x] /\ x \in Name
    BY ONLY <1>1, <1>2, <2>2, d \in Name DEF Linked
  <2> QED BY ONLY <2>1, <2>2, <2>3
<1>4. Known(h, P)
  BY ONLY <1>1, Erased(g, h, n) DEF Known, Valid, Erased
<1>5. \A m \in Mode : Clean(h, m) = Clean(g, m) /\ n \notin Clean(g, m)
  BY Erased(g, h, n) DEF Clean, Erased
<1>6. Current(h, P)
  <2> SUFFICES ASSUME NEW m \in Mode, NEW x \in Clean(h, m)
               PROVE  /\ x \in h.resolver[m] /\ x \in P \cup h.made[m] /\ h.stale[m][x] = {}
                      /\ \A d \in h.used[m][x] : d \in Clean(h, m) /\ x \in h.dependents[d]
    BY DEF Current
  <2>1. x \in Clean(g, m) /\ x # n /\ x \in Name
    BY ONLY <1>2, <1>5, x \in Clean(h, m), m \in Mode DEF Clean
  <2>2. /\ x \in g.resolver[m] /\ x \in P \cup g.made[m] /\ g.stale[m][x] = {}
        /\ \A d \in g.used[m][x] : d \in Clean(g, m) /\ x \in g.dependents[d]
    BY ONLY <1>1, <2>1, m \in Mode DEF Current
  <2>3. \A d \in g.used[m][x] : d \in Name /\ d # n
    BY ONLY <1>2, <1>5, <2>1, <2>2, m \in Mode
  <2>4. h.used[m][x] = g.used[m][x] /\ h.stale[m][x] = g.stale[m][x]
    BY ONLY <2>1, <2>3, m \in Mode, Erased(g, h, n) DEF Erased
  <2>5. \A d \in Name : d # n => h.dependents[d] = g.dependents[d] \ {n}
    BY ONLY Erased(g, h, n) DEF Erased
  <2>6. h.resolver[m] = g.resolver[m] \ {n} /\ h.made[m] = g.made[m] \ {n}
    BY ONLY m \in Mode, Erased(g, h, n) DEF Erased
  <2> QED BY ONLY <1>5, <2>1, <2>2, <2>3, <2>4, <2>5, <2>6, m \in Mode
<1>7. ASSUME NEW m \in Mode, NEW E, Unused(g, m, n, E), Tracks(g, m, E)
      PROVE  Tracks(h, m, E)
  <2> SUFFICES ASSUME NEW x \in Valid(h, m) \ E
               PROVE  h.stale[m][x] = {} /\ \A d \in h.used[m][x] : d \in Valid(h, m) /\ x \in h.dependents[d]
    BY DEF Tracks
  <2>1. Valid(h, m) = Valid(g, m) \ {n}
    BY ONLY Erased(g, h, n), m \in Mode DEF Valid, Erased
  <2>2. x \in Valid(g, m) \ E /\ x \in Name /\ x # n
    BY ONLY <1>2, <2>1, x \in Valid(h, m) \ E DEF Valid
  <2>3. g.stale[m][x] = {} /\ \A d \in g.used[m][x] : d \in Valid(g, m) /\ x \in g.dependents[d]
    BY ONLY <1>7, <2>2 DEF Tracks
  <2>4. n \notin g.used[m][x] /\ \A d \in g.used[m][x] : d \in Name
    BY ONLY <1>2, <1>7, <2>2, m \in Mode DEF Unused
  <2>5. h.used[m][x] = g.used[m][x] /\ h.stale[m][x] = g.stale[m][x]
    BY ONLY <2>2, <2>4, m \in Mode, Erased(g, h, n) DEF Erased
  <2>6. \A d \in Name : d # n => h.dependents[d] = g.dependents[d] \ {n}
    BY ONLY Erased(g, h, n) DEF Erased
  <2> QED BY ONLY <2>1, <2>2, <2>3, <2>4, <2>5, <2>6
<1>8. h \in Frontends
  BY ONLY Erased(g, h, n) DEF Erased
<1> QED BY ONLY <1>3, <1>4, <1>5, <1>6, <1>7, <1>8 DEF Sound

\* A module that is not parsed, or is new, is not clean: reading it leaves what is.
LEMMA ReadSound ==
  ASSUME NEW g, NEW h, NEW P, NEW n, Sound(g, P), n \in Name, n \notin Parsed(g), Read(g, h, n)
  PROVE  /\ Sound(h, P) /\ \A m \in Mode : Clean(h, m) = Clean(g, m)
         /\ \A m \in Mode : \A E : (n \in g.node => n \in E) /\ Tracks(g, m, E) => Tracks(h, m, E)
<1>1. g \in Frontends /\ Linked(g) /\ Known(g, P) /\ Current(g, P)
  BY DEF Sound
<1>2. g.node \subseteq Name /\ g.used \in [Mode -> [Name -> SUBSET Name]]
  BY ONLY <1>1 DEF Frontends
<1>3. \A m \in Mode : n \in g.node => n \in g.dirty[m]
  BY ONLY <1>1, n \notin Parsed(g) DEF Known, Parsed
<1>4. \A m \in Mode : Clean(h, m) = Clean(g, m) /\ n \notin Clean(g, m)
  <2> SUFFICES ASSUME NEW m \in Mode
               PROVE  Clean(h, m) = Clean(g, m) /\ n \notin Clean(g, m)
    OBVIOUS
  <2>1. /\ h.node = g.node \cup {n}
        /\ h.dirty[m] = IF n \in g.node THEN g.dirty[m] ELSE g.dirty[m] \cup {n}
    BY ONLY Read(g, h, n), m \in Mode DEF Read
  <2> QED BY ONLY <1>3, <2>1, m \in Mode DEF Clean
<1>5. Linked(h)
  <2> SUFFICES ASSUME NEW d \in Name, NEW x \in h.dependents[d]
               PROVE  x \in h.node /\ d \in h.requires[x]
    BY DEF Linked
  <2>1. /\ h.node = g.node \cup {n} /\ h.dependents[d] = g.dependents[d] \ {n}
        /\ \A y \in Name : y # n => h.requires[y] = g.requires[y]
    BY ONLY Read(g, h, n), d \in Name DEF Read
  <2>2. x \in g.dependents[d] /\ x # n
    BY ONLY <2>1, x \in h.dependents[d]
  <2>3. x \in g.node /\ d \in g.requires[x] /\ x \in Name
    BY ONLY <1>1, <1>2, <2>2, d \in Name DEF Linked
  <2> QED BY ONLY <2>1, <2>2, <2>3
<1>6. \A m \in Mode : Valid(h, m) = Valid(g, m) /\ (n \notin g.node => n \notin Valid(g, m))
  <2> SUFFICES ASSUME NEW m \in Mode
               PROVE  Valid(h, m) = Valid(g, m) /\ (n \notin g.node => n \notin Valid(g, m))
    OBVIOUS
  <2>1. /\ h.node = g.node \cup {n}
        /\ h.invalid[m] = IF n \in g.node THEN g.invalid[m] ELSE g.invalid[m] \cup {n}
    BY ONLY Read(g, h, n), m \in Mode DEF Read
  <2> QED BY ONLY <2>1 DEF Valid
<1>7. Known(h, P)
  <2>1. h.node \ h.dirtySource \subseteq P \cup h.parsed
    BY ONLY <1>1, Read(g, h, n) DEF Known, Read
  <2>2. ASSUME NEW m \in Mode
        PROVE  h.resolver[m] \subseteq h.node /\ h.dirtySource \subseteq h.dirty[m] /\ Valid(h, m) \subseteq h.resolver[m]
    <3>1. g.resolver[m] \subseteq g.node /\ g.dirtySource \subseteq g.dirty[m] /\ Valid(g, m) \subseteq g.resolver[m]
      BY ONLY <1>1, m \in Mode DEF Known
    <3>2. /\ h.node = g.node \cup {n} /\ h.dirtySource = g.dirtySource \ {n} /\ h.resolver = g.resolver
          /\ g.dirty[m] \subseteq h.dirty[m]
      BY ONLY Read(g, h, n), m \in Mode DEF Read
    <3> QED BY ONLY <1>6, <3>1, <3>2, m \in Mode
  <2> QED BY ONLY <2>1, <2>2 DEF Known
<1>8. /\ h.resolver = g.resolver /\ h.made = g.made /\ h.used = g.used /\ h.stale = g.stale
      /\ \A d \in Name : h.dependents[d] = g.dependents[d] \ {n}
  BY ONLY Read(g, h, n) DEF Read
<1>9. Current(h, P)
  <2> SUFFICES ASSUME NEW m \in Mode, NEW x \in Clean(h, m)
               PROVE  /\ x \in h.resolver[m] /\ x \in P \cup h.made[m] /\ h.stale[m][x] = {}
                      /\ \A d \in h.used[m][x] : d \in Clean(h, m) /\ x \in h.dependents[d]
    BY DEF Current
  <2>1. x \in Clean(g, m) /\ x # n /\ x \in Name
    BY ONLY <1>2, <1>4, x \in Clean(h, m), m \in Mode DEF Clean
  <2>2. /\ x \in g.resolver[m] /\ x \in P \cup g.made[m] /\ g.stale[m][x] = {}
        /\ \A d \in g.used[m][x] : d \in Clean(g, m) /\ x \in g.dependents[d]
    BY ONLY <1>1, <2>1, m \in Mode DEF Current
  <2>3. \A d \in g.used[m][x] : d \in Name
    BY ONLY <1>2, <2>1, m \in Mode
  <2> QED BY ONLY <1>4, <1>8, <2>1, <2>2, <2>3, m \in Mode
<1>10. ASSUME NEW m \in Mode, NEW E, n \in g.node => n \in E, Tracks(g, m, E)
       PROVE  Tracks(h, m, E)
  <2> SUFFICES ASSUME NEW x \in Valid(h, m) \ E
               PROVE  h.stale[m][x] = {} /\ \A d \in h.used[m][x] : d \in Valid(h, m) /\ x \in h.dependents[d]
    BY DEF Tracks
  <2>1. x \in Valid(g, m) \ E /\ x # n /\ x \in Name
    BY ONLY <1>2, <1>6, <1>10, x \in Valid(h, m) \ E, m \in Mode DEF Valid
  <2>2. g.stale[m][x] = {} /\ \A d \in g.used[m][x] : d \in Valid(g, m) /\ x \in g.dependents[d]
    BY ONLY <1>10, <2>1 DEF Tracks
  <2>3. \A d \in g.used[m][x] : d \in Name
    BY ONLY <1>2, <2>1, m \in Mode
  <2> QED BY ONLY <1>6, <1>8, <2>1, <2>2, <2>3, m \in Mode
<1>11. h \in Frontends
  BY ONLY Read(g, h, n) DEF Read
<1> QED BY ONLY <1>4, <1>5, <1>7, <1>9, <1>10, <1>11 DEF Sound

\* What does not change for a module that is parsed while others are
Grows(g, h) ==
    /\ Parsed(g) \subseteq Parsed(h) /\ \A m \in Mode : Clean(h, m) = Clean(g, m)
    /\ \A x \in Parsed(g) : h.requires[x] = g.requires[x]
    /\ \A d \in Parsed(g) : \A x \in Parsed(g) : x \in g.dependents[d] => x \in h.dependents[d]
    /\ \A x : Gone(g, x) => Gone(h, x)

\* E has what was parsed again or erased since g0, and what was checked against a module
\* that has neither a node nor a source.
Excepts(g0, g, m, E) ==
    /\ g0.dirtySource \ g.dirtySource \subseteq E
    /\ \A x \in Name \ E : \A d \in g.used[m][x] : ~ Gone(g, d)

\* What is left of g0 in a resolver when some of its modules were parsed again or erased
Derived(g0, g, m) ==
    /\ g.dirtySource \subseteq g0.dirtySource
    /\ \A E : Excepts(g0, g, m, E) /\ Tracks(g0, m, E) => Tracks(g, m, E)

LEMMA TracksLess ==
  ASSUME NEW g, NEW m, NEW D, NEW E, Tracks(g, m, D), D \subseteq E
  PROVE  Tracks(g, m, E)
BY DEF Tracks

\* getSourceNode keeps a frontend sound, and leaves a node that is parsed, or none.
LEMMA GetSound ==
  ASSUME NEW g, NEW h, NEW P, NEW n, Sound(g, P), n \in Name, disk \in Disks, h = GetSourceNode(g, n)
  PROVE  /\ Sound(h, P) /\ Grows(g, h) /\ (n \in Parsed(h) \/ Gone(h, n))
         /\ \A m \in Mode : \A g0 : Derived(g0, g, m) => Derived(g0, h, m)
<1>1. g \in Frontends /\ Linked(g) /\ Known(g, P) /\ g.node \subseteq Name
  BY DEF Sound, Frontends
<1>2. Got(g, h, n)
  BY ONLY <1>1, n \in Name, disk \in Disks, h = GetSourceNode(g, n), GetSourceNodeIs
<1>3. CASE (n \in Parsed(g) \/ Gone(g, n)) /\ h = g
  BY ONLY <1>3, Sound(g, P) DEF Grows
<1>4. CASE n \in g.node /\ n \in g.dirtySource /\ disk[n] = Absent /\ Erased(g, h, n)
  <2>1. /\ Sound(h, P) /\ \A m \in Mode : Clean(h, m) = Clean(g, m)
        /\ \A m \in Mode : \A E : Unused(g, m, n, E) /\ Tracks(g, m, E) => Tracks(h, m, E)
    <3>1. \A m \in Mode : n \in g.dirty[m]
      BY ONLY <1>1, <1>4 DEF Known
    <3> QED BY ONLY Sound(g, P), n \in Name, <1>4, <3>1, ErasedSound
  <2>2. /\ h.node = g.node \ {n} /\ h.dirtySource = g.dirtySource \ {n}
        /\ \A m \in Mode : h.resolver[m] = g.resolver[m] \ {n}
        /\ \A d \in Name : /\ h.requires[d] = IF d = n THEN {} ELSE g.requires[d]
                           /\ h.dependents[d] = IF d = n THEN {} ELSE g.dependents[d] \ {n}
    BY ONLY <1>4 DEF Erased
  <2>3. Parsed(h) = Parsed(g) /\ n \notin Parsed(g) /\ Parsed(g) \subseteq Name
    BY ONLY <1>1, <1>4, <2>2 DEF Parsed
  <2>4. Grows(g, h) /\ Gone(h, n)
    <3>1. \A x : Gone(g, x) => Gone(h, x)
      BY ONLY <2>2 DEF Gone
    <3>2. Gone(h, n)
      BY ONLY <1>4, <2>2 DEF Gone
    <3>3. \A d \in Parsed(g) : \A x \in Parsed(g) : x \in g.dependents[d] => x \in h.dependents[d]
      BY ONLY <2>2, <2>3
    <3>4. \A x \in Parsed(g) : h.requires[x] = g.requires[x]
      BY ONLY <2>2, <2>3
    <3> QED BY ONLY <2>1, <2>3, <3>1, <3>2, <3>3, <3>4 DEF Grows
  <2>5. ASSUME NEW m \in Mode, NEW g0, Derived(g0, g, m)
        PROVE  Derived(g0, h, m)
    <3>1. g.dirtySource \subseteq g0.dirtySource /\ h.dirtySource \subseteq g0.dirtySource
      BY ONLY <2>2, <2>5 DEF Derived
    <3>2. ASSUME NEW E, Excepts(g0, h, m, E), Tracks(g0, m, E)
          PROVE  Tracks(h, m, E)
      <4>1. n \in E /\ g0.dirtySource \ g.dirtySource \subseteq E
        BY ONLY <1>4, <2>2, <3>1, <3>2 DEF Excepts
      <4>2. ASSUME NEW x \in Name \ E
            PROVE  h.used[m][x] = g.used[m][x] /\ \A d \in g.used[m][x] : ~ Gone(h, d)
        <5>1. h.used[m][x] = g.used[m][x]
          BY ONLY <1>4, <4>1, x \in Name \ E, m \in Mode DEF Erased
        <5> QED BY ONLY <3>2, <5>1, x \in Name \ E DEF Excepts
      <4>3. \A x : Gone(g, x) => Gone(h, x)
        BY ONLY <2>4 DEF Grows
      <4>4. Excepts(g0, g, m, E)
        BY ONLY <4>1, <4>2, <4>3 DEF Excepts
      <4>5. Unused(g, m, n, E)
        BY ONLY <2>4, <4>2 DEF Unused
      <4>6. Tracks(g, m, E)
        BY ONLY <2>5, <3>2, <4>4 DEF Derived
      <4> QED BY ONLY <2>1, <4>5, <4>6, m \in Mode
    <3> QED BY ONLY <3>1, <3>2 DEF Derived
  <2> QED BY ONLY <2>1, <2>4, <2>5
<1>5. CASE n \notin Parsed(g) /\ Read(g, h, n)
  <2>1. /\ Sound(h, P) /\ \A m \in Mode : Clean(h, m) = Clean(g, m)
        /\ \A m \in Mode : \A E : (n \in g.node => n \in E) /\ Tracks(g, m, E) => Tracks(h, m, E)
    BY ONLY Sound(g, P), n \in Name, <1>5, ReadSound
  <2>2. /\ h.node = g.node \cup {n} /\ h.dirtySource = g.dirtySource \ {n} /\ h.resolver = g.resolver
        /\ disk[n] # Absent
        /\ \A d \in Name : /\ h.requires[d] = IF d = n THEN disk[n] ELSE g.requires[d]
                           /\ h.dependents[d] = g.dependents[d] \ {n}
    BY ONLY <1>5 DEF Read
  <2>3. Parsed(h) = Parsed(g) \cup {n} /\ Parsed(g) \subseteq Name
    BY ONLY <1>1, <2>2 DEF Parsed
  <2>4. Grows(g, h)
    <3>1. \A x : Gone(g, x) => Gone(h, x)
      BY ONLY <2>2 DEF Gone
    <3>2. \A d \in Parsed(g) : \A x \in Parsed(g) : x \in g.dependents[d] => x \in h.dependents[d]
      BY ONLY <1>5, <2>2, <2>3
    <3>3. \A x \in Parsed(g) : h.requires[x] = g.requires[x]
      BY ONLY <1>5, <2>2, <2>3
    <3> QED BY ONLY <2>1, <2>3, <3>1, <3>2, <3>3 DEF Grows
  <2>5. ASSUME NEW m \in Mode, NEW g0, Derived(g0, g, m)
        PROVE  Derived(g0, h, m)
    <3>1. g.dirtySource \subseteq g0.dirtySource /\ h.dirtySource \subseteq g0.dirtySource
      BY ONLY <2>2, <2>5 DEF Derived
    <3>2. ASSUME NEW E, Excepts(g0, h, m, E), Tracks(g0, m, E)
          PROVE  Tracks(h, m, E)
      <4>1. g0.dirtySource \ g.dirtySource \subseteq E /\ (n \in g.node => n \in E)
        BY ONLY <1>5, <2>2, <3>1, <3>2 DEF Excepts, Parsed
      <4>2. h.used = g.used /\ \A x : Gone(g, x) => Gone(h, x)
        BY ONLY <1>5, <2>4 DEF Read, Grows
      <4>3. Excepts(g0, g, m, E)
        BY ONLY <3>2, <4>1, <4>2 DEF Excepts
      <4>4. Tracks(g, m, E)
        BY ONLY <2>5, <3>2, <4>3 DEF Derived
      <4> QED BY ONLY <2>1, <4>1, <4>4, m \in Mode
    <3> QED BY ONLY <3>1, <3>2 DEF Derived
  <2> QED BY ONLY <2>1, <2>3, <2>4, <2>5
<1> QED BY ONLY <1>2, <1>3, <1>4, <1>5 DEF Got

\* The modules that n requires learn of it.
Learns(g, h, n) ==
    h = [g EXCEPT !.dependents = [d \in Name |-> IF d \in g.requires[n] \cap g.node
                                                  THEN g.dependents[d] \cup {n} ELSE g.dependents[d]]]

LEMMA DependentSound ==
  ASSUME NEW g, NEW h, NEW P, NEW n, Sound(g, P), n \in g.node, Learns(g, h, n)
  PROVE  /\ Sound(h, P) /\ Grows(g, h)
         /\ h.node = g.node /\ h.requires = g.requires /\ h.dirtySource = g.dirtySource /\ h.dirty = g.dirty
         /\ \A d \in g.requires[n] \cap g.node : n \in h.dependents[d]
         /\ \A m \in Mode : \A g0 : Derived(g0, g, m) => Derived(g0, h, m)
<1>1. g \in Frontends /\ Linked(g) /\ Known(g, P) /\ Current(g, P)
  BY DEF Sound
<1>2. /\ g.node \subseteq Name /\ g.requires \in [Name -> SUBSET Name] /\ g.dependents \in [Name -> SUBSET Name]
      /\ g.used \in [Mode -> [Name -> SUBSET Name]]
  BY ONLY <1>1 DEF Frontends
<1>3. PICK dep : dep = [d \in Name |-> IF d \in g.requires[n] \cap g.node
                                       THEN g.dependents[d] \cup {n} ELSE g.dependents[d]]
  OBVIOUS
<1>4. /\ dep \in [Name -> SUBSET Name] /\ \A d \in Name : g.dependents[d] \subseteq dep[d]
      /\ \A d \in g.requires[n] \cap g.node : n \in dep[d]
      /\ \A d \in Name : \A x \in dep[d] : x \in g.dependents[d] \/ (x = n /\ d \in g.requires[n])
  BY ONLY <1>2, <1>3, n \in g.node
<1>5. h = [g EXCEPT !.dependents = dep]
  BY ONLY <1>3, Learns(g, h, n) DEF Learns
<1>6. /\ h \in Frontends /\ h.node = g.node /\ h.requires = g.requires /\ h.dependents = dep
      /\ h.dirtySource = g.dirtySource /\ h.dirty = g.dirty /\ h.invalid = g.invalid
      /\ h.resolver = g.resolver /\ h.parsed = g.parsed /\ h.made = g.made /\ h.used = g.used /\ h.stale = g.stale
  BY ONLY <1>1, <1>4, <1>5 DEF Frontends
<1>7. Linked(h)
  BY ONLY <1>1, <1>4, <1>6, n \in g.node DEF Linked
<1>8. Known(h, P)
  BY ONLY <1>1, <1>6 DEF Known, Valid
<1>9. \A m \in Mode : Clean(h, m) = Clean(g, m) /\ Valid(h, m) = Valid(g, m)
  BY ONLY <1>6 DEF Clean, Valid
<1>10. Current(h, P)
  <2> SUFFICES ASSUME NEW m \in Mode, NEW x \in Clean(h, m)
               PROVE  /\ x \in h.resolver[m] /\ x \in P \cup h.made[m] /\ h.stale[m][x] = {}
                      /\ \A d \in h.used[m][x] : d \in Clean(h, m) /\ x \in h.dependents[d]
    BY DEF Current
  <2>1. x \in Clean(g, m) /\ x \in Name
    BY ONLY <1>2, <1>9, x \in Clean(h, m), m \in Mode DEF Clean
  <2>2. /\ x \in g.resolver[m] /\ x \in P \cup g.made[m] /\ g.stale[m][x] = {}
        /\ \A d \in g.used[m][x] : d \in Clean(g, m) /\ x \in g.dependents[d]
    BY ONLY <1>1, <2>1, m \in Mode DEF Current
  <2>3. \A d \in g.used[m][x] : d \in Name
    BY ONLY <1>2, <2>1, m \in Mode
  <2> QED BY ONLY <1>4, <1>6, <1>9, <2>2, <2>3, m \in Mode
<1>11. ASSUME NEW m \in Mode, NEW E, Tracks(g, m, E)
       PROVE  Tracks(h, m, E)
  <2> SUFFICES ASSUME NEW x \in Valid(h, m) \ E
               PROVE  h.stale[m][x] = {} /\ \A d \in h.used[m][x] : d \in Valid(h, m) /\ x \in h.dependents[d]
    BY DEF Tracks
  <2>1. x \in Valid(g, m) \ E /\ x \in Name
    BY ONLY <1>2, <1>9, x \in Valid(h, m) \ E, m \in Mode DEF Valid
  <2>2. g.stale[m][x] = {} /\ \A d \in g.used[m][x] : d \in Valid(g, m) /\ x \in g.dependents[d]
    BY ONLY <1>11, <2>1 DEF Tracks
  <2>3. \A d \in g.used[m][x] : d \in Name
    BY ONLY <1>2, <2>1, m \in Mode
  <2> QED BY ONLY <1>4, <1>6, <1>9, <2>2, <2>3, m \in Mode
<1>12. Grows(g, h)
  <2>1. Parsed(h) = Parsed(g) /\ Parsed(g) \subseteq Name
    BY ONLY <1>2, <1>6 DEF Parsed
  <2>2. \A x : Gone(g, x) => Gone(h, x)
    BY ONLY <1>6 DEF Gone
  <2>3. \A d \in Parsed(g) : \A x \in Parsed(g) : x \in g.dependents[d] => x \in h.dependents[d]
    BY ONLY <1>4, <1>6, <2>1
  <2> QED BY ONLY <1>6, <1>9, <2>1, <2>2, <2>3 DEF Grows
<1>13. ASSUME NEW m \in Mode, NEW g0, Derived(g0, g, m)
       PROVE  Derived(g0, h, m)
  <2>1. \A E : Excepts(g0, h, m, E) => Excepts(g0, g, m, E)
    BY ONLY <1>6 DEF Excepts, Gone
  <2> QED BY ONLY <1>6, <1>11, <1>13, <2>1, m \in Mode DEF Derived
<1> QED BY ONLY <1>4, <1>6, <1>7, <1>8, <1>10, <1>12, <1>13 DEF Sound

-----------------------------------------------------------------------------
(* A search of parseGraph                                                   *)

\* What a search may visit, and the requires it can follow: those of modules that are parsed
Open(g, m) == Parsed(g) \ Clean(g, m)
Fixed(g) == [x \in Name |-> IF x \in Parsed(g) THEN g.requires[x] ELSE {}]

Searches ==
    [g : Frontends, stack : Seq(Name \cup {Marker}), path : Seq(Name),
     mark : [Name -> {"none", "temporary", "permanent"}], seen : SUBSET Name,
     queue : Seq(Name), cyclic : BOOLEAN]

\* All that it holds is parsed and dirty.
Holds(s, m) ==
    /\ s.seen \subseteq Open(s.g, m)
    /\ \A p \in 1 .. Len(s.stack) : s.stack[p] # Marker => s.stack[p] \in Open(s.g, m)
    /\ \A i \in 1 .. Len(s.path) : s.path[i] \in Open(s.g, m)
    /\ \A j \in 1 .. Len(s.queue) : s.queue[j] \in Open(s.g, m)

\* The path is what is marked temporarily, the queue what is marked permanently.
Distinct(q) == \A i, j \in 1 .. Len(q) : q[i] = q[j] => i = j
MarkedAs(s, q, as) == \A x \in Name : s.mark[x] = as <=> \E i \in 1 .. Len(q) : q[i] = x
MarksMatch(s) ==
    Distinct(s.path) /\ Distinct(s.queue) /\ MarkedAs(s, s.path, "temporary") /\ MarkedAs(s, s.queue, "permanent")

\* The marker of path[i] is at[i] on the stack.
Levels(s, at) ==
    /\ at \in [1 .. Len(s.path) -> 1 .. Len(s.stack)]
    /\ \A i, j \in 1 .. Len(s.path) : i < j => at[i] < at[j]
    /\ \A p \in 1 .. Len(s.stack) : s.stack[p] = Marker <=> \E i \in 1 .. Len(s.path) : at[i] = p

\* What was found from a module is reached from it.
Leads(s, at) ==
    \A i \in 1 .. Len(s.path) :
        /\ \A j \in 1 .. Len(s.path) : i <= j => s.path[j] \in Reached(s.path[i], Fixed(s.g))
        /\ \A p \in 1 .. Len(s.stack) : at[i] < p /\ s.stack[p] # Marker => s.stack[p] \in Reached(s.path[i], Fixed(s.g))

\* Of what a module on the path requires, the search has still to see what is above its
\* marker.  For the last one this is of the modules D that it has gone through.
Settled(s, m, d) ==
    \/ d \in Clean(s.g, m) \/ Gone(s.g, d) \/ s.mark[d] = "permanent" \/ (s.mark[d] = "temporary" /\ s.cyclic)
Above(s, at, i, d) ==
    \/ \E j \in 1 .. Len(s.path) : i < j /\ s.path[j] = d
    \/ \E p \in 1 .. Len(s.stack) : at[i] < p /\ s.stack[p] = d
Pends(s, m, at, D) ==
    \A i \in 1 .. Len(s.path) : \A d \in s.g.requires[s.path[i]] :
        i < Len(s.path) \/ d \in D => Settled(s, m, d) \/ Above(s, at, i, d)

\* A queued module is after what it requires, but for cycles and what is clean or gone.
Before(s, m, j, d) ==
    \/ d \in Clean(s.g, m) \/ Gone(s.g, d) \/ \E i \in 1 .. Len(s.queue) : i < j /\ s.queue[i] = d
    \/ s.cyclic /\ s.queue[j] \in Reached(d, Fixed(s.g))
Ordered(s, m) == \A j \in 1 .. Len(s.queue) : \A d \in s.g.requires[s.queue[j]] : Before(s, m, j, d)

\* And a dependent of it.
Told(s) ==
    \A j \in 1 .. Len(s.queue) : \A d \in s.g.requires[s.queue[j]] :
        Gone(s.g, d) \/ (d \in Parsed(s.g) /\ s.queue[j] \in s.g.dependents[d])

Searching(s, m, at, D) ==
    /\ s \in Searches /\ Holds(s, m) /\ MarksMatch(s) /\ Levels(s, at) /\ Leads(s, at)
    /\ Pends(s, m, at, D) /\ Ordered(s, m) /\ Told(s)

LEMMA FrontIs ==
  ASSUME NEW S, NEW q \in Seq(S), q # << >>
  PROVE  /\ Front(q) \in Seq(S) /\ Last(q) = q[Len(q)] /\ Len(q) \in Nat \ {0}
         /\ Len(Front(q)) = Len(q) - 1 /\ \A i \in 1 .. (Len(q) - 1) : Front(q)[i] = q[i]
<1>1. Len(q) \in Nat \ {0} /\ \A i \in 1 .. Len(q) : q[i] \in S
  BY q # << >>, EmptySeq, LenProperties, ElementOfSeq
<1>2. Front(q) = SubSeq(q, 1, Len(q) - 1) /\ Last(q) = q[Len(q)]
  BY DEF Front, Last
<1>3. /\ SubSeq(q, 1, Len(q) - 1) \in Seq(S) /\ Len(SubSeq(q, 1, Len(q) - 1)) = Len(q) - 1
      /\ \A i \in 1 .. (Len(q) - 1) : SubSeq(q, 1, Len(q) - 1)[i] = q[i]
  BY <1>1
<1> QED BY <1>1, <1>2, <1>3

LEMMA AppendIs ==
  ASSUME NEW S, NEW q \in Seq(S), NEW e \in S
  PROVE  /\ Append(q, e) \in Seq(S) /\ Len(q) \in Nat /\ Len(Append(q, e)) = Len(q) + 1
         /\ \A i \in 1 .. Len(q) : Append(q, e)[i] = q[i]
         /\ Append(q, e)[Len(q) + 1] = e
OBVIOUS

LEMMA SearchTypes ==
  ASSUME NEW s, s \in Searches
  PROVE  /\ s.g \in Frontends /\ s.seen \subseteq Name /\ s.cyclic \in BOOLEAN
         /\ s.stack \in Seq(Name \cup {Marker}) /\ s.path \in Seq(Name) /\ s.queue \in Seq(Name)
         /\ Len(s.stack) \in Nat /\ Len(s.path) \in Nat /\ Len(s.queue) \in Nat
         /\ \A p \in 1 .. Len(s.stack) : s.stack[p] \in Name \cup {Marker}
         /\ \A i \in 1 .. Len(s.path) : s.path[i] \in Name
         /\ \A j \in 1 .. Len(s.queue) : s.queue[j] \in Name
         /\ \A x \in Name : s.mark[x] \in {"none", "temporary", "permanent"}
         /\ s.g.requires \in [Name -> SUBSET Name] /\ s.g.node \subseteq Name
         /\ s.mark \in [Name -> {"none", "temporary", "permanent"}]
<1>1. /\ s.g \in Frontends /\ s.seen \subseteq Name /\ s.cyclic \in BOOLEAN
      /\ s.stack \in Seq(Name \cup {Marker}) /\ s.path \in Seq(Name) /\ s.queue \in Seq(Name)
      /\ s.mark \in [Name -> {"none", "temporary", "permanent"}]
  BY DEF Searches
<1>2. s.g.requires \in [Name -> SUBSET Name] /\ s.g.node \subseteq Name
  BY ONLY <1>1 DEF Frontends
<1> QED BY ONLY <1>1, <1>2

\* Nothing that the search holds depends on more than what stays as modules are parsed.
SameLocals(s, t) ==
    /\ t.stack = s.stack /\ t.path = s.path /\ t.mark = s.mark /\ t.seen = s.seen
    /\ t.queue = s.queue /\ t.cyclic = s.cyclic

LEMMA FixedGrows ==
  ASSUME NEW g, NEW h, g \in Frontends, h \in Frontends, Grows(g, h)
  PROVE  \A x \in Name : Reached(x, Fixed(g)) \subseteq Reached(x, Fixed(h))
<1>1. g.requires \in [Name -> SUBSET Name] /\ h.requires \in [Name -> SUBSET Name]
  BY DEF Frontends
<1>2. Edges(Fixed(g)) /\ Edges(Fixed(h))
  BY ONLY <1>1 DEF Edges, Fixed
<1>3. \A x \in Name : Fixed(g)[x] \subseteq Fixed(h)[x]
  BY ONLY Grows(g, h) DEF Fixed, Grows
<1> QED BY ONLY <1>2, <1>3, ReachedMore

LEMMA SearchGrows ==
  ASSUME NEW s, NEW t, NEW m, NEW at, NEW D, Searching(s, m, at, D), m \in Mode, t \in Searches,
         SameLocals(s, t), Grows(s.g, t.g)
  PROVE  Searching(t, m, at, D)
<1>1. /\ s \in Searches /\ Holds(s, m) /\ MarksMatch(s) /\ Levels(s, at) /\ Leads(s, at)
      /\ Pends(s, m, at, D) /\ Ordered(s, m) /\ Told(s)
  BY DEF Searching
<1>2. /\ s.g \in Frontends /\ t.g \in Frontends
      /\ \A i \in 1 .. Len(s.path) : s.path[i] \in Name
      /\ \A j \in 1 .. Len(s.queue) : s.queue[j] \in Name
      /\ s.g.requires \in [Name -> SUBSET Name]
  BY ONLY <1>1, t \in Searches, SearchTypes
<1>3. \A x \in Name : Reached(x, Fixed(s.g)) \subseteq Reached(x, Fixed(t.g))
  BY ONLY <1>2, Grows(s.g, t.g), FixedGrows
<1>4. /\ t.stack = s.stack /\ t.path = s.path /\ t.mark = s.mark /\ t.seen = s.seen
      /\ t.queue = s.queue /\ t.cyclic = s.cyclic
  BY DEF SameLocals
<1>5. /\ Parsed(s.g) \subseteq Parsed(t.g) /\ Clean(t.g, m) = Clean(s.g, m)
      /\ \A x \in Parsed(s.g) : t.g.requires[x] = s.g.requires[x]
      /\ \A d \in Parsed(s.g) : \A x \in Parsed(s.g) : x \in s.g.dependents[d] => x \in t.g.dependents[d]
      /\ \A x : Gone(s.g, x) => Gone(t.g, x)
  BY ONLY Grows(s.g, t.g), m \in Mode DEF Grows
<1>6. Open(s.g, m) \subseteq Open(t.g, m) /\ Open(s.g, m) \subseteq Parsed(s.g)
  BY ONLY <1>5 DEF Open
<1>7. Holds(t, m)
  BY ONLY <1>1, <1>4, <1>6 DEF Holds
<1>8. MarksMatch(t)
  BY ONLY <1>1, <1>4 DEF MarksMatch, MarkedAs
<1>9. Levels(t, at)
  BY ONLY <1>1, <1>4 DEF Levels
<1>10. Leads(t, at)
  BY ONLY <1>1, <1>2, <1>3, <1>4 DEF Leads
<1>11. \A i \in 1 .. Len(s.path) : t.g.requires[s.path[i]] = s.g.requires[s.path[i]]
  BY ONLY <1>1, <1>5, <1>6 DEF Holds
<1>12. \A j \in 1 .. Len(s.queue) : t.g.requires[s.queue[j]] = s.g.requires[s.queue[j]] /\ s.queue[j] \in Parsed(s.g)
  BY ONLY <1>1, <1>5, <1>6 DEF Holds
<1>13. \A d : Settled(s, m, d) => Settled(t, m, d)
  BY ONLY <1>4, <1>5 DEF Settled
<1>14. \A i, d : Above(s, at, i, d) => Above(t, at, i, d)
  BY ONLY <1>4 DEF Above
<1>15. Pends(t, m, at, D)
  BY ONLY <1>1, <1>4, <1>11, <1>13, <1>14 DEF Pends
<1>16. \A j : \A d \in Name : Before(s, m, j, d) => Before(t, m, j, d)
  BY ONLY <1>3, <1>4, <1>5 DEF Before
<1>17. Ordered(t, m)
  BY ONLY <1>1, <1>2, <1>4, <1>12, <1>16 DEF Ordered
<1>18. Told(t)
  BY ONLY <1>1, <1>4, <1>5, <1>12 DEF Told
<1> QED BY ONLY <1>7, <1>8, <1>9, <1>10, <1>15, <1>17, <1>18, t \in Searches DEF Searching

\* A child that is clean, or has no source, or is no child
LEMMA SearchSkips ==
  ASSUME NEW s, NEW m, NEW at, NEW D, NEW d, Searching(s, m, at, D),
         \/ d \in Clean(s.g, m) \/ Gone(s.g, d)
         \/ d \notin s.g.requires[s.path[Len(s.path)]]
  PROVE  Searching(s, m, at, D \cup {d})
<1>1. Pends(s, m, at, D) /\ Len(s.path) \in Nat
  BY SearchTypes DEF Searching
<1>2. ASSUME NEW i \in 1 .. Len(s.path), NEW x \in s.g.requires[s.path[i]], i < Len(s.path) \/ x \in D \cup {d}
      PROVE  Settled(s, m, x) \/ Above(s, at, i, x)
  <2>1. CASE i < Len(s.path) \/ x \in D
    BY ONLY <1>1, <1>2, <2>1 DEF Pends
  <2>2. CASE i = Len(s.path) /\ x = d
    BY ONLY <1>2, <2>2, \/ d \in Clean(s.g, m) \/ Gone(s.g, d)
                        \/ d \notin s.g.requires[s.path[Len(s.path)]] DEF Settled
  <2> QED BY ONLY <1>1, <1>2, <2>1, <2>2
<1>3. Pends(s, m, at, D \cup {d})
  BY ONLY <1>2 DEF Pends
<1> QED BY ONLY <1>3, Searching(s, m, at, D) DEF Searching

\* A child is pushed.
LEMMA SearchPushes ==
  ASSUME NEW s, NEW t, NEW m, NEW at, NEW D, NEW d, Searching(s, m, at, D), s.path # << >>,
         d \in s.g.requires[s.path[Len(s.path)]], d \in Open(s.g, m),
         t = [s EXCEPT !.seen = s.seen \cup {d}, !.stack = Append(s.stack, d)]
  PROVE  Searching(t, m, at, D \cup {d})
<1>1. /\ s \in Searches /\ Holds(s, m) /\ MarksMatch(s) /\ Levels(s, at) /\ Leads(s, at)
      /\ Pends(s, m, at, D) /\ Ordered(s, m) /\ Told(s)
  BY DEF Searching
<1>2. /\ s.g \in Frontends /\ s.seen \subseteq Name /\ s.stack \in Seq(Name \cup {Marker}) /\ s.path \in Seq(Name)
      /\ Len(s.stack) \in Nat /\ Len(s.path) \in Nat /\ s.g.requires \in [Name -> SUBSET Name]
      /\ \A i \in 1 .. Len(s.path) : s.path[i] \in Name
      /\ s.g.node \subseteq Name
  BY ONLY <1>1, SearchTypes
<1>3. d \in Name /\ d # Marker /\ Len(s.path) \in 1 .. Len(s.path)
  <2>1. Len(s.path) \in 1 .. Len(s.path)
    BY ONLY <1>2, s.path # << >>
  <2> QED BY ONLY <1>2, <2>1, d \in s.g.requires[s.path[Len(s.path)]], SourceAssumption DEF SourceAssumption
<1>4. PICK L : L = Len(s.stack)
  OBVIOUS
<1>5. PICK K : K = Len(s.path)
  OBVIOUS
<1>6. /\ Append(s.stack, d) \in Seq(Name \cup {Marker}) /\ Len(Append(s.stack, d)) = L + 1 /\ L \in Nat
      /\ \A p \in 1 .. L : Append(s.stack, d)[p] = s.stack[p]
      /\ Append(s.stack, d)[L + 1] = d
  <2>1. d \in Name \cup {Marker}
    BY ONLY <1>3
  <2> QED BY ONLY <1>2, <1>4, <2>1, AppendIs
<1>7. /\ t \in Searches /\ t.g = s.g /\ t.seen = s.seen \cup {d} /\ t.stack = Append(s.stack, d) /\ t.path = s.path
      /\ t.mark = s.mark /\ t.queue = s.queue /\ t.cyclic = s.cyclic
  <2>1. PICK seen, stack : seen = s.seen \cup {d} /\ stack = Append(s.stack, d)
    OBVIOUS
  <2>2. t = [s EXCEPT !.seen = seen, !.stack = stack] /\ seen \subseteq Name /\ stack \in Seq(Name \cup {Marker})
    BY ONLY <1>2, <1>3, <1>6, <2>1, t = [s EXCEPT !.seen = s.seen \cup {d}, !.stack = Append(s.stack, d)]
  <2>3. /\ t \in Searches /\ t.g = s.g /\ t.seen = seen /\ t.stack = stack /\ t.path = s.path
        /\ t.mark = s.mark /\ t.queue = s.queue /\ t.cyclic = s.cyclic
    BY ONLY <1>1, <2>2 DEF Searches
  <2> QED BY ONLY <2>1, <2>3
<1>8. /\ Len(t.stack) = L + 1 /\ L \in Nat /\ \A p \in 1 .. L : t.stack[p] = s.stack[p]
      /\ t.stack[L + 1] = d /\ K \in Nat /\ Len(t.path) = K
  BY ONLY <1>2, <1>5, <1>6, <1>7
<1>9. Holds(t, m)
  <2>1. \A p \in 1 .. Len(t.stack) : t.stack[p] # Marker => t.stack[p] \in Open(t.g, m)
    BY ONLY <1>1, <1>4, <1>7, <1>8, d \in Open(s.g, m) DEF Holds
  <2> QED BY ONLY <1>1, <1>7, <2>1, d \in Open(s.g, m) DEF Holds
<1>10. MarksMatch(t)
  BY ONLY <1>1, <1>7 DEF MarksMatch, MarkedAs
<1>11. /\ at \in [1 .. K -> 1 .. L] /\ \A i, j \in 1 .. K : i < j => at[i] < at[j]
       /\ \A p \in 1 .. L : s.stack[p] = Marker <=> \E i \in 1 .. K : at[i] = p
  BY ONLY <1>1, <1>4, <1>5 DEF Levels
<1>12. Levels(t, at)
  <2>1. at \in [1 .. K -> 1 .. (L + 1)]
    BY ONLY <1>8, <1>11
  <2>2. ASSUME NEW p \in 1 .. (L + 1)
        PROVE  t.stack[p] = Marker <=> \E i \in 1 .. K : at[i] = p
    <3>1. CASE p \in 1 .. L
      BY ONLY <1>8, <1>11, <3>1
    <3>2. CASE p = L + 1
      BY ONLY <1>3, <1>8, <1>11, <3>2
    <3> QED BY ONLY <1>8, <3>1, <3>2, p \in 1 .. (L + 1)
  <2> QED BY ONLY <1>8, <1>11, <2>1, <2>2 DEF Levels
<1>13. \A i \in 1 .. K : d \in Reached(s.path[i], Fixed(s.g))
  <2> SUFFICES ASSUME NEW i \in 1 .. K
               PROVE  d \in Reached(s.path[i], Fixed(s.g))
    OBVIOUS
  <2>1. s.path[K] \in Reached(s.path[i], Fixed(s.g))
    BY ONLY <1>1, <1>3, <1>5 DEF Leads
  <2>2. Fixed(s.g)[s.path[K]] = s.g.requires[s.path[K]] /\ Edges(Fixed(s.g))
    BY ONLY <1>1, <1>2, <1>3, <1>5 DEF Fixed, Holds, Open, Edges
  <2>3. \A x \in Reached(s.path[i], Fixed(s.g)) : Fixed(s.g)[x] \subseteq Reached(s.path[i], Fixed(s.g))
    BY ONLY <1>2, <1>5, <2>2, ReachedIs
  <2> QED BY ONLY <1>5, <2>1, <2>2, <2>3, d \in s.g.requires[s.path[Len(s.path)]]
<1>14. Leads(t, at)
  <2>1. ASSUME NEW i \in 1 .. K, NEW p \in 1 .. (L + 1), at[i] < p, t.stack[p] # Marker
        PROVE  t.stack[p] \in Reached(s.path[i], Fixed(s.g))
    <3>1. CASE p \in 1 .. L
      BY ONLY <1>1, <1>4, <1>5, <1>8, <2>1, <3>1 DEF Leads
    <3>2. CASE p = L + 1
      BY ONLY <1>8, <1>13, <3>2
    <3> QED BY ONLY <1>8, <3>1, <3>2, p \in 1 .. (L + 1)
  <2>2. \A i \in 1 .. K : \A j \in 1 .. K : i <= j => s.path[j] \in Reached(s.path[i], Fixed(s.g))
    BY ONLY <1>1, <1>5 DEF Leads
  <2> QED BY ONLY <1>5, <1>7, <1>8, <2>1, <2>2 DEF Leads
<1>15. \A x : Settled(s, m, x) => Settled(t, m, x)
  BY ONLY <1>7 DEF Settled
<1>16. \A i, x : Above(s, at, i, x) => Above(t, at, i, x)
  <2> SUFFICES ASSUME NEW i, NEW x, Above(s, at, i, x)
               PROVE  Above(t, at, i, x)
    OBVIOUS
  <2>1. CASE \E j \in 1 .. Len(s.path) : i < j /\ s.path[j] = x
    BY ONLY <1>7, <2>1 DEF Above
  <2>2. CASE \E p \in 1 .. L : at[i] < p /\ s.stack[p] = x
    <3>1. \E p \in 1 .. (L + 1) : at[i] < p /\ t.stack[p] = x
      BY ONLY <1>8, <2>2
    <3> QED BY ONLY <1>8, <3>1 DEF Above
  <2> QED BY ONLY <1>4, <2>1, <2>2, Above(s, at, i, x) DEF Above
<1>17. Pends(t, m, at, D \cup {d})
  <2>0. Len(t.path) = K /\ t.path = s.path /\ t.g = s.g
    BY ONLY <1>5, <1>7
  <2> SUFFICES ASSUME NEW i \in 1 .. K, NEW x \in s.g.requires[s.path[i]], i < K \/ x \in D \cup {d}
               PROVE  Settled(t, m, x) \/ Above(t, at, i, x)
    BY ONLY <2>0, \A i \in 1 .. K : \A x \in s.g.requires[s.path[i]] : i < K \/ x \in D \cup {d} =>
                     Settled(t, m, x) \/ Above(t, at, i, x) DEF Pends
  <2>1. CASE i < K \/ x \in D
    BY ONLY <1>1, <1>5, <1>15, <1>16, <2>1, x \in s.g.requires[s.path[i]], i \in 1 .. K DEF Pends
  <2>2. CASE x = d
    <3>1. at[i] < L + 1 /\ L + 1 \in 1 .. (L + 1)
      BY ONLY <1>8, <1>11
    <3> QED BY ONLY <1>8, <2>2, <3>1 DEF Above
  <2> QED BY ONLY <2>1, <2>2, i < K \/ x \in D \cup {d}
<1>18. Ordered(t, m)
  BY ONLY <1>1, <1>7 DEF Ordered, Before
<1>19. Told(t)
  BY ONLY <1>1, <1>7 DEF Told
<1> QED BY ONLY <1>7, <1>9, <1>10, <1>12, <1>14, <1>17, <1>18, <1>19 DEF Searching

\* A node that has no mark is put on the path.
Visits(s, t, top) ==
    t = [s EXCEPT !.seen = s.seen \cup {top}, !.mark[top] = "temporary",
                  !.path = Append(s.path, top), !.stack = Append(Front(s.stack), Marker)]
Raised(s, at, a2) ==
    a2 = [i \in 1 .. (Len(s.path) + 1) |-> IF i = Len(s.path) + 1 THEN Len(s.stack) ELSE at[i]]

LEMMA SearchVisits ==
  ASSUME NEW s, NEW t, NEW m, NEW at, NEW a2, NEW top, Searching(s, m, at, Name), s.stack # << >>,
         top = Last(s.stack), top # Marker, s.mark[top] = "none",
         Visits(s, t, top), Raised(s, at, a2)
  PROVE  Searching(t, m, a2, {}) /\ t.g = s.g /\ t.path # << >> /\ t.path[Len(t.path)] = top
<1>1. /\ s \in Searches /\ Holds(s, m) /\ MarksMatch(s) /\ Levels(s, at) /\ Leads(s, at)
      /\ Pends(s, m, at, Name) /\ Ordered(s, m) /\ Told(s)
  BY DEF Searching
<1>2. /\ s.g \in Frontends /\ s.seen \subseteq Name /\ s.stack \in Seq(Name \cup {Marker}) /\ s.path \in Seq(Name)
      /\ Len(s.stack) \in Nat /\ Len(s.path) \in Nat /\ s.g.requires \in [Name -> SUBSET Name]
      /\ \A p \in 1 .. Len(s.stack) : s.stack[p] \in Name \cup {Marker}
      /\ \A i \in 1 .. Len(s.path) : s.path[i] \in Name
      /\ s.mark \in [Name -> {"none", "temporary", "permanent"}]
  BY ONLY <1>1, SearchTypes
<1>3. PICK L : L = Len(s.stack)
  OBVIOUS
<1>4. PICK K : K = Len(s.path)
  OBVIOUS
<1>5. /\ Front(s.stack) \in Seq(Name \cup {Marker}) /\ top = s.stack[L] /\ L \in Nat \ {0}
      /\ Len(Front(s.stack)) = L - 1 /\ \A p \in 1 .. (L - 1) : Front(s.stack)[p] = s.stack[p]
  BY ONLY <1>2, <1>3, s.stack # << >>, top = Last(s.stack), FrontIs
<1>6. top \in Name /\ K \in Nat /\ L \in 1 .. L
  BY ONLY <1>2, <1>3, <1>4, <1>5, top # Marker
<1>7. PICK u : u = Append(Front(s.stack), Marker)
  OBVIOUS
<1>8. /\ u \in Seq(Name \cup {Marker}) /\ Len(u) = L /\ u[L] = Marker
      /\ \A p \in 1 .. (L - 1) : u[p] = s.stack[p]
  <2>1. Marker \in Name \cup {Marker}
    OBVIOUS
  <2>2. /\ u \in Seq(Name \cup {Marker}) /\ Len(u) = (L - 1) + 1 /\ u[(L - 1) + 1] = Marker
        /\ \A p \in 1 .. (L - 1) : u[p] = Front(s.stack)[p]
    BY ONLY <1>5, <1>7, <2>1, AppendIs
  <2>3. (L - 1) + 1 = L
    BY ONLY <1>5
  <2> QED BY ONLY <1>5, <2>2, <2>3
<1>9. PICK v : v = Append(s.path, top)
  OBVIOUS
<1>10. /\ v \in Seq(Name) /\ Len(v) = K + 1 /\ v[K + 1] = top /\ \A i \in 1 .. K : v[i] = s.path[i]
  BY ONLY <1>2, <1>4, <1>6, <1>9, AppendIs
<1>11. PICK mk : mk = [s.mark EXCEPT ![top] = "temporary"]
  OBVIOUS
<1>12. /\ mk \in [Name -> {"none", "temporary", "permanent"}] /\ mk[top] = "temporary"
       /\ \A x \in Name : x # top => mk[x] = s.mark[x]
  BY ONLY <1>2, <1>6, <1>11
<1>13. /\ t \in Searches /\ t.g = s.g /\ t.seen = s.seen \cup {top} /\ t.stack = u /\ t.path = v
       /\ t.mark = mk /\ t.queue = s.queue /\ t.cyclic = s.cyclic
  <2>1. PICK seen : seen = s.seen \cup {top}
    OBVIOUS
  <2>2. t = [s EXCEPT !.seen = seen, !.mark = mk, !.path = v, !.stack = u]
    BY ONLY <1>7, <1>9, <1>11, <2>1, Visits(s, t, top) DEF Visits
  <2>3. seen \subseteq Name
    BY ONLY <1>2, <1>6, <2>1
  <2>4. /\ t \in Searches /\ t.g = s.g /\ t.seen = seen /\ t.stack = u /\ t.path = v
        /\ t.mark = mk /\ t.queue = s.queue /\ t.cyclic = s.cyclic
    BY ONLY <1>1, <1>8, <1>10, <1>12, <2>2, <2>3 DEF Searches
  <2> QED BY ONLY <2>1, <2>4
<1>14. top \in Open(s.g, m)
  BY ONLY <1>1, <1>3, <1>5, <1>6, top # Marker DEF Holds
<1>15. Holds(t, m)
  <2>1. \A p \in 1 .. L : u[p] # Marker => u[p] \in Open(s.g, m)
    BY ONLY <1>1, <1>3, <1>5, <1>8 DEF Holds
  <2>2. \A i \in 1 .. (K + 1) : v[i] \in Open(s.g, m)
    BY ONLY <1>1, <1>4, <1>6, <1>10, <1>14 DEF Holds
  <2>3. s.seen \cup {top} \subseteq Open(s.g, m) /\ \A j \in 1 .. Len(s.queue) : s.queue[j] \in Open(s.g, m)
    BY ONLY <1>1, <1>14 DEF Holds
  <2> QED BY ONLY <1>8, <1>10, <1>13, <2>1, <2>2, <2>3 DEF Holds
<1>16. /\ \A i, j \in 1 .. K : s.path[i] = s.path[j] => i = j
       /\ \A x \in Name : s.mark[x] = "temporary" <=> \E i \in 1 .. K : s.path[i] = x
       /\ \A x \in Name : s.mark[x] = "permanent" <=> \E i \in 1 .. Len(s.queue) : s.queue[i] = x
       /\ Distinct(s.queue)
  BY ONLY <1>1, <1>4 DEF MarksMatch, MarkedAs, Distinct
<1>17. MarksMatch(t)
  <2>1. \A i \in 1 .. K : s.path[i] # top
    BY ONLY <1>6, <1>16, s.mark[top] = "none"
  <2>2. Distinct(v)
    BY ONLY <1>6, <1>10, <1>16, <2>1 DEF Distinct
  <2>3. \A x \in Name : mk[x] = "temporary" <=> \E i \in 1 .. (K + 1) : v[i] = x
    <3> SUFFICES ASSUME NEW x \in Name
                 PROVE  mk[x] = "temporary" <=> \E i \in 1 .. (K + 1) : v[i] = x
      OBVIOUS
    <3>1. CASE x = top
      BY ONLY <1>6, <1>10, <1>12, <3>1
    <3>2. CASE x # top
      BY ONLY <1>6, <1>10, <1>12, <1>16, <3>2, x \in Name
    <3> QED BY ONLY <3>1, <3>2
  <2>4. \A x \in Name : mk[x] = "permanent" <=> \E i \in 1 .. Len(s.queue) : s.queue[i] = x
    BY ONLY <1>6, <1>12, <1>16, s.mark[top] = "none"
  <2> QED BY ONLY <1>10, <1>13, <1>16, <2>2, <2>3, <2>4 DEF MarksMatch, MarkedAs
<1>18. /\ at \in [1 .. K -> 1 .. L] /\ \A i, j \in 1 .. K : i < j => at[i] < at[j]
       /\ \A p \in 1 .. L : s.stack[p] = Marker <=> \E i \in 1 .. K : at[i] = p
  BY ONLY <1>1, <1>3, <1>4 DEF Levels
<1>19. \A i \in 1 .. K : at[i] \in 1 .. L /\ at[i] < L
  BY ONLY <1>5, <1>6, <1>18, top # Marker
<1>20. a2 \in [1 .. (K + 1) -> 1 .. L] /\ a2[K + 1] = L /\ \A i \in 1 .. K : a2[i] = at[i]
  BY ONLY <1>3, <1>4, <1>6, <1>19, Raised(s, at, a2) DEF Raised
<1>21. Levels(t, a2)
  <2>1. \A i, j \in 1 .. (K + 1) : i < j => a2[i] < a2[j]
    <3> SUFFICES ASSUME NEW i \in 1 .. (K + 1), NEW j \in 1 .. (K + 1), i < j
                 PROVE  a2[i] < a2[j]
      OBVIOUS
    <3>1. i \in 1 .. K
      BY ONLY <1>6, i \in 1 .. (K + 1), j \in 1 .. (K + 1), i < j
    <3>2. CASE j \in 1 .. K
      BY ONLY <1>18, <1>20, <3>1, <3>2, i < j
    <3>3. CASE j = K + 1
      BY ONLY <1>19, <1>20, <3>1, <3>3
    <3> QED BY ONLY <1>6, <3>2, <3>3, j \in 1 .. (K + 1)
  <2>2. ASSUME NEW p \in 1 .. L
        PROVE  u[p] = Marker <=> \E i \in 1 .. (K + 1) : a2[i] = p
    <3>1. CASE p = L
      BY ONLY <1>6, <1>8, <1>20, <3>1
    <3>2. CASE p \in 1 .. (L - 1)
      <4>1. u[p] = s.stack[p] /\ p # L
        BY ONLY <1>5, <1>8, <3>2
      <4>2. (\E i \in 1 .. K : at[i] = p) <=> \E i \in 1 .. (K + 1) : a2[i] = p
        BY ONLY <1>6, <1>20, <4>1
      <4> QED BY ONLY <1>18, <4>1, <4>2, p \in 1 .. L
    <3> QED BY ONLY <1>5, <3>1, <3>2, p \in 1 .. L
  <2> QED BY ONLY <1>8, <1>10, <1>13, <1>20, <2>1, <2>2 DEF Levels
<1>22. Leads(t, a2)
  <2>1. \A i \in 1 .. K : top \in Reached(s.path[i], Fixed(s.g))
    BY ONLY <1>1, <1>3, <1>4, <1>5, <1>6, <1>19, top # Marker DEF Leads
  <2>2. top \in Reached(top, Fixed(s.g))
    <3>1. Edges(Fixed(s.g))
      BY ONLY <1>2 DEF Fixed, Edges
    <3> QED BY ONLY <1>6, <3>1, ReachedIs
  <2>3. ASSUME NEW i \in 1 .. (K + 1), NEW j \in 1 .. (K + 1), i <= j
        PROVE  v[j] \in Reached(v[i], Fixed(s.g))
    <3>1. CASE i \in 1 .. K /\ j \in 1 .. K
      BY ONLY <1>1, <1>4, <1>10, <2>3, <3>1 DEF Leads
    <3>2. CASE i \in 1 .. K /\ j = K + 1
      BY ONLY <1>10, <2>1, <3>2
    <3>3. CASE i = K + 1
      <4>1. j = K + 1
        BY ONLY <1>6, <2>3, <3>3
      <4> QED BY ONLY <1>10, <2>2, <3>3, <4>1
    <3> QED BY ONLY <1>6, <2>3, <3>1, <3>2, <3>3
  <2>4. ASSUME NEW i \in 1 .. (K + 1), NEW p \in 1 .. L, a2[i] < p, u[p] # Marker
        PROVE  u[p] \in Reached(v[i], Fixed(s.g))
    <3>1. p \in 1 .. (L - 1)
      BY ONLY <1>5, <1>8, <2>4
    <3>2. i \in 1 .. K
      BY ONLY <1>5, <1>6, <1>20, <2>4, <3>1
    <3>3. v[i] = s.path[i] /\ u[p] = s.stack[p] /\ at[i] < p
      BY ONLY <1>8, <1>10, <1>20, <2>4, <3>1, <3>2
    <3> QED BY ONLY <1>1, <1>3, <1>4, <2>4, <3>2, <3>3 DEF Leads
  <2> QED BY ONLY <1>8, <1>10, <1>13, <2>3, <2>4 DEF Leads
<1>23. Pends(t, m, a2, {})
  <2> SUFFICES ASSUME NEW i \in 1 .. K, NEW x \in s.g.requires[s.path[i]]
               PROVE  Settled(t, m, x) \/ Above(t, a2, i, x)
    <3>1. /\ Len(t.path) = K + 1 /\ t.g = s.g /\ \A i \in 1 .. K : t.path[i] = s.path[i]
          /\ \A i \in 1 .. (K + 1) : i < K + 1 => i \in 1 .. K
      BY ONLY <1>6, <1>10, <1>13
    <3> QED BY ONLY <3>1, \A i \in 1 .. K : \A x \in s.g.requires[s.path[i]] :
                             Settled(t, m, x) \/ Above(t, a2, i, x) DEF Pends
  <2>1. x \in Name
    BY ONLY <1>2, <1>4, i \in 1 .. K, x \in s.g.requires[s.path[i]]
  <2>2. Settled(s, m, x) \/ Above(s, at, i, x)
    BY ONLY <1>1, <1>4, <2>1, i \in 1 .. K, x \in s.g.requires[s.path[i]] DEF Pends
  <2>3. CASE Settled(s, m, x)
    <3>1. s.mark[x] \in {"temporary", "permanent"} => mk[x] = s.mark[x]
      BY ONLY <1>12, <2>1, s.mark[top] = "none"
    <3> QED BY ONLY <1>13, <2>3, <3>1 DEF Settled
  <2>4. CASE Above(s, at, i, x)
    <3>1. CASE \E j \in 1 .. K : i < j /\ s.path[j] = x
      <4>1. \E j \in 1 .. (K + 1) : i < j /\ v[j] = x
        BY ONLY <1>6, <1>10, <3>1
      <4> QED BY ONLY <1>10, <1>13, <4>1 DEF Above
    <3>2. CASE \E p \in 1 .. L : at[i] < p /\ s.stack[p] = x
      <4>1. PICK p \in 1 .. L : at[i] < p /\ s.stack[p] = x
        BY ONLY <3>2
      <4>2. CASE p = L
        <5>1. i < K + 1 /\ v[K + 1] = x /\ K + 1 \in 1 .. (K + 1)
          BY ONLY <1>5, <1>6, <1>10, <4>1, <4>2, i \in 1 .. K
        <5> QED BY ONLY <1>10, <1>13, <5>1 DEF Above
      <4>3. CASE p \in 1 .. (L - 1)
        <5>1. a2[i] < p /\ u[p] = x
          BY ONLY <1>8, <1>20, <4>1, <4>3, i \in 1 .. K
        <5> QED BY ONLY <1>8, <1>13, <4>1, <5>1 DEF Above
      <4> QED BY ONLY <1>5, <4>1, <4>2, <4>3
    <3> QED BY ONLY <1>3, <1>4, <2>4, <3>1, <3>2 DEF Above
  <2> QED BY ONLY <2>2, <2>3, <2>4
<1>24. Ordered(t, m) /\ Told(t)
  BY ONLY <1>1, <1>13 DEF Ordered, Before, Told
<1>25. t.path # << >> /\ t.path[Len(t.path)] = top
  BY ONLY <1>6, <1>10, <1>13
<1> QED BY ONLY <1>13, <1>15, <1>17, <1>21, <1>22, <1>23, <1>24, <1>25 DEF Searching

\* A node that was seen on the stack again is popped; one on the path closes a cycle.
Pops(s, t, top) ==
    t = [s EXCEPT !.stack = Front(s.stack), !.cyclic = s.cyclic \/ s.mark[top] = "temporary"]

LEMMA SearchPops ==
  ASSUME NEW s, NEW t, NEW m, NEW at, NEW top, Searching(s, m, at, Name), s.stack # << >>,
         top = Last(s.stack), top # Marker, s.mark[top] # "none",
         Pops(s, t, top)
  PROVE  Searching(t, m, at, Name) /\ t.g = s.g
<1>1. /\ s \in Searches /\ Holds(s, m) /\ MarksMatch(s) /\ Levels(s, at) /\ Leads(s, at)
      /\ Pends(s, m, at, Name) /\ Ordered(s, m) /\ Told(s)
  BY DEF Searching
<1>2. /\ s.g \in Frontends /\ s.stack \in Seq(Name \cup {Marker}) /\ Len(s.stack) \in Nat /\ Len(s.path) \in Nat
      /\ s.g.requires \in [Name -> SUBSET Name] /\ s.cyclic \in BOOLEAN
      /\ \A p \in 1 .. Len(s.stack) : s.stack[p] \in Name \cup {Marker}
      /\ \A i \in 1 .. Len(s.path) : s.path[i] \in Name
      /\ \A x \in Name : s.mark[x] \in {"none", "temporary", "permanent"}
  BY ONLY <1>1, SearchTypes
<1>3. PICK L : L = Len(s.stack)
  OBVIOUS
<1>4. PICK K : K = Len(s.path)
  OBVIOUS
<1>5. /\ Front(s.stack) \in Seq(Name \cup {Marker}) /\ top = s.stack[L] /\ L \in Nat \ {0}
      /\ Len(Front(s.stack)) = L - 1 /\ \A p \in 1 .. (L - 1) : Front(s.stack)[p] = s.stack[p]
  BY ONLY <1>2, <1>3, s.stack # << >>, top = Last(s.stack), FrontIs
<1>6. top \in Name /\ K \in Nat /\ L \in 1 .. L
  BY ONLY <1>2, <1>3, <1>4, <1>5, top # Marker
<1>7. PICK u : u = Front(s.stack)
  OBVIOUS
<1>8. /\ u \in Seq(Name \cup {Marker}) /\ Len(u) = L - 1 /\ \A p \in 1 .. (L - 1) : u[p] = s.stack[p]
  BY ONLY <1>5, <1>7
<1>9. PICK cyc : cyc = (s.cyclic \/ s.mark[top] = "temporary")
  OBVIOUS
<1>10. /\ cyc \in BOOLEAN /\ (s.cyclic => cyc) /\ (s.mark[top] = "temporary" => cyc)
  BY ONLY <1>9
<1>11. /\ t \in Searches /\ t.g = s.g /\ t.seen = s.seen /\ t.stack = u /\ t.path = s.path
       /\ t.mark = s.mark /\ t.queue = s.queue /\ t.cyclic = cyc
  <2>1. t = [s EXCEPT !.stack = u, !.cyclic = cyc]
    BY ONLY <1>7, <1>9, Pops(s, t, top) DEF Pops
  <2> QED BY ONLY <1>1, <1>8, <1>10, <2>1 DEF Searches
<1>12. Holds(t, m)
  <2>1. \A p \in 1 .. (L - 1) : u[p] # Marker => u[p] \in Open(s.g, m)
    BY ONLY <1>1, <1>3, <1>5, <1>8 DEF Holds
  <2> QED BY ONLY <1>1, <1>8, <1>11, <2>1 DEF Holds
<1>13. MarksMatch(t)
  BY ONLY <1>1, <1>11 DEF MarksMatch, MarkedAs
<1>14. /\ at \in [1 .. K -> 1 .. L] /\ \A i, j \in 1 .. K : i < j => at[i] < at[j]
       /\ \A p \in 1 .. L : s.stack[p] = Marker <=> \E i \in 1 .. K : at[i] = p
  BY ONLY <1>1, <1>3, <1>4 DEF Levels
<1>15. \A i \in 1 .. K : at[i] \in 1 .. (L - 1)
  BY ONLY <1>5, <1>6, <1>14, top # Marker
<1>16. Levels(t, at)
  <2>1. at \in [1 .. K -> 1 .. (L - 1)]
    BY ONLY <1>14, <1>15
  <2>2. \A p \in 1 .. (L - 1) : u[p] = Marker <=> \E i \in 1 .. K : at[i] = p
    BY ONLY <1>5, <1>8, <1>14
  <2> QED BY ONLY <1>4, <1>8, <1>11, <1>14, <2>1, <2>2 DEF Levels
<1>17. Leads(t, at)
  <2>1. ASSUME NEW i \in 1 .. K, NEW p \in 1 .. (L - 1), at[i] < p, u[p] # Marker
        PROVE  u[p] \in Reached(s.path[i], Fixed(s.g))
    <3>1. p \in 1 .. L /\ u[p] = s.stack[p]
      BY ONLY <1>5, <1>8, <2>1
    <3> QED BY ONLY <1>1, <1>3, <1>4, <2>1, <3>1 DEF Leads
  <2>2. \A i \in 1 .. K : \A j \in 1 .. K : i <= j => s.path[j] \in Reached(s.path[i], Fixed(s.g))
    BY ONLY <1>1, <1>4 DEF Leads
  <2> QED BY ONLY <1>4, <1>8, <1>11, <2>1, <2>2 DEF Leads
<1>18. ASSUME NEW i \in 1 .. K, NEW x \in s.g.requires[s.path[i]]
       PROVE  Settled(t, m, x) \/ Above(t, at, i, x)
  <2>1. x \in Name
    BY ONLY <1>2, <1>4, <1>18
  <2>2. Settled(s, m, x) \/ Above(s, at, i, x)
    BY ONLY <1>1, <1>4, <2>1, <1>18 DEF Pends
  <2>3. CASE Settled(s, m, x)
    BY ONLY <1>10, <1>11, <2>3 DEF Settled
  <2>4. CASE Above(s, at, i, x)
    <3>1. CASE \E j \in 1 .. K : i < j /\ s.path[j] = x
      BY ONLY <1>4, <1>11, <3>1 DEF Above
    <3>2. CASE \E p \in 1 .. L : at[i] < p /\ s.stack[p] = x
      <4>1. PICK p \in 1 .. L : at[i] < p /\ s.stack[p] = x
        BY ONLY <3>2
      <4>2. CASE p = L
        BY ONLY <1>2, <1>5, <1>6, <1>10, <1>11, <4>1, <4>2, s.mark[top] # "none" DEF Settled
      <4>3. CASE p \in 1 .. (L - 1)
        <5>1. u[p] = x
          BY ONLY <1>8, <4>1, <4>3
        <5> QED BY ONLY <1>8, <1>11, <4>1, <4>3, <5>1 DEF Above
      <4> QED BY ONLY <1>5, <4>1, <4>2, <4>3
    <3> QED BY ONLY <1>3, <1>4, <2>4, <3>1, <3>2 DEF Above
  <2> QED BY ONLY <2>2, <2>3, <2>4
<1>19. Pends(t, m, at, Name)
  BY ONLY <1>4, <1>11, <1>18 DEF Pends
<1>20. Ordered(t, m)
  <2>1. \A j, d : Before(s, m, j, d) => Before(t, m, j, d)
    BY ONLY <1>10, <1>11 DEF Before
  <2> QED BY ONLY <1>1, <1>11, <2>1 DEF Ordered
<1>21. Told(t)
  BY ONLY <1>1, <1>11 DEF Told
<1> QED BY ONLY <1>11, <1>12, <1>13, <1>16, <1>17, <1>19, <1>20, <1>21 DEF Searching

\* A marker ends its node: all it requires is settled, but for a cycle that leads to it.
Finishes(s, t, top) ==
    t = [s EXCEPT !.stack = Front(s.stack), !.path = Front(s.path), !.mark[top] = "permanent",
                  !.queue = Append(s.queue, top)]
Lowered(s, at, a2) == a2 = [i \in 1 .. (Len(s.path) - 1) |-> at[i]]

LEMMA SearchFinishes ==
  ASSUME NEW s, NEW t, NEW m, NEW at, NEW a2, NEW top, Searching(s, m, at, Name), s.stack # << >>,
         Last(s.stack) = Marker, top = Last(s.path), \A d \in Clean(s.g, m) : d \in Parsed(s.g),
         \A d \in s.g.requires[top] \cap s.g.node : top \in s.g.dependents[d],
         Finishes(s, t, top), Lowered(s, at, a2)
  PROVE  Searching(t, m, a2, Name) /\ t.g = s.g
<1>1. /\ s \in Searches /\ Holds(s, m) /\ MarksMatch(s) /\ Levels(s, at) /\ Leads(s, at)
      /\ Pends(s, m, at, Name) /\ Ordered(s, m) /\ Told(s)
  BY DEF Searching
<1>2. /\ s.g \in Frontends /\ s.stack \in Seq(Name \cup {Marker}) /\ s.path \in Seq(Name) /\ s.queue \in Seq(Name)
      /\ Len(s.stack) \in Nat /\ Len(s.path) \in Nat /\ Len(s.queue) \in Nat
      /\ s.g.requires \in [Name -> SUBSET Name] /\ s.g.node \subseteq Name
      /\ \A i \in 1 .. Len(s.path) : s.path[i] \in Name
      /\ s.mark \in [Name -> {"none", "temporary", "permanent"}]
  BY ONLY <1>1, SearchTypes
<1>3. PICK L : L = Len(s.stack)
  OBVIOUS
<1>4. PICK K : K = Len(s.path)
  OBVIOUS
<1>5. PICK Q : Q = Len(s.queue)
  OBVIOUS
<1>6. PICK u : u = Front(s.stack)
  OBVIOUS
<1>7. /\ u \in Seq(Name \cup {Marker}) /\ s.stack[L] = Marker /\ L \in Nat \ {0}
      /\ Len(u) = L - 1 /\ \A p \in 1 .. (L - 1) : u[p] = s.stack[p]
  BY ONLY <1>2, <1>3, <1>6, s.stack # << >>, Last(s.stack) = Marker, FrontIs
<1>8. /\ at \in [1 .. K -> 1 .. L] /\ \A i, j \in 1 .. K : i < j => at[i] < at[j]
      /\ \A p \in 1 .. L : s.stack[p] = Marker <=> \E i \in 1 .. K : at[i] = p
  BY ONLY <1>1, <1>3, <1>4 DEF Levels
<1>9. K \in Nat \ {0} /\ at[K] = L /\ K \in 1 .. K
  <2>1. PICK i \in 1 .. K : at[i] = L
    BY ONLY <1>7, <1>8
  <2>2. K \in Nat \ {0} /\ K \in 1 .. K
    BY ONLY <1>2, <1>4, <2>1
  <2>3. at[K] \in 1 .. L
    BY ONLY <1>8, <2>2
  <2>4. i = K \/ i < K
    BY ONLY <2>1, <2>2
  <2> QED BY ONLY <1>7, <1>8, <2>1, <2>2, <2>3, <2>4
<1>10. PICK v : v = Front(s.path)
  OBVIOUS
<1>11. /\ v \in Seq(Name) /\ top = s.path[K] /\ Len(v) = K - 1 /\ \A i \in 1 .. (K - 1) : v[i] = s.path[i]
       /\ top \in Name
  <2>1. s.path # << >>
    BY ONLY <1>2, <1>4, <1>9
  <2>2. /\ v \in Seq(Name) /\ top = s.path[K] /\ Len(v) = K - 1 /\ \A i \in 1 .. (K - 1) : v[i] = s.path[i]
    BY ONLY <1>2, <1>4, <1>10, <2>1, top = Last(s.path), FrontIs
  <2> QED BY ONLY <1>2, <1>4, <1>9, <2>2
<1>12. PICK w : w = Append(s.queue, top)
  OBVIOUS
<1>13. /\ w \in Seq(Name) /\ Len(w) = Q + 1 /\ w[Q + 1] = top /\ \A j \in 1 .. Q : w[j] = s.queue[j]
       /\ Q \in Nat
  BY ONLY <1>2, <1>5, <1>11, <1>12, AppendIs
<1>14. PICK mk : mk = [s.mark EXCEPT ![top] = "permanent"]
  OBVIOUS
<1>15. /\ mk \in [Name -> {"none", "temporary", "permanent"}] /\ mk[top] = "permanent"
       /\ \A x \in Name : x # top => mk[x] = s.mark[x]
  BY ONLY <1>2, <1>11, <1>14
<1>16. /\ t \in Searches /\ t.g = s.g /\ t.seen = s.seen /\ t.stack = u /\ t.path = v
       /\ t.mark = mk /\ t.queue = w /\ t.cyclic = s.cyclic
  <2>1. t = [s EXCEPT !.stack = u, !.path = v, !.mark = mk, !.queue = w]
    BY ONLY <1>6, <1>10, <1>12, <1>14, Finishes(s, t, top) DEF Finishes
  <2> QED BY ONLY <1>1, <1>7, <1>11, <1>13, <1>15, <2>1 DEF Searches
<1>17. top \in Open(s.g, m) /\ top \in Parsed(s.g)
  BY ONLY <1>1, <1>4, <1>9, <1>11 DEF Holds, Open
<1>18. Holds(t, m)
  <2>1. \A p \in 1 .. (L - 1) : u[p] # Marker => u[p] \in Open(s.g, m)
    BY ONLY <1>1, <1>3, <1>7 DEF Holds
  <2>2. \A i \in 1 .. (K - 1) : v[i] \in Open(s.g, m)
    BY ONLY <1>1, <1>4, <1>9, <1>11 DEF Holds
  <2>3. \A j \in 1 .. (Q + 1) : w[j] \in Open(s.g, m)
    BY ONLY <1>1, <1>5, <1>13, <1>17 DEF Holds
  <2> QED BY ONLY <1>1, <1>7, <1>11, <1>13, <1>16, <2>1, <2>2, <2>3 DEF Holds
<1>19. /\ \A i, j \in 1 .. K : s.path[i] = s.path[j] => i = j
       /\ \A x \in Name : s.mark[x] = "temporary" <=> \E i \in 1 .. K : s.path[i] = x
       /\ \A x \in Name : s.mark[x] = "permanent" <=> \E i \in 1 .. Q : s.queue[i] = x
       /\ \A i, j \in 1 .. Q : s.queue[i] = s.queue[j] => i = j
  BY ONLY <1>1, <1>4, <1>5 DEF MarksMatch, MarkedAs, Distinct
<1>20. s.mark[top] = "temporary"
  BY ONLY <1>9, <1>11, <1>19
<1>21. MarksMatch(t)
  <2>1. \A j \in 1 .. Q : s.queue[j] # top
    BY ONLY <1>11, <1>19, <1>20
  <2>2. Distinct(w)
    BY ONLY <1>13, <1>19, <2>1 DEF Distinct
  <2>3. Distinct(v)
    BY ONLY <1>9, <1>11, <1>19 DEF Distinct
  <2>4. \A x \in Name : mk[x] = "permanent" <=> \E j \in 1 .. (Q + 1) : w[j] = x
    <3> SUFFICES ASSUME NEW x \in Name
                 PROVE  mk[x] = "permanent" <=> \E j \in 1 .. (Q + 1) : w[j] = x
      OBVIOUS
    <3>1. CASE x = top
      BY ONLY <1>13, <1>15, <3>1
    <3>2. CASE x # top
      BY ONLY <1>13, <1>15, <1>19, <3>2, x \in Name
    <3> QED BY ONLY <3>1, <3>2
  <2>5. \A x \in Name : mk[x] = "temporary" <=> \E i \in 1 .. (K - 1) : v[i] = x
    <3> SUFFICES ASSUME NEW x \in Name
                 PROVE  mk[x] = "temporary" <=> \E i \in 1 .. (K - 1) : v[i] = x
      OBVIOUS
    <3>1. CASE x = top
      <4>1. \A i \in 1 .. (K - 1) : v[i] # top
        BY ONLY <1>9, <1>11, <1>19
      <4> QED BY ONLY <1>15, <3>1, <4>1
    <3>2. CASE x # top
      BY ONLY <1>9, <1>11, <1>15, <1>19, <3>2, x \in Name
    <3> QED BY ONLY <3>1, <3>2
  <2> QED BY ONLY <1>11, <1>13, <1>16, <2>2, <2>3, <2>4, <2>5 DEF MarksMatch, MarkedAs
<1>22. a2 \in [1 .. (K - 1) -> 1 .. (L - 1)] /\ \A i \in 1 .. (K - 1) : a2[i] = at[i]
  <2>1. \A i \in 1 .. (K - 1) : at[i] \in 1 .. (L - 1)
    BY ONLY <1>7, <1>8, <1>9
  <2> QED BY ONLY <1>4, <2>1, Lowered(s, at, a2) DEF Lowered
<1>23. Levels(t, a2)
  <2>1. \A i, j \in 1 .. (K - 1) : i < j => a2[i] < a2[j]
    BY ONLY <1>8, <1>9, <1>22
  <2>2. ASSUME NEW p \in 1 .. (L - 1)
        PROVE  u[p] = Marker <=> \E i \in 1 .. (K - 1) : a2[i] = p
    <3>1. u[p] = s.stack[p] /\ p # L /\ p \in 1 .. L
      BY ONLY <1>7, p \in 1 .. (L - 1)
    <3>2. (\E i \in 1 .. K : at[i] = p) <=> \E i \in 1 .. (K - 1) : a2[i] = p
      <4>1. ASSUME NEW i \in 1 .. K, at[i] = p
            PROVE  i \in 1 .. (K - 1) /\ a2[i] = p
        BY ONLY <1>9, <1>22, <3>1, <4>1
      <4>2. ASSUME NEW i \in 1 .. (K - 1), a2[i] = p
            PROVE  i \in 1 .. K /\ at[i] = p
        BY ONLY <1>9, <1>22, <4>2
      <4> QED BY ONLY <4>1, <4>2
    <3> QED BY ONLY <1>8, <3>1, <3>2
  <2> QED BY ONLY <1>7, <1>11, <1>16, <1>22, <2>1, <2>2 DEF Levels
<1>24. Leads(t, a2)
  <2>1. ASSUME NEW i \in 1 .. (K - 1), NEW j \in 1 .. (K - 1), i <= j
        PROVE  v[j] \in Reached(v[i], Fixed(s.g))
    <3>1. i \in 1 .. K /\ j \in 1 .. K /\ v[i] = s.path[i] /\ v[j] = s.path[j]
      BY ONLY <1>9, <1>11, <2>1
    <3> QED BY ONLY <1>1, <1>4, <2>1, <3>1 DEF Leads
  <2>2. ASSUME NEW i \in 1 .. (K - 1), NEW p \in 1 .. (L - 1), a2[i] < p, u[p] # Marker
        PROVE  u[p] \in Reached(v[i], Fixed(s.g))
    <3>1. i \in 1 .. K /\ v[i] = s.path[i] /\ p \in 1 .. L /\ u[p] = s.stack[p] /\ at[i] < p
      BY ONLY <1>7, <1>9, <1>11, <1>22, <2>2
    <3> QED BY ONLY <1>1, <1>3, <1>4, <2>2, <3>1 DEF Leads
  <2> QED BY ONLY <1>7, <1>11, <1>16, <2>1, <2>2 DEF Leads
<1>25. \A x \in Name : Settled(s, m, x) => Settled(t, m, x)
  BY ONLY <1>15, <1>16 DEF Settled
<1>26. ASSUME NEW i \in 1 .. (K - 1), NEW x \in s.g.requires[s.path[i]]
       PROVE  Settled(t, m, x) \/ Above(t, a2, i, x)
  <2>1. i \in 1 .. K
    BY ONLY <1>9, <1>26
  <2>2. x \in Name
    BY ONLY <1>2, <1>4, <2>1, <1>26
  <2>3. Settled(s, m, x) \/ Above(s, at, i, x)
    BY ONLY <1>1, <1>4, <2>1, <2>2, <1>26 DEF Pends
  <2>4. CASE Above(s, at, i, x)
    <3>1. CASE \E j \in 1 .. K : i < j /\ s.path[j] = x
      <4>1. PICK j \in 1 .. K : i < j /\ s.path[j] = x
        BY ONLY <3>1
      <4>2. CASE j = K
        BY ONLY <1>11, <1>15, <1>16, <4>1, <4>2 DEF Settled
      <4>3. CASE j \in 1 .. (K - 1)
        <5>1. v[j] = x
          BY ONLY <1>11, <4>1, <4>3
        <5> QED BY ONLY <1>11, <1>16, <4>1, <4>3, <5>1 DEF Above
      <4> QED BY ONLY <1>9, <4>1, <4>2, <4>3
    <3>2. CASE \E p \in 1 .. L : at[i] < p /\ s.stack[p] = x
      <4>1. PICK p \in 1 .. L : at[i] < p /\ s.stack[p] = x
        BY ONLY <3>2
      <4>2. p \in 1 .. (L - 1)
        <5>1. x # Marker
          BY ONLY <2>2, SourceAssumption DEF SourceAssumption
        <5> QED BY ONLY <1>7, <4>1, <5>1
      <4>3. u[p] = x /\ a2[i] < p
        BY ONLY <1>7, <1>22, <4>1, <4>2, <1>26
      <4> QED BY ONLY <1>7, <1>16, <4>2, <4>3 DEF Above
    <3> QED BY ONLY <1>3, <1>4, <2>4, <3>1, <3>2 DEF Above
  <2> QED BY ONLY <1>25, <2>2, <2>3, <2>4
<1>27. Pends(t, m, a2, Name)
  <2>1. \A i \in 1 .. (K - 1) : v[i] = s.path[i]
    BY ONLY <1>11
  <2> QED BY ONLY <1>11, <1>16, <1>26, <2>1 DEF Pends
<1>28. ASSUME NEW d \in s.g.requires[top]
       PROVE  Settled(s, m, d)
  <2>1. d \in Name
    BY ONLY <1>2, <1>11, <1>28
  <2>2. Settled(s, m, d) \/ Above(s, at, K, d)
    BY ONLY <1>1, <1>4, <1>9, <1>11, <2>1, <1>28 DEF Pends
  <2>3. ~ Above(s, at, K, d)
    BY ONLY <1>3, <1>4, <1>7, <1>9 DEF Above
  <2> QED BY ONLY <2>2, <2>3
<1>29. Ordered(t, m)
  <2>1. ASSUME NEW j \in 1 .. Q, NEW d \in s.g.requires[s.queue[j]]
        PROVE  Before(t, m, j, d)
    <3>1. Before(s, m, j, d)
      BY ONLY <1>1, <1>5, <2>1 DEF Ordered
    <3>2. w[j] = s.queue[j] /\ \A i \in 1 .. Q : w[i] = s.queue[i] /\ i \in 1 .. (Q + 1)
      BY ONLY <1>13, <2>1
    <3> QED BY ONLY <1>5, <1>13, <1>16, <3>1, <3>2 DEF Before
  <2>2. ASSUME NEW d \in s.g.requires[top]
        PROVE  Before(t, m, Q + 1, d)
    <3>1. Settled(s, m, d) /\ d \in Name
      BY ONLY <1>2, <1>11, <1>28, <2>2
    <3>2. CASE d \in Clean(s.g, m) \/ Gone(s.g, d)
      BY ONLY <1>16, <3>2 DEF Before
    <3>3. CASE s.mark[d] = "permanent"
      <4>1. PICK i \in 1 .. Q : s.queue[i] = d
        BY ONLY <1>19, <3>1, <3>3
      <4>2. i \in 1 .. (Q + 1) /\ i < Q + 1 /\ w[i] = d
        BY ONLY <1>13, <4>1
      <4> QED BY ONLY <1>13, <1>16, <4>2 DEF Before
    <3>4. CASE s.mark[d] = "temporary" /\ s.cyclic
      <4>1. PICK i \in 1 .. K : s.path[i] = d
        BY ONLY <1>19, <3>1, <3>4
      <4>2. top \in Reached(d, Fixed(s.g))
        BY ONLY <1>1, <1>4, <1>9, <1>11, <4>1 DEF Leads
      <4> QED BY ONLY <1>13, <1>16, <3>4, <4>2 DEF Before
    <3> QED BY ONLY <3>1, <3>2, <3>3, <3>4 DEF Settled
  <2>3. ASSUME NEW j \in 1 .. (Q + 1), NEW d \in s.g.requires[w[j]]
        PROVE  Before(t, m, j, d)
    <3>1. CASE j \in 1 .. Q
      BY ONLY <1>13, <2>1, <2>3, <3>1
    <3>2. CASE j = Q + 1
      BY ONLY <1>13, <2>2, <2>3, <3>2
    <3> QED BY ONLY <1>13, <2>3, <3>1, <3>2
  <2> QED BY ONLY <1>13, <1>16, <2>3 DEF Ordered
<1>30. Told(t)
  <2>1. ASSUME NEW d \in s.g.requires[top]
        PROVE  Gone(s.g, d) \/ (d \in Parsed(s.g) /\ top \in s.g.dependents[d])
    <3>1. Settled(s, m, d) /\ d \in Name
      BY ONLY <1>2, <1>11, <1>28, <2>1
    <3>2. Gone(s.g, d) \/ d \in Parsed(s.g)
      <4>1. s.mark[d] = "permanent" => d \in Open(s.g, m)
        BY ONLY <1>1, <1>5, <1>19, <3>1 DEF Holds
      <4>2. s.mark[d] = "temporary" => d \in Open(s.g, m)
        BY ONLY <1>1, <1>4, <1>19, <3>1 DEF Holds
      <4> QED BY ONLY <3>1, <4>1, <4>2, \A x \in Clean(s.g, m) : x \in Parsed(s.g) DEF Settled, Open
    <3>3. d \in Parsed(s.g) => d \in s.g.node
      BY DEF Parsed
    <3> QED BY ONLY <2>1, <3>2, <3>3, \A x \in s.g.requires[top] \cap s.g.node : top \in s.g.dependents[x]
  <2>2. ASSUME NEW j \in 1 .. (Q + 1), NEW d \in s.g.requires[w[j]]
        PROVE  Gone(s.g, d) \/ (d \in Parsed(s.g) /\ w[j] \in s.g.dependents[d])
    <3>1. CASE j \in 1 .. Q
      BY ONLY <1>1, <1>5, <1>13, <2>2, <3>1 DEF Told
    <3>2. CASE j = Q + 1
      BY ONLY <1>13, <2>1, <2>2, <3>2
    <3> QED BY ONLY <1>13, <2>2, <3>1, <3>2
  <2> QED BY ONLY <1>13, <1>16, <2>2 DEF Told
<1> QED BY ONLY <1>16, <1>18, <1>21, <1>23, <1>24, <1>27, <1>29, <1>30 DEF Searching

\* The search, and what it has parsed so far
Working(s, m, P, D) ==
    /\ \E at : Searching(s, m, at, D)
    /\ Sound(s.g, P) /\ \A x \in Mode : Derived(f, s.g, x)

LEMMA WorkingIs ==
  ASSUME NEW s, NEW m, NEW P, NEW D, Working(s, m, P, D)
  PROVE  /\ s \in Searches /\ Sound(s.g, P) /\ s.g \in Frontends
         /\ s.stack \in Seq(Name \cup {Marker}) /\ s.path \in Seq(Name)
         /\ s.g.requires \in [Name -> SUBSET Name]
<1>1. s \in Searches /\ Sound(s.g, P)
  BY DEF Working, Searching
<1> QED BY ONLY <1>1, SearchTypes

LEMMA CleanParsed ==
  ASSUME NEW g, NEW P, NEW m, Sound(g, P), m \in Mode
  PROVE  \A d \in Clean(g, m) : d \in Parsed(g)
BY DEF Sound, Known, Clean, Parsed

LEMMA SkipWorks ==
  ASSUME NEW s, NEW m, NEW P, NEW D, NEW d, Working(s, m, P, D),
         \/ d \in Clean(s.g, m) \/ Gone(s.g, d)
         \/ d \notin s.g.requires[s.path[Len(s.path)]]
  PROVE  Working(s, m, P, D \cup {d})
<1>1. PICK at : Searching(s, m, at, D)
  BY DEF Working
<1>2. Searching(s, m, at, D \cup {d})
  BY ONLY <1>1, \/ d \in Clean(s.g, m) \/ Gone(s.g, d)
                \/ d \notin s.g.requires[s.path[Len(s.path)]], SearchSkips
<1>3. \E a : Searching(s, m, a, D \cup {d})
  BY ONLY <1>2
<1> QED BY ONLY <1>3, Working(s, m, P, D) DEF Working

\* The frontend of the search grows.
LEMMA GrowWorks ==
  ASSUME NEW s, NEW t, NEW m, NEW P, NEW D, NEW h, Working(s, m, P, D), m \in Mode, t = [s EXCEPT !.g = h],
         Sound(h, P), Grows(s.g, h), \A x \in Mode : Derived(f, h, x)
  PROVE  Working(t, m, P, D) /\ t.g = h /\ SameLocals(s, t)
<1>1. PICK at : Searching(s, m, at, D)
  BY DEF Working
<1>2. s \in Searches /\ h \in Frontends
  BY ONLY <1>1, Sound(h, P) DEF Searching, Sound
<1>3. t \in Searches /\ t.g = h /\ SameLocals(s, t)
  BY ONLY <1>2, t = [s EXCEPT !.g = h] DEF Searches, SameLocals
<1>4. Grows(s.g, t.g)
  BY ONLY <1>3, Grows(s.g, h)
<1>5. Searching(t, m, at, D)
  BY ONLY <1>1, <1>3, <1>4, m \in Mode, SearchGrows
<1>6. \E a : Searching(t, m, a, D)
  BY ONLY <1>5
<1> QED BY ONLY <1>3, <1>6, Sound(h, P), \A x \in Mode : Derived(f, h, x) DEF Working

LEMMA PushChildWorks ==
  ASSUME NEW s, NEW t, NEW m, NEW P, NEW D, NEW d, Working(s, m, P, D), m \in Mode, disk \in Disks,
         s.path # << >>, d \in Name, d \in s.g.requires[s.path[Len(s.path)]], t = PushChild(m, s, d)
  PROVE  Working(t, m, P, D \cup {d}) /\ t.path = s.path
<1>1. PICK h : h = IF d \in s.seen THEN s.g ELSE GetSourceNode(s.g, d)
  OBVIOUS
<1>2. t = IF d \in s.g.node /\ d \notin s.g.dirty[m] THEN s
          ELSE IF d \notin h.node THEN [s EXCEPT !.g = h]
          ELSE [s EXCEPT !.g = h, !.seen = s.seen \cup {d}, !.stack = Append(s.stack, d)]
  BY ONLY <1>1, t = PushChild(m, s, d) DEF PushChild
<1>3. /\ s \in Searches /\ Sound(s.g, P) /\ s.g \in Frontends /\ \A x \in Mode : Derived(f, s.g, x)
      /\ s.seen \subseteq Open(s.g, m)
  <2>1. \A at : Searching(s, m, at, D) => s.seen \subseteq Open(s.g, m)
    BY DEF Searching, Holds
  <2> QED BY ONLY <2>1, Working(s, m, P, D), WorkingIs DEF Working
<1>4. CASE d \in s.g.node /\ d \notin s.g.dirty[m]
  <2>1. t = s /\ d \in Clean(s.g, m)
    BY ONLY <1>2, <1>4 DEF Clean
  <2> QED BY ONLY <2>1, Working(s, m, P, D), SkipWorks
<1>5. CASE ~ (d \in s.g.node /\ d \notin s.g.dirty[m])
  <2>1. /\ Sound(h, P) /\ Grows(s.g, h) /\ (d \in Parsed(h) \/ Gone(h, d))
        /\ \A x \in Mode : Derived(f, h, x)
    <3>1. CASE d \in s.seen
      <4>1. h = s.g /\ d \in Parsed(s.g)
        BY ONLY <1>1, <1>3, <3>1 DEF Open
      <4>2. Grows(s.g, s.g)
        BY DEF Grows
      <4> QED BY ONLY <1>3, <4>1, <4>2
    <3>2. CASE d \notin s.seen
      <4>1. h = GetSourceNode(s.g, d)
        BY ONLY <1>1, <3>2
      <4>2. /\ Sound(h, P) /\ Grows(s.g, h) /\ (d \in Parsed(h) \/ Gone(h, d))
            /\ \A x \in Mode : \A g0 : Derived(g0, s.g, x) => Derived(g0, h, x)
        BY ONLY <1>3, <4>1, d \in Name, disk \in Disks, GetSound
      <4> QED BY ONLY <1>3, <4>2
    <3> QED BY ONLY <3>1, <3>2
  <2>2. PICK u : u = [s EXCEPT !.g = h]
    OBVIOUS
  <2>3. Working(u, m, P, D) /\ u.g = h /\ SameLocals(s, u)
    BY ONLY <2>1, <2>2, Working(s, m, P, D), m \in Mode, GrowWorks
  <2>4. u.path = s.path /\ u.seen = s.seen /\ u.stack = s.stack
    BY ONLY <2>3 DEF SameLocals
  <2>5. CASE d \notin h.node
    <3>1. t = u
      BY ONLY <1>2, <1>5, <2>2, <2>5
    <3>2. Gone(u.g, d)
      BY ONLY <2>1, <2>3, <2>5 DEF Parsed
    <3>3. Working(u, m, P, D \cup {d})
      BY ONLY <2>3, <3>2, SkipWorks
    <3> QED BY ONLY <2>4, <3>1, <3>3
  <2>6. CASE d \in h.node
    <3>1. t = [u EXCEPT !.seen = u.seen \cup {d}, !.stack = Append(u.stack, d)]
      <4>1. t = [s EXCEPT !.g = h, !.seen = s.seen \cup {d}, !.stack = Append(s.stack, d)]
        BY ONLY <1>2, <1>5, <2>6
      <4>2. PICK seen, stack : seen = s.seen \cup {d} /\ stack = Append(s.stack, d)
        OBVIOUS
      <4>3. [s EXCEPT !.g = h, !.seen = seen, !.stack = stack] = [u EXCEPT !.seen = seen, !.stack = stack]
        BY ONLY <1>3, <2>2 DEF Searches
      <4> QED BY ONLY <2>4, <4>1, <4>2, <4>3
    <3>2. d \in Open(u.g, m)
      <4>1. d \notin Clean(s.g, m)
        BY ONLY <1>5 DEF Clean
      <4>2. d \notin Clean(h, m) /\ d \in Parsed(h)
        BY ONLY <2>1, <2>6, <4>1, m \in Mode DEF Grows, Gone
      <4> QED BY ONLY <2>3, <4>2 DEF Open
    <3>3. PICK at : Searching(u, m, at, D)
      BY ONLY <2>3 DEF Working
    <3>4. d \in u.g.requires[u.path[Len(u.path)]]
      <4>1. s.path[Len(s.path)] \in Parsed(s.g)
        <5>1. \A a : Searching(s, m, a, D) => s.path[Len(s.path)] \in Parsed(s.g)
          <6> SUFFICES ASSUME NEW a, Searching(s, m, a, D)
                       PROVE  s.path[Len(s.path)] \in Parsed(s.g)
            OBVIOUS
          <6>1. Len(s.path) \in 1 .. Len(s.path)
            BY ONLY <1>3, s.path # << >>, SearchTypes
          <6>2. Holds(s, m)
            BY DEF Searching
          <6> QED BY ONLY <6>1, <6>2 DEF Holds, Open
        <5> QED BY ONLY <5>1, Working(s, m, P, D) DEF Working
      <4> QED BY ONLY <2>1, <2>3, <2>4, <4>1, d \in s.g.requires[s.path[Len(s.path)]] DEF Grows
    <3>5. u.path # << >>
      BY ONLY <2>4, s.path # << >>
    <3>6. Searching(t, m, at, D \cup {d})
      BY ONLY <3>1, <3>2, <3>3, <3>4, <3>5, SearchPushes
    <3>7. t.g = u.g /\ t.path = u.path
      <4>1. u \in Searches
        BY ONLY <2>3, WorkingIs
      <4> QED BY ONLY <3>1, <4>1 DEF Searches
    <3>8. \E a : Searching(t, m, a, D \cup {d})
      BY ONLY <3>6
    <3> QED BY ONLY <2>1, <2>3, <2>4, <3>7, <3>8 DEF Working
  <2> QED BY ONLY <2>5, <2>6
<1> QED BY ONLY <1>4, <1>5

\* A node that is visited pushes its children, in the order of order.
LEMMA VisitWorks ==
  ASSUME NEW s, NEW t, NEW m, NEW P, NEW top, NEW order \in Order, Working(s, m, P, Name), m \in Mode, disk \in Disks,
         s.stack # << >>, top = Last(s.stack), top # Marker, s.mark[top] = "none",
         t = Visited(m, s, top, order)
  PROVE  Working(t, m, P, Name)
<1>1. PICK s0 : s0 = [s EXCEPT !.seen = s.seen \cup {top}, !.mark[top] = "temporary",
                               !.path = Append(s.path, top), !.stack = Append(Front(s.stack), Marker)]
  OBVIOUS
<1>2. Working(s0, m, P, {}) /\ s0.path # << >> /\ s0.path[Len(s0.path)] = top
  <2>1. PICK at : Searching(s, m, at, Name)
    BY DEF Working
  <2>2. PICK a2 : Raised(s, at, a2)
    BY DEF Raised
  <2>0. Visits(s, s0, top)
    BY ONLY <1>1 DEF Visits
  <2>3. Searching(s0, m, a2, {}) /\ s0.g = s.g /\ s0.path # << >> /\ s0.path[Len(s0.path)] = top
    BY ONLY <2>0, <2>1, <2>2, s.stack # << >>, top = Last(s.stack), top # Marker, s.mark[top] = "none", SearchVisits
  <2>4. \E a : Searching(s0, m, a, {})
    BY ONLY <2>3
  <2> QED BY ONLY <2>3, <2>4, Working(s, m, P, Name) DEF Working
<1>3. PICK N : N = Len(order)
  OBVIOUS
<1>4. /\ N \in Nat /\ \A i \in 1 .. N : order[i] \in Name
      /\ \A x \in Name : \E i \in 1 .. N : order[i] = x
  <2>1. order \in Seq(Name) /\ ToSet(order) = Name
    BY ONLY order \in Order, SourceAssumption DEF SourceAssumption
  <2>2. N \in Nat /\ \A i \in 1 .. N : order[i] \in Name
    BY ONLY <1>3, <2>1, LenProperties, ElementOfSeq
  <2>3. ToSet(order) = {order[i] : i \in 1 .. N}
    BY ONLY <1>3, <2>1, LenProperties DEF ToSet
  <2> QED BY ONLY <2>1, <2>2, <2>3
<1> DEFINE Done(i) == {order[k] : k \in 1 .. i}
           Go(i, x) == IF order[i] \in x.g.requires[top] THEN PushChild(m, x, order[i]) ELSE x
           T == {x \in Searches : x.path = s0.path /\ \E D \in SUBSET Name : Working(x, m, P, D)}
           F == [i \in 1 .. N |-> [x \in T |-> Go(i, x)]]
<1>5. ASSUME NEW i \in 1 .. N, NEW x, NEW D, Working(x, m, P, D), x.path = s0.path
      PROVE  Working(Go(i, x), m, P, D \cup {order[i]}) /\ Go(i, x).path = s0.path
  <2>1. order[i] \in Name
    BY ONLY <1>4, <1>5
  <2>2. CASE order[i] \in x.g.requires[top]
    <3>1. Go(i, x) = PushChild(m, x, order[i])
      BY ONLY <2>2
    <3>2. x.path # << >> /\ x.path[Len(x.path)] = top
      BY ONLY <1>2, <1>5
    <3>3. order[i] \in x.g.requires[x.path[Len(x.path)]]
      BY ONLY <2>2, <3>2
    <3> HIDE DEF Go
    <3> QED BY ONLY <1>5, <2>1, <3>1, <3>2, <3>3, m \in Mode, disk \in Disks, PushChildWorks
  <2>3. CASE order[i] \notin x.g.requires[top]
    <3>1. Go(i, x) = x
      BY ONLY <2>3
    <3>2. order[i] \notin x.g.requires[x.path[Len(x.path)]]
      BY ONLY <1>2, <1>5, <2>3
    <3>3. Working(x, m, P, D \cup {order[i]})
      BY ONLY <1>5, <3>2, SkipWorks
    <3> QED BY ONLY <1>5, <3>1, <3>3
  <2> QED BY ONLY <2>2, <2>3
<1>6. s0 \in T
  <2>1. s0 \in Searches
    BY ONLY <1>2, WorkingIs
  <2>2. {} \in SUBSET Name
    OBVIOUS
  <2> QED BY ONLY <1>2, <2>1, <2>2
<1>7. F \in [1 .. N -> [T -> T]]
  <2>1. ASSUME NEW i \in 1 .. N, NEW x \in T
        PROVE  Go(i, x) \in T
    <3>1. PICK D \in SUBSET Name : Working(x, m, P, D) /\ x.path = s0.path
      BY ONLY <2>1
    <3>2. Working(Go(i, x), m, P, D \cup {order[i]}) /\ Go(i, x).path = s0.path
      BY ONLY <1>5, <2>1, <3>1
    <3>3. D \cup {order[i]} \in SUBSET Name
      BY ONLY <1>4, <2>1, <3>1
    <3>4. Go(i, x) \in Searches
      BY ONLY <3>2, WorkingIs
    <3> HIDE DEF Go
    <3> QED BY ONLY <3>2, <3>3, <3>4
  <2> HIDE DEF T, Go
  <2> QED BY ONLY <2>1
<1> HIDE DEF T
<1>8. \E upTo : upTo = [i \in 0 .. N |-> IF i = 0 THEN s0 ELSE Go(i, upTo[i - 1])]
  <2>1. PICK upTo : Up(upTo, N, T, s0, F)
    <3> HIDE DEF F
    <3> QED BY ONLY <1>4, <1>6, <1>7, RecursionUp
  <2>2. upTo \in [0 .. N -> T] /\ upTo[0] = s0 /\ \A i \in 1 .. N : upTo[i] = F[i][upTo[i - 1]]
    BY ONLY <2>1 DEF Up
  <2> HIDE DEF Go
  <2>3. \A i \in 1 .. N : upTo[i] = Go(i, upTo[i - 1])
    <3> SUFFICES ASSUME NEW i \in 1 .. N
                 PROVE  upTo[i] = Go(i, upTo[i - 1])
      OBVIOUS
    <3>1. upTo[i - 1] \in T
      BY ONLY <1>4, <2>2, i \in 1 .. N
    <3>2. F[i][upTo[i - 1]] = Go(i, upTo[i - 1])
      BY ONLY <3>1, i \in 1 .. N
    <3> QED BY ONLY <2>2, <3>2, i \in 1 .. N
  <2>4. upTo = [i \in 0 .. N |-> IF i = 0 THEN s0 ELSE Go(i, upTo[i - 1])]
    BY ONLY <1>4, <2>2, <2>3
  <2> QED BY ONLY <2>4
<1>9. PICK upTo : /\ t = upTo[N] /\ upTo = [i \in 0 .. N |-> IF i = 0 THEN s0 ELSE Go(i, upTo[i - 1])]
  <2>1. PICK r : r = CHOOSE upTo : upTo = [i \in 0 .. N |-> IF i = 0 THEN s0 ELSE Go(i, upTo[i - 1])]
    OBVIOUS
  <2>2. t = r[N]
    BY ONLY <1>1, <1>3, <2>1, t = Visited(m, s, top, order) DEF Visited
  <2> HIDE DEF Go
  <2>3. r = [i \in 0 .. N |-> IF i = 0 THEN s0 ELSE Go(i, r[i - 1])]
    BY ONLY <1>8, <2>1
  <2> QED BY ONLY <2>2, <2>3
<1> HIDE DEF Go, F
<1> DEFINE S == {i \in 0 .. N : Working(upTo[i], m, P, Done(i)) /\ upTo[i].path = s0.path}
<1>10. 0 \in S
  <2>1. upTo[0] = s0 /\ 0 \in 0 .. N
    BY ONLY <1>4, <1>9
  <2>2. Done(0) = {}
    OBVIOUS
  <2> HIDE DEF Done
  <2> QED BY ONLY <1>2, <2>1, <2>2
<1>11. ASSUME NEW i \in 1 .. N, i - 1 \in S
       PROVE  i \in S
  <2>1. upTo[i] = Go(i, upTo[i - 1]) /\ i \in 0 .. N
    BY ONLY <1>4, <1>9, i \in 1 .. N
  <2>2. Done(i) = Done(i - 1) \cup {order[i]}
    <3>1. 1 .. i = 1 .. (i - 1) \cup {i}
      BY ONLY <1>4, i \in 1 .. N
    <3> QED BY ONLY <3>1
  <2> HIDE DEF Done
  <2>3. Working(upTo[i - 1], m, P, Done(i - 1)) /\ upTo[i - 1].path = s0.path
    BY ONLY <1>11
  <2>4. Working(Go(i, upTo[i - 1]), m, P, Done(i - 1) \cup {order[i]}) /\ Go(i, upTo[i - 1]).path = s0.path
    BY ONLY <1>5, <2>3, i \in 1 .. N
  <2> QED BY ONLY <2>1, <2>2, <2>4
<1>12. N \in S
  <2> HIDE DEF S
  <2>1. S \subseteq 0 .. N
    BY DEF S
  <2>2. 0 .. N \subseteq S
    BY ONLY <1>4, <1>10, <1>11, UpTo
  <2> QED BY ONLY <1>4, <2>2
<1>13. Done(N) = Name
  BY ONLY <1>4
<1> HIDE DEF Done
<1> QED BY ONLY <1>9, <1>12, <1>13

LEMMA FinishWorks ==
  ASSUME NEW s, NEW t, NEW m, NEW P, Working(s, m, P, Name), m \in Mode, s.stack # << >>, Last(s.stack) = Marker,
         t = Finished(m, s)
  PROVE  Working(t, m, P, Name)
<1>1. PICK at : Searching(s, m, at, Name)
  BY DEF Working
<1>2. s \in Searches /\ Sound(s.g, P) /\ s.stack \in Seq(Name \cup {Marker}) /\ s.path \in Seq(Name)
  BY ONLY Working(s, m, P, Name), WorkingIs
<1>3. PICK top : top = Last(s.path)
  OBVIOUS
<1>4. top \in Parsed(s.g) /\ top \in s.g.node
  <2>1. Holds(s, m) /\ Levels(s, at)
    BY ONLY <1>1 DEF Searching
  <2>2. Len(s.stack) \in 1 .. Len(s.stack) /\ s.stack[Len(s.stack)] = Marker
    <3>1. Len(s.stack) \in Nat \ {0} /\ Last(s.stack) = s.stack[Len(s.stack)]
      BY ONLY <1>2, s.stack # << >>, FrontIs
    <3> QED BY ONLY <3>1, Last(s.stack) = Marker
  <2>3. Len(s.path) \in Nat /\ \E i \in 1 .. Len(s.path) : TRUE
    BY ONLY <1>2, <2>1, <2>2, SearchTypes DEF Levels
  <2>4. Len(s.path) \in 1 .. Len(s.path) /\ s.path # << >>
    BY ONLY <2>3
  <2>5. top = s.path[Len(s.path)]
    BY ONLY <1>2, <1>3, <2>4, FrontIs
  <2> QED BY ONLY <2>1, <2>4, <2>5 DEF Holds, Open, Parsed
<1>5. PICK h : Learns(s.g, h, top)
  BY DEF Learns
<1>6. /\ Sound(h, P) /\ Grows(s.g, h) /\ h.node = s.g.node /\ h.requires = s.g.requires
      /\ \A d \in s.g.requires[top] \cap s.g.node : top \in h.dependents[d]
      /\ \A x \in Mode : \A g0 : Derived(g0, s.g, x) => Derived(g0, h, x)
  BY ONLY <1>2, <1>4, <1>5, DependentSound
<1>7. \A x \in Mode : Derived(f, h, x)
  BY ONLY <1>6, Working(s, m, P, Name) DEF Working
<1>8. PICK u : u = [s EXCEPT !.g = h]
  OBVIOUS
<1>9. Working(u, m, P, Name) /\ u.g = h /\ SameLocals(s, u)
  BY ONLY <1>6, <1>7, <1>8, Working(s, m, P, Name), m \in Mode, GrowWorks
<1>10. /\ u.path = s.path /\ u.stack = s.stack /\ u.mark = s.mark /\ u.queue = s.queue
  BY ONLY <1>9 DEF SameLocals
<1>11. Finishes(u, t, top)
  <2>1. t = [s EXCEPT !.stack = Front(s.stack), !.path = Front(s.path), !.mark = [s.mark EXCEPT ![top] = "permanent"],
                      !.queue = Append(s.queue, top), !.g = h]
    <3>1. t = [s EXCEPT !.stack = Front(s.stack), !.path = Front(s.path),
                        !.mark = [s.mark EXCEPT ![top] = "permanent"], !.queue = Append(s.queue, top),
                        !.g = [s.g EXCEPT !.dependents = [d \in Name |->
                                  IF d \in s.g.requires[top] \cap s.g.node
                                  THEN s.g.dependents[d] \cup {top} ELSE s.g.dependents[d]]]]
      BY ONLY <1>3, t = Finished(m, s) DEF Finished
    <3> QED BY ONLY <1>5, <3>1 DEF Learns
  <2>2. PICK stack, path, mk, queue :
            /\ stack = Front(s.stack) /\ path = Front(s.path) /\ mk = [s.mark EXCEPT ![top] = "permanent"]
            /\ queue = Append(s.queue, top)
    OBVIOUS
  <2>3. t = [s EXCEPT !.stack = stack, !.path = path, !.mark = mk, !.queue = queue, !.g = h]
    BY ONLY <2>1, <2>2
  <2>4. t = [u EXCEPT !.stack = stack, !.path = path, !.mark = mk, !.queue = queue]
    BY ONLY <1>2, <1>8, <2>3 DEF Searches
  <2> QED BY ONLY <1>10, <2>2, <2>4 DEF Finishes
<1>12. PICK at1 : Searching(u, m, at1, Name)
  BY ONLY <1>9 DEF Working
<1>13. PICK a2 : Lowered(u, at1, a2)
  BY DEF Lowered
<1>14. \A d \in Clean(u.g, m) : d \in Parsed(u.g)
  BY ONLY <1>6, <1>9, m \in Mode, CleanParsed
<1>15. \A d \in u.g.requires[top] \cap u.g.node : top \in u.g.dependents[d]
  BY ONLY <1>6, <1>9
<1>16. Searching(t, m, a2, Name) /\ t.g = u.g
  <2>1. u.stack # << >> /\ Last(u.stack) = Marker /\ top = Last(u.path)
    BY ONLY <1>3, <1>10, s.stack # << >>, Last(s.stack) = Marker
  <2> QED BY ONLY <1>11, <1>12, <1>13, <1>14, <1>15, <2>1, SearchFinishes
<1>17. \E a : Searching(t, m, a, Name)
  BY ONLY <1>16
<1> QED BY ONLY <1>9, <1>16, <1>17 DEF Working

LEMMA StepWorks ==
  ASSUME NEW s, NEW t, NEW m, NEW P, NEW order \in Order, Working(s, m, P, Name), m \in Mode, disk \in Disks,
         s.stack # << >>, t = SearchStep(m, s, order)
  PROVE  Working(t, m, P, Name)
<1>1. PICK top : top = Last(s.stack)
  OBVIOUS
<1>2. CASE top = Marker
  <2>1. t = Finished(m, s) /\ Last(s.stack) = Marker
    BY ONLY <1>1, <1>2, t = SearchStep(m, s, order) DEF SearchStep
  <2> QED BY ONLY <2>1, Working(s, m, P, Name), m \in Mode, s.stack # << >>, FinishWorks
<1>3. CASE top # Marker /\ s.mark[top] = "none"
  <2>1. t = Visited(m, s, top, order)
    BY ONLY <1>1, <1>3, t = SearchStep(m, s, order) DEF SearchStep
  <2> QED BY ONLY <1>1, <1>3, <2>1, Working(s, m, P, Name), m \in Mode, disk \in Disks,
                  order \in Order, s.stack # << >>, VisitWorks
<1>4. CASE top # Marker /\ s.mark[top] # "none"
  <2>1. Pops(s, t, top)
    BY ONLY <1>1, <1>4, t = SearchStep(m, s, order) DEF SearchStep, Pops
  <2>2. PICK at : Searching(s, m, at, Name)
    BY DEF Working
  <2>3. Searching(t, m, at, Name) /\ t.g = s.g
    BY ONLY <1>1, <1>4, <2>1, <2>2, s.stack # << >>, SearchPops
  <2>4. \E a : Searching(t, m, a, Name)
    BY ONLY <2>3
  <2> QED BY ONLY <2>3, <2>4, Working(s, m, P, Name) DEF Working
<1> QED BY ONLY <1>2, <1>3, <1>4

\* The search begins with the root, unless that has no source.
Begins(s, g, root) ==
    s = [g |-> g, stack |-> IF root \in g.node THEN <<root>> ELSE << >>, path |-> << >>,
         mark |-> [n \in Name |-> "none"], seen |-> {}, queue |-> << >>, cyclic |-> FALSE]

LEMMA StartWorks ==
  ASSUME NEW s, NEW m, NEW P, NEW root, Sound(f, P), m \in Mode, disk \in Disks, root \in Name,
         root \notin Clean(f, m), Begins(s, GetSourceNode(f, root), root)
  PROVE  Working(s, m, P, Name)
<1>1. PICK g : g = GetSourceNode(f, root)
  OBVIOUS
<1>2. /\ Sound(g, P) /\ Grows(f, g) /\ (root \in Parsed(g) \/ Gone(g, root))
      /\ \A x \in Mode : \A g0 : Derived(g0, f, x) => Derived(g0, g, x)
  BY ONLY <1>1, Sound(f, P), root \in Name, disk \in Disks, GetSound
<1>3. \A x \in Mode : Derived(f, g, x)
  <2>1. \A x \in Mode : Derived(f, f, x)
    BY DEF Derived
  <2> QED BY ONLY <1>2, <2>1
<1>4. PICK stack : stack = IF root \in g.node THEN <<root>> ELSE << >>
  OBVIOUS
<1>5. root # Marker /\ (root \in g.node => root \in Open(g, m))
  <2>1. root \in g.node => root \in Parsed(g)
    BY ONLY <1>2 DEF Gone
  <2>2. root \notin Clean(g, m)
    BY ONLY <1>2, m \in Mode, root \notin Clean(f, m) DEF Grows
  <2>3. root # Marker
    BY ONLY root \in Name, SourceAssumption DEF SourceAssumption
  <2> QED BY ONLY <2>1, <2>2, <2>3 DEF Open
<1>6. /\ stack \in Seq(Name \cup {Marker})
      /\ \A p \in 1 .. Len(stack) : stack[p] \in Open(g, m) /\ stack[p] # Marker
  <2>1. CASE root \in g.node
    <3>1. stack = <<root>>
      BY ONLY <1>4, <2>1
    <3>2. <<root>> \in Seq(Name \cup {Marker}) /\ Len(<<root>>) = 1 /\ <<root>>[1] = root
      BY ONLY root \in Name
    <3> QED BY ONLY <1>5, <2>1, <3>1, <3>2
  <2>2. CASE root \notin g.node
    <3>1. stack = << >> /\ << >> \in Seq(Name \cup {Marker}) /\ Len(<< >>) = 0
      BY ONLY <1>4, <2>2
    <3> QED BY ONLY <3>1
  <2> QED BY ONLY <2>1, <2>2
<1>7. PICK mk : mk = [n \in Name |-> "none"]
  OBVIOUS
<1>8. s = [g |-> g, stack |-> stack, path |-> << >>, mark |-> mk, seen |-> {}, queue |-> << >>, cyclic |-> FALSE]
  BY ONLY <1>1, <1>4, <1>7, Begins(s, GetSourceNode(f, root), root) DEF Begins
<1>9. /\ s.g = g /\ s.stack = stack /\ s.path = << >> /\ s.mark = mk /\ s.seen = {} /\ s.queue = << >>
      /\ s.cyclic = FALSE
  BY ONLY <1>8
<1>10. Len(s.path) = 0 /\ Len(s.queue) = 0 /\ 1 .. Len(s.path) = {} /\ 1 .. Len(s.queue) = {}
  BY ONLY <1>9
<1>11. s \in Searches
  <2>1. g \in Frontends /\ mk \in [Name -> {"none", "temporary", "permanent"}] /\ << >> \in Seq(Name)
    BY ONLY <1>2, <1>7 DEF Sound
  <2> QED BY ONLY <1>6, <1>8, <2>1 DEF Searches
<1>12. PICK at : at = [i \in {} |-> 0]
  OBVIOUS
<1>13. Holds(s, m)
  BY ONLY <1>6, <1>9, <1>10 DEF Holds
<1>14. MarksMatch(s)
  <2>1. \A x \in Name : s.mark[x] # "temporary" /\ s.mark[x] # "permanent"
    BY ONLY <1>7, <1>9
  <2> QED BY ONLY <1>10, <2>1 DEF MarksMatch, MarkedAs, Distinct
<1>15. Levels(s, at)
  <2>1. at \in [{} -> 1 .. Len(s.stack)]
    BY ONLY <1>12
  <2> QED BY ONLY <1>6, <1>9, <1>10, <2>1 DEF Levels
<1>16. Leads(s, at) /\ Pends(s, m, at, Name)
  BY ONLY <1>10 DEF Leads, Pends
<1>17. Ordered(s, m) /\ Told(s)
  BY ONLY <1>10 DEF Ordered, Told
<1>18. Searching(s, m, at, Name)
  BY ONLY <1>11, <1>13, <1>14, <1>15, <1>16, <1>17 DEF Searching
<1>19. \E a : Searching(s, m, a, Name)
  BY ONLY <1>18
<1> QED BY ONLY <1>2, <1>3, <1>9, <1>19 DEF Working

\* What parseGraph leaves, wherever it is cut off
LEMMA ParseWorks ==
  ASSUME NEW s, NEW m, NEW P, NEW root, NEW order \in Order, Sound(f, P), m \in Mode, disk \in Disks, root \in Name,
         root \notin Clean(f, m), s = ParseGraph(m, root, order)
  PROVE  Working(s, m, P, Name)
<1>1. PICK s0 : Begins(s0, GetSourceNode(f, root), root)
  BY DEF Begins
<1>2. Working(s0, m, P, Name)
  BY ONLY <1>1, Sound(f, P), m \in Mode, disk \in Disks, root \in Name, root \notin Clean(f, m), StartWorks
<1>3. PICK N : N = Cardinality(Name) * (Cardinality(Name) + 2) + 1
  OBVIOUS
<1>4. N \in Nat
  <2>1. Cardinality(Name) \in Nat
    BY SourceAssumption, FS_CardinalityType DEF SourceAssumption
  <2> QED BY ONLY <1>3, <2>1
<1> DEFINE Go(x) == IF x.stack = << >> THEN x ELSE SearchStep(m, x, order)
           T == {x \in Searches : Working(x, m, P, Name)}
           F == [i \in 1 .. N |-> [x \in T |-> Go(x)]]
<1>5. ASSUME NEW x, Working(x, m, P, Name)
      PROVE  Working(Go(x), m, P, Name)
  <2>1. CASE x.stack = << >>
    BY <1>5, <2>1
  <2>2. CASE x.stack # << >>
    <3>1. Go(x) = SearchStep(m, x, order)
      BY <2>2
    <3> HIDE DEF Go
    <3> QED BY ONLY <1>2, <1>5, <2>2, <3>1, m \in Mode, disk \in Disks, order \in Order, StepWorks
  <2> QED BY ONLY <2>1, <2>2
<1> HIDE DEF Go
<1>6. s0 \in T
  BY ONLY <1>2, WorkingIs
<1>7. F \in [1 .. N -> [T -> T]]
  <2>1. ASSUME NEW x \in T
        PROVE  Go(x) \in T
    BY ONLY <1>5, <2>1, WorkingIs
  <2> HIDE DEF T
  <2> QED BY ONLY <2>1
<1>8. \E after : /\ after = [k \in 0 .. N |-> IF k = 0 THEN s0 ELSE Go(after[k - 1])]
                 /\ after \in [0 .. N -> T]
  <2>1. PICK after : Up(after, N, T, s0, F)
    <3> HIDE DEF F, T
    <3> QED BY ONLY <1>4, <1>6, <1>7, RecursionUp
  <2>2. after \in [0 .. N -> T] /\ after[0] = s0 /\ \A i \in 1 .. N : after[i] = F[i][after[i - 1]]
    BY ONLY <2>1 DEF Up
  <2> HIDE DEF T
  <2>3. ASSUME NEW i \in 1 .. N
        PROVE  after[i] = Go(after[i - 1])
    <3>1. after[i - 1] \in T
      BY ONLY <1>4, <2>2, i \in 1 .. N
    <3>2. F[i][after[i - 1]] = Go(after[i - 1])
      BY ONLY <3>1, i \in 1 .. N
    <3> QED BY ONLY <2>2, <3>2, i \in 1 .. N
  <2>4. after = [k \in 0 .. N |-> IF k = 0 THEN s0 ELSE Go(after[k - 1])]
    BY ONLY <1>4, <2>2, <2>3
  <2> QED BY ONLY <2>2, <2>4
<1> HIDE DEF F
<1>9. PICK r : r = CHOOSE after : after = [k \in 0 .. N |-> IF k = 0 THEN s0 ELSE Go(after[k - 1])]
  OBVIOUS
<1>10. s = r[N]
  BY ONLY <1>1, <1>3, <1>9, s = ParseGraph(m, root, order) DEF ParseGraph, Begins, Go
<1>11. r = [k \in 0 .. N |-> IF k = 0 THEN s0 ELSE Go(r[k - 1])]
  BY ONLY <1>8, <1>9
<1> DEFINE S == {i \in 0 .. N : Working(r[i], m, P, Name)}
<1>12. 0 \in S
  BY ONLY <1>2, <1>4, <1>11
<1>13. ASSUME NEW i \in 1 .. N, i - 1 \in S
       PROVE  i \in S
  <2>1. r[i] = Go(r[i - 1]) /\ i \in 0 .. N
    BY ONLY <1>4, <1>11, i \in 1 .. N
  <2>2. Working(Go(r[i - 1]), m, P, Name)
    BY ONLY <1>5, <1>13
  <2> QED BY ONLY <2>1, <2>2
<1>14. N \in S
  <2> HIDE DEF S
  <2>1. 0 .. N \subseteq S
    BY ONLY <1>4, <1>12, <1>13, UpTo
  <2> QED BY ONLY <1>4, <2>1
<1> QED BY ONLY <1>10, <1>14

-----------------------------------------------------------------------------
(* Recording                                                                *)

\* h is g with the module n of resolver m, which was checked against U.
Recording(m, g, h, n, U) ==
    /\ h \in Frontends
    /\ h.node = g.node /\ h.requires = g.requires /\ h.dependents = g.dependents
    /\ h.dirtySource = g.dirtySource /\ h.parsed = g.parsed
    /\ \A x \in Mode : x # m =>
          /\ h.dirty[x] = g.dirty[x] /\ h.invalid[x] = g.invalid[x] /\ h.resolver[x] = g.resolver[x]
          /\ h.made[x] = g.made[x] /\ h.used[x] = g.used[x] /\ h.stale[x] = g.stale[x]
    /\ h.dirty[m] = g.dirty[m] \ {n} /\ h.resolver[m] = g.resolver[m] \cup {n}
    /\ g.made[m] \ {n} \subseteq h.made[m] /\ (n \in g.parsed => n \in h.made[m])
    /\ h.used[m][n] = U /\ h.stale[m][n] = {}
    /\ \A x \in Name : x # n =>
          /\ h.used[m][x] = g.used[m][x]
          /\ h.stale[m][x] = g.stale[m][x] \/ (n \in g.resolver[m] /\ n \in g.used[m][x])
    /\ \E V : /\ h.invalid[m] = (g.invalid[m] \cup V) \ {n}
              /\ n \notin g.resolver[m] => V = {}
              /\ n \in g.resolver[m] /\ n \in g.node => n \in V
              /\ \A d \in V \ g.invalid[m] : g.dependents[d] \subseteq V

LEMMA RecordedIs ==
  ASSUME NEW m, NEW g, NEW h, NEW n, NEW cyclic, g \in Frontends, Linked(g), m \in Mode, n \in Name,
         h = Recorded(m, g, n, cyclic)
  PROVE  Recording(m, g, h, n, (g.requires[n] \ (IF cyclic THEN RequireCycles(g, n) ELSE {})) \cap g.resolver[m])
<1>1. PICK U : U = (g.requires[n] \ (IF cyclic THEN RequireCycles(g, n) ELSE {})) \cap g.resolver[m]
  OBVIOUS
<1>2. /\ g.node \subseteq Name /\ g.requires \in [Name -> SUBSET Name] /\ g.dependents \in [Name -> SUBSET Name]
      /\ g.dirty \in [Mode -> SUBSET Name] /\ g.invalid \in [Mode -> SUBSET Name]
      /\ g.resolver \in [Mode -> SUBSET Name] /\ g.made \in [Mode -> SUBSET Name] /\ g.parsed \subseteq Name
      /\ g.used \in [Mode -> [Name -> SUBSET Name]] /\ g.stale \in [Mode -> [Name -> SUBSET Name]]
      /\ g.dirtySource \subseteq Name
  BY DEF Frontends
<1>3. PICK V : V = IF n \in g.resolver[m] THEN Traversed(g, n, g.invalid[m]) ELSE {}
  OBVIOUS
<1>4. /\ V \subseteq Name /\ (n \notin g.resolver[m] => V = {})
      /\ n \in g.resolver[m] /\ n \in g.node => n \in V
      /\ \A d \in V \ g.invalid[m] : g.dependents[d] \subseteq V
  <2>1. /\ Traversed(g, n, g.invalid[m]) \subseteq g.node
        /\ n \in g.node => n \in Traversed(g, n, g.invalid[m])
        /\ \A d \in Traversed(g, n, g.invalid[m]) \ g.invalid[m] :
              g.dependents[d] \subseteq Traversed(g, n, g.invalid[m])
    BY ONLY g \in Frontends, Linked(g), n \in Name, TraversedIs
  <2> QED BY ONLY <1>2, <1>3, <2>1
<1>5. PICK st : st = [x \in Mode |-> [y \in Name |->
                        IF n \in g.resolver[m] /\ x \in {m} /\ n \in g.used[x][y]
                        THEN g.stale[x][y] \cup {n} ELSE g.stale[x][y]]]
  OBVIOUS
<1>6. /\ st \in [Mode -> [Name -> SUBSET Name]]
      /\ \A x \in Mode : x # m => st[x] = g.stale[x]
      /\ \A y \in Name : st[m][y] = g.stale[m][y] \/ (n \in g.resolver[m] /\ n \in g.used[m][y])
  <2>1. \A x \in Mode : \A y \in Name : g.stale[x][y] \subseteq Name
    BY ONLY <1>2
  <2>2. st \in [Mode -> [Name -> SUBSET Name]]
    BY ONLY <1>5, <2>1, n \in Name
  <2>3. \A x \in Mode : x # m => st[x] = g.stale[x]
    <3> SUFFICES ASSUME NEW x \in Mode, x # m
                 PROVE  st[x] = g.stale[x]
      OBVIOUS
    <3>1. st[x] = [y \in Name |-> g.stale[x][y]]
      BY ONLY <1>5, x \in Mode, x # m
    <3>2. g.stale[x] \in [Name -> SUBSET Name]
      BY ONLY <1>2, x \in Mode
    <3> QED BY ONLY <3>1, <3>2
  <2>4. \A y \in Name : st[m][y] = g.stale[m][y] \/ (n \in g.resolver[m] /\ n \in g.used[m][y])
    BY ONLY <1>5, m \in Mode
  <2> QED BY ONLY <2>2, <2>3, <2>4
<1>7. PICK inv : inv = [g.invalid EXCEPT ![m] = g.invalid[m] \cup V]
  OBVIOUS
<1>8. inv \in [Mode -> SUBSET Name] /\ inv[m] = g.invalid[m] \cup V /\ \A x \in Mode : x # m => inv[x] = g.invalid[x]
  BY ONLY <1>2, <1>4, <1>7, m \in Mode
<1>9. PICK b : b = IF n \in g.resolver[m] THEN Invalidated(Replaced(g, {m}, n), m, n) ELSE g
  OBVIOUS
<1>10. b = [g EXCEPT !.invalid = inv, !.stale = st]
  <2>1. CASE n \in g.resolver[m]
    <3>1. PICK r : r = Replaced(g, {m}, n)
      OBVIOUS
    <3>2. r = [g EXCEPT !.stale = [x \in Mode |-> [y \in Name |->
                  IF x \in {m} /\ n \in g.used[x][y] THEN g.stale[x][y] \cup {n} ELSE g.stale[x][y]]]]
      BY ONLY <3>1 DEF Replaced
    <3>3. st = [x \in Mode |-> [y \in Name |->
                  IF x \in {m} /\ n \in g.used[x][y] THEN g.stale[x][y] \cup {n} ELSE g.stale[x][y]]]
      BY ONLY <1>5, <2>1
    <3>4. r = [g EXCEPT !.stale = st]
      BY ONLY <3>2, <3>3
    <3>5. r.node = g.node /\ r.dependents = g.dependents /\ r.invalid = g.invalid
      BY ONLY <3>4, g \in Frontends DEF Frontends
    <3>6. Traversed(r, n, g.invalid[m]) = V
      BY ONLY <1>3, <2>1, <3>5 DEF Traversed
    <3>7. b = [r EXCEPT !.invalid = [r.invalid EXCEPT ![m] = r.invalid[m] \cup Traversed(r, n, r.invalid[m])]]
      BY ONLY <1>9, <2>1, <3>1 DEF Invalidated
    <3>8. b = [r EXCEPT !.invalid = inv]
      BY ONLY <1>7, <3>5, <3>6, <3>7
    <3> QED BY ONLY <3>4, <3>8, g \in Frontends DEF Frontends
  <2>2. CASE n \notin g.resolver[m]
    <3>1. b = g
      BY ONLY <1>9, <2>2
    <3>2. st = [x \in Mode |-> [y \in Name |-> g.stale[x][y]]]
      BY ONLY <1>5, <2>2
    <3>3. st = g.stale
      BY ONLY <1>2, <3>2
    <3>4. inv = g.invalid
      BY ONLY <1>2, <1>4, <1>7, <2>2, m \in Mode
    <3> QED BY ONLY <3>1, <3>3, <3>4, g \in Frontends DEF Frontends
  <2> QED BY ONLY <2>1, <2>2
<1>11. PICK res, dir, inv2, us, st2, ma :
           /\ res = [g.resolver EXCEPT ![m] = g.resolver[m] \cup {n}]
           /\ dir = [g.dirty EXCEPT ![m] = g.dirty[m] \ {n}]
           /\ inv2 = [inv EXCEPT ![m] = inv[m] \ {n}]
           /\ us = [g.used EXCEPT ![m] = [g.used[m] EXCEPT ![n] = U]]
           /\ st2 = [st EXCEPT ![m] = [st[m] EXCEPT ![n] = {}]]
           /\ ma = [g.made EXCEPT ![m] = Update(g.made[m], {n}, n \in g.parsed)]
  OBVIOUS
<1>12. h = [g EXCEPT !.resolver = res, !.dirty = dir, !.invalid = inv2, !.used = us, !.stale = st2, !.made = ma]
  <2>1. /\ b.resolver = g.resolver /\ b.dirty = g.dirty /\ b.invalid = inv /\ b.used = g.used /\ b.stale = st
        /\ b.made = g.made
    BY ONLY <1>10, g \in Frontends DEF Frontends
  <2>2. PICK c : c = [b EXCEPT !.resolver = [b.resolver EXCEPT ![m] = b.resolver[m] \cup {n}],
                               !.dirty = [b.dirty EXCEPT ![m] = b.dirty[m] \ {n}]]
    OBVIOUS
  <2>3. c = [b EXCEPT !.resolver = res, !.dirty = dir]
    BY ONLY <1>11, <2>1, <2>2
  <2>4. c = [g EXCEPT !.invalid = inv, !.stale = st, !.resolver = res, !.dirty = dir]
    BY ONLY <1>10, <2>3
  <2>5. c.invalid = inv /\ c.used = g.used /\ c.stale = st /\ c.made = g.made
    BY ONLY <2>4, g \in Frontends DEF Frontends
  <2>6. h = [c EXCEPT !.invalid = [c.invalid EXCEPT ![m] = c.invalid[m] \ {n}],
                      !.used = [c.used EXCEPT ![m] = [c.used[m] EXCEPT ![n] = U]],
                      !.stale = [c.stale EXCEPT ![m] = [c.stale[m] EXCEPT ![n] = {}]],
                      !.made = [c.made EXCEPT ![m] = Update(c.made[m], {n}, n \in g.parsed)]]
    BY ONLY <1>1, <1>9, <2>2, h = Recorded(m, g, n, cyclic) DEF Recorded
  <2>7. h = [c EXCEPT !.invalid = inv2, !.used = us, !.stale = st2, !.made = ma]
    BY ONLY <1>11, <2>5, <2>6
  <2> QED BY ONLY <2>4, <2>7, g \in Frontends DEF Frontends
<1>13. /\ res \in [Mode -> SUBSET Name] /\ res[m] = g.resolver[m] \cup {n} /\ \A x \in Mode : x # m => res[x] = g.resolver[x]
       /\ dir \in [Mode -> SUBSET Name] /\ dir[m] = g.dirty[m] \ {n} /\ \A x \in Mode : x # m => dir[x] = g.dirty[x]
  BY ONLY <1>2, <1>11, m \in Mode, n \in Name
<1>14. /\ inv2 \in [Mode -> SUBSET Name] /\ inv2[m] = (g.invalid[m] \cup V) \ {n}
       /\ \A x \in Mode : x # m => inv2[x] = g.invalid[x]
  BY ONLY <1>8, <1>11, m \in Mode, n \in Name
<1>15. /\ us \in [Mode -> [Name -> SUBSET Name]] /\ us[m][n] = U /\ \A x \in Mode : x # m => us[x] = g.used[x]
       /\ \A y \in Name : y # n => us[m][y] = g.used[m][y]
  <2>1. U \subseteq Name
    BY ONLY <1>1, <1>2, m \in Mode
  <2>2. PICK um : um = [g.used[m] EXCEPT ![n] = U]
    OBVIOUS
  <2>3. um \in [Name -> SUBSET Name] /\ um[n] = U /\ \A y \in Name : y # n => um[y] = g.used[m][y]
    BY ONLY <1>2, <2>1, <2>2, m \in Mode, n \in Name
  <2> QED BY ONLY <1>2, <1>11, <2>2, <2>3, m \in Mode
<1>16. /\ st2 \in [Mode -> [Name -> SUBSET Name]] /\ st2[m][n] = {} /\ \A x \in Mode : x # m => st2[x] = g.stale[x]
       /\ \A y \in Name : y # n => st2[m][y] = g.stale[m][y] \/ (n \in g.resolver[m] /\ n \in g.used[m][y])
  <2>1. PICK um : um = [st[m] EXCEPT ![n] = {}]
    OBVIOUS
  <2>2. um \in [Name -> SUBSET Name] /\ um[n] = {} /\ \A y \in Name : y # n => um[y] = st[m][y]
    BY ONLY <1>6, <2>1, m \in Mode, n \in Name
  <2> QED BY ONLY <1>6, <1>11, <2>1, <2>2, m \in Mode
<1>17. /\ ma \in [Mode -> SUBSET Name] /\ \A x \in Mode : x # m => ma[x] = g.made[x]
       /\ g.made[m] \ {n} \subseteq ma[m] /\ (n \in g.parsed => n \in ma[m])
  <2>1. PICK um : um = Update(g.made[m], {n}, n \in g.parsed)
    OBVIOUS
  <2>2. um \in SUBSET Name /\ g.made[m] \ {n} \subseteq um /\ (n \in g.parsed => n \in um)
    BY ONLY <1>2, <2>1, m \in Mode, n \in Name DEF Update
  <2> QED BY ONLY <1>2, <1>11, <2>1, <2>2, m \in Mode
<1>18. /\ h \in Frontends
       /\ h.node = g.node /\ h.requires = g.requires /\ h.dependents = g.dependents
       /\ h.dirtySource = g.dirtySource /\ h.parsed = g.parsed
       /\ h.resolver = res /\ h.dirty = dir /\ h.invalid = inv2 /\ h.used = us /\ h.stale = st2 /\ h.made = ma
  BY ONLY <1>12, <1>13, <1>14, <1>15, <1>16, <1>17, g \in Frontends DEF Frontends
<1>19. \A x \in Mode : x # m =>
          /\ h.dirty[x] = g.dirty[x] /\ h.invalid[x] = g.invalid[x] /\ h.resolver[x] = g.resolver[x]
          /\ h.made[x] = g.made[x] /\ h.used[x] = g.used[x] /\ h.stale[x] = g.stale[x]
  BY ONLY <1>13, <1>14, <1>15, <1>16, <1>17, <1>18
<1>20. \E W : /\ h.invalid[m] = (g.invalid[m] \cup W) \ {n}
              /\ n \notin g.resolver[m] => W = {}
              /\ n \in g.resolver[m] /\ n \in g.node => n \in W
              /\ \A d \in W \ g.invalid[m] : g.dependents[d] \subseteq W
  BY ONLY <1>4, <1>14, <1>18
<1>21. Recording(m, g, h, n, U)
  BY ONLY <1>13, <1>15, <1>16, <1>17, <1>18, <1>19, <1>20 DEF Recording
<1> QED BY ONLY <1>1, <1>21

\* A module that is checked against clean modules that know of it is clean, and nothing that
\* was clean is lost.
LEMMA RecordSound ==
  ASSUME NEW g, NEW h, NEW P, NEW m, NEW n, NEW U, Sound(g, P), m \in Mode, n \in Open(g, m), Recording(m, g, h, n, U),
         \A d \in U : d \in Clean(g, m) /\ n \in g.dependents[d]
  PROVE  /\ Sound(h, P) /\ Clean(h, m) = Clean(g, m) \cup {n}
         /\ \A E : n \in E /\ Tracks(g, m, E) => Tracks(h, m, E)
         /\ \A x \in Mode : x # m => \A E : Tracks(g, x, E) => Tracks(h, x, E)
<1>1. g \in Frontends /\ Linked(g) /\ Known(g, P) /\ Current(g, P)
  BY DEF Sound
<1>2. /\ n \in Parsed(g) /\ n \in g.node /\ n \notin Clean(g, m) /\ g.node \subseteq Name /\ n \in Name
      /\ n \in P \cup g.parsed /\ n \notin g.dirtySource /\ g.used \in [Mode -> [Name -> SUBSET Name]]
  <2>1. n \in Parsed(g) /\ n \in g.node /\ n \notin Clean(g, m) /\ n \notin g.dirtySource
    BY ONLY n \in Open(g, m) DEF Open, Parsed
  <2>2. g.node \subseteq Name /\ g.used \in [Mode -> [Name -> SUBSET Name]]
    BY ONLY <1>1 DEF Frontends
  <2> QED BY ONLY <1>1, <2>1, <2>2 DEF Known
<1>3. /\ h \in Frontends
      /\ h.node = g.node /\ h.requires = g.requires /\ h.dependents = g.dependents
      /\ h.dirtySource = g.dirtySource /\ h.parsed = g.parsed
      /\ \A x \in Mode : x # m =>
            /\ h.dirty[x] = g.dirty[x] /\ h.invalid[x] = g.invalid[x] /\ h.resolver[x] = g.resolver[x]
            /\ h.made[x] = g.made[x] /\ h.used[x] = g.used[x] /\ h.stale[x] = g.stale[x]
  BY ONLY Recording(m, g, h, n, U) DEF Recording
<1>4. /\ h.dirty[m] = g.dirty[m] \ {n} /\ h.resolver[m] = g.resolver[m] \cup {n}
      /\ g.made[m] \ {n} \subseteq h.made[m] /\ (n \in g.parsed => n \in h.made[m])
      /\ h.used[m][n] = U /\ h.stale[m][n] = {}
      /\ \A x \in Name : x # n =>
            /\ h.used[m][x] = g.used[m][x]
            /\ h.stale[m][x] = g.stale[m][x] \/ (n \in g.resolver[m] /\ n \in g.used[m][x])
  BY ONLY Recording(m, g, h, n, U) DEF Recording
<1>5. PICK V : /\ h.invalid[m] = (g.invalid[m] \cup V) \ {n}
               /\ n \notin g.resolver[m] => V = {}
               /\ n \in g.resolver[m] /\ n \in g.node => n \in V
               /\ \A d \in V \ g.invalid[m] : g.dependents[d] \subseteq V
  BY ONLY Recording(m, g, h, n, U) DEF Recording
<1>6. Linked(h)
  BY ONLY <1>1, <1>3 DEF Linked
<1>7. Clean(h, m) = Clean(g, m) \cup {n} /\ \A x \in Mode : x # m => Clean(h, x) = Clean(g, x)
  BY ONLY <1>2, <1>3, <1>4 DEF Clean
<1>8. Known(h, P)
  <2>1. h.node \ h.dirtySource \subseteq P \cup h.parsed
    BY ONLY <1>1, <1>3 DEF Known
  <2>2. ASSUME NEW x \in Mode, x # m
        PROVE  h.resolver[x] \subseteq h.node /\ h.dirtySource \subseteq h.dirty[x] /\ Valid(h, x) \subseteq h.resolver[x]
    BY ONLY <1>1, <1>3, <2>2 DEF Known, Valid
  <2>3. h.resolver[m] \subseteq h.node /\ h.dirtySource \subseteq h.dirty[m]
    BY ONLY <1>1, <1>2, <1>3, <1>4, m \in Mode DEF Known
  <2>4. Valid(h, m) \subseteq h.resolver[m]
    BY ONLY <1>1, <1>3, <1>4, <1>5, m \in Mode DEF Known, Valid
  <2> QED BY ONLY <2>1, <2>2, <2>3, <2>4 DEF Known
<1>9. Current(h, P)
  <2> SUFFICES ASSUME NEW x \in Mode, NEW y \in Clean(h, x)
               PROVE  /\ y \in h.resolver[x] /\ y \in P \cup h.made[x] /\ h.stale[x][y] = {}
                      /\ \A d \in h.used[x][y] : d \in Clean(h, x) /\ y \in h.dependents[d]
    BY DEF Current
  <2>1. CASE x # m
    <3>1. y \in Clean(g, x)
      BY ONLY <1>7, <2>1, x \in Mode, y \in Clean(h, x)
    <3>2. /\ y \in g.resolver[x] /\ y \in P \cup g.made[x] /\ g.stale[x][y] = {}
          /\ \A d \in g.used[x][y] : d \in Clean(g, x) /\ y \in g.dependents[d]
      BY ONLY <1>1, <3>1, x \in Mode DEF Current
    <3> QED BY ONLY <1>3, <1>7, <2>1, <3>2, x \in Mode
  <2>2. CASE x = m /\ y = n
    <3>1. n \in P \cup h.made[m]
      BY ONLY <1>2, <1>4
    <3> QED BY ONLY <1>3, <1>4, <1>7, <2>2, <3>1, \A d \in U : d \in Clean(g, m) /\ n \in g.dependents[d]
  <2>3. CASE x = m /\ y # n
    <3>1. y \in Clean(g, m)
      BY ONLY <1>7, <2>3, y \in Clean(h, x)
    <3>2. /\ y \in g.resolver[m] /\ y \in P \cup g.made[m] /\ g.stale[m][y] = {}
          /\ \A d \in g.used[m][y] : d \in Clean(g, m) /\ y \in g.dependents[d]
      BY ONLY <1>1, <3>1, m \in Mode DEF Current
    <3>3. n \notin g.used[m][y] /\ y \in Name
      BY ONLY <1>2, <3>1, <3>2 DEF Clean
    <3>4. h.used[m][y] = g.used[m][y] /\ h.stale[m][y] = g.stale[m][y]
      BY ONLY <1>4, <2>3, <3>3
    <3>5. y \in P \cup h.made[m]
      BY ONLY <1>4, <2>3, <3>2
    <3> QED BY ONLY <1>3, <1>4, <1>7, <2>3, <3>2, <3>4, <3>5
  <2> QED BY ONLY <2>1, <2>2, <2>3
<1>10. ASSUME NEW E, n \in E, Tracks(g, m, E)
       PROVE  Tracks(h, m, E)
  <2> SUFFICES ASSUME NEW x \in Valid(h, m) \ E
               PROVE  h.stale[m][x] = {} /\ \A d \in h.used[m][x] : d \in Valid(h, m) /\ x \in h.dependents[d]
    BY DEF Tracks
  <2>1. x # n /\ x \in g.node /\ x \notin g.invalid[m] /\ x \notin V /\ x \notin E /\ x \in Name
    BY ONLY <1>2, <1>3, <1>5, <1>10, x \in Valid(h, m) \ E DEF Valid
  <2>2. g.stale[m][x] = {} /\ \A d \in g.used[m][x] : d \in Valid(g, m) /\ x \in g.dependents[d]
    <3>1. x \in Valid(g, m) \ E
      BY ONLY <2>1 DEF Valid
    <3> QED BY ONLY <1>10, <3>1 DEF Tracks
  <2>3. ASSUME NEW d \in g.used[m][x]
        PROVE  d \notin V /\ d \in Valid(g, m) /\ x \in g.dependents[d]
    <3>1. d \in Valid(g, m) /\ x \in g.dependents[d] /\ d \notin g.invalid[m]
      BY ONLY <2>2, <2>3 DEF Valid
    <3> QED BY ONLY <1>5, <2>1, <3>1
  <2>4. h.stale[m][x] = {}
    <3>1. ~ (n \in g.resolver[m] /\ n \in g.used[m][x])
      BY ONLY <1>2, <1>5, <2>3
    <3> QED BY ONLY <1>4, <2>1, <2>2, <3>1
  <2>5. \A d \in g.used[m][x] : d \in Valid(h, m) /\ x \in h.dependents[d]
    BY ONLY <1>3, <1>5, <2>3 DEF Valid
  <2> QED BY ONLY <1>4, <2>1, <2>4, <2>5
<1>11. ASSUME NEW x \in Mode, x # m, NEW E, Tracks(g, x, E)
       PROVE  Tracks(h, x, E)
  BY ONLY <1>3, <1>11 DEF Tracks, Valid
<1> QED BY ONLY <1>3, <1>6, <1>7, <1>8, <1>9, <1>10, <1>11 DEF Sound

\* A frontend h when the first i modules of the queue of s are recorded
RecordedUpTo(s, m, P, h, i) ==
    /\ Sound(h, P) /\ h.node = s.g.node /\ h.requires = s.g.requires /\ h.dependents = s.g.dependents
    /\ h.dirtySource = s.g.dirtySource
    /\ Clean(h, m) = Clean(s.g, m) \cup {s.queue[k] : k \in 1 .. i}
    /\ h.resolver[m] = s.g.resolver[m] \cup {s.queue[k] : k \in 1 .. i}
    /\ \A y \in Name : (\A k \in 1 .. i : y # s.queue[k]) => h.used[m][y] = s.g.used[m][y]
    /\ \A E : (\A k \in 1 .. i : s.queue[k] \in E) /\ Tracks(s.g, m, E) => Tracks(h, m, E)
    /\ \A x \in Mode : x # m => h.used[x] = s.g.used[x] /\ \A E : Tracks(s.g, x, E) => Tracks(h, x, E)

LEMMA RecordedNext ==
  ASSUME NEW s, NEW m, NEW P, NEW g, NEW h, NEW i, Working(s, m, P, Name), m \in Mode, i \in 1 .. Len(s.queue),
         RecordedUpTo(s, m, P, g, i - 1), h = Recorded(m, g, s.queue[i], s.cyclic)
  PROVE  RecordedUpTo(s, m, P, h, i)
<1>1. PICK at : Searching(s, m, at, Name)
  BY DEF Working
<1>2. s \in Searches /\ Holds(s, m) /\ MarksMatch(s) /\ Ordered(s, m) /\ Told(s)
  BY ONLY <1>1 DEF Searching
<1>3. /\ s.g \in Frontends /\ Len(s.queue) \in Nat /\ s.g.requires \in [Name -> SUBSET Name]
      /\ \A j \in 1 .. Len(s.queue) : s.queue[j] \in Name
  BY ONLY <1>2, SearchTypes
<1>4. PICK Q : Q = {s.queue[k] : k \in 1 .. (i - 1)}
  OBVIOUS
<1>5. PICK n : n = s.queue[i]
  OBVIOUS
<1>6. {s.queue[k] : k \in 1 .. i} = Q \cup {n}
  <2>1. 1 .. i = 1 .. (i - 1) \cup {i}
    BY ONLY <1>3, i \in 1 .. Len(s.queue)
  <2> QED BY ONLY <1>4, <1>5, <2>1
<1>7. /\ Sound(g, P) /\ g.node = s.g.node /\ g.requires = s.g.requires /\ g.dependents = s.g.dependents
      /\ g.dirtySource = s.g.dirtySource
      /\ Clean(g, m) = Clean(s.g, m) \cup Q /\ g.resolver[m] = s.g.resolver[m] \cup Q
      /\ \A y \in Name : (\A k \in 1 .. (i - 1) : y # s.queue[k]) => g.used[m][y] = s.g.used[m][y]
      /\ \A E : (\A k \in 1 .. (i - 1) : s.queue[k] \in E) /\ Tracks(s.g, m, E) => Tracks(g, m, E)
      /\ \A x \in Mode : x # m => g.used[x] = s.g.used[x] /\ \A E : Tracks(s.g, x, E) => Tracks(g, x, E)
  BY ONLY <1>4, RecordedUpTo(s, m, P, g, i - 1) DEF RecordedUpTo
<1>8. g \in Frontends /\ Linked(g) /\ Known(g, P) /\ n \in Name
  BY ONLY <1>3, <1>5, <1>7, i \in 1 .. Len(s.queue) DEF Sound
<1>9. PICK U : U = (g.requires[n] \ (IF s.cyclic THEN RequireCycles(g, n) ELSE {})) \cap g.resolver[m]
  OBVIOUS
<1>10. Recording(m, g, h, n, U)
  <2>1. h = Recorded(m, g, n, s.cyclic)
    BY ONLY <1>5, h = Recorded(m, g, s.queue[i], s.cyclic)
  <2>2. Recording(m, g, h, n, (g.requires[n] \ (IF s.cyclic THEN RequireCycles(g, n) ELSE {})) \cap g.resolver[m])
    BY ONLY <1>8, <2>1, m \in Mode, RecordedIs
  <2> QED BY ONLY <1>9, <2>2
<1>11. n \in Open(g, m)
  <2>1. n \in Open(s.g, m)
    BY ONLY <1>2, <1>5, i \in 1 .. Len(s.queue) DEF Holds
  <2>2. n \notin Q
    <3>1. \A j, k \in 1 .. Len(s.queue) : s.queue[j] = s.queue[k] => j = k
      BY ONLY <1>2 DEF MarksMatch, Distinct
    <3>2. \A k \in 1 .. (i - 1) : k \in 1 .. Len(s.queue) /\ k # i
      BY ONLY <1>3, i \in 1 .. Len(s.queue)
    <3> QED BY ONLY <1>4, <1>5, <3>1, <3>2, i \in 1 .. Len(s.queue)
  <2> QED BY ONLY <1>7, <2>1, <2>2 DEF Open, Parsed
<1>12. ASSUME NEW d \in U
       PROVE  d \in Clean(g, m) /\ n \in g.dependents[d]
  <2>1. /\ d \in s.g.requires[n] /\ d \in g.node /\ d \in Name
        /\ ~ (s.cyclic /\ d \in RequireCycles(g, n))
    <3>1. d \in g.requires[n] /\ d \in g.resolver[m] /\ ~ (s.cyclic /\ d \in RequireCycles(g, n))
      BY ONLY <1>9, <1>12
    <3>2. g.resolver[m] \subseteq g.node /\ g.node \subseteq Name
      BY ONLY <1>8, m \in Mode DEF Known, Frontends
    <3> QED BY ONLY <1>7, <3>1, <3>2
  <2>2. ~ Gone(s.g, d)
    BY ONLY <1>7, <2>1 DEF Gone
  <2>3. n \in g.dependents[d]
    BY ONLY <1>2, <1>5, <1>7, <2>1, <2>2, i \in 1 .. Len(s.queue) DEF Told
  <2>4. Before(s, m, i, d)
    BY ONLY <1>2, <1>5, <2>1, i \in 1 .. Len(s.queue) DEF Ordered
  <2>5. CASE \E k \in 1 .. Len(s.queue) : k < i /\ s.queue[k] = d
    <3>1. PICK k \in 1 .. Len(s.queue) : k < i /\ s.queue[k] = d
      BY ONLY <2>5
    <3>2. k \in 1 .. (i - 1)
      BY ONLY <1>3, <3>1, i \in 1 .. Len(s.queue)
    <3>3. d \in Q
      BY ONLY <1>4, <3>1, <3>2
    <3> QED BY ONLY <1>7, <2>3, <3>3
  <2>6. CASE d \in Clean(s.g, m)
    BY ONLY <1>7, <2>3, <2>6
  <2>7. ~ (s.cyclic /\ s.queue[i] \in Reached(d, Fixed(s.g)))
    <3> SUFFICES ASSUME s.cyclic, s.queue[i] \in Reached(d, Fixed(s.g))
                 PROVE  FALSE
      OBVIOUS
    <3>1. Reached(d, Fixed(s.g)) \subseteq Reached(d, s.g.requires)
      <4>1. Edges(Fixed(s.g)) /\ Edges(s.g.requires)
        BY ONLY <1>3 DEF Edges, Fixed
      <4>2. \A x \in Name : Fixed(s.g)[x] \subseteq s.g.requires[x]
        BY DEF Fixed
      <4> QED BY ONLY <2>1, <4>1, <4>2, ReachedMore
    <3>2. n \in Reached(d, g.requires)
      BY ONLY <1>5, <1>7, <3>1, s.queue[i] \in Reached(d, Fixed(s.g))
    <3>3. d \in RequireCycles(g, n)
      BY ONLY <1>7, <2>1, <3>2 DEF RequireCycles
    <3> QED BY ONLY <2>1, <3>3, s.cyclic
  <2> QED BY ONLY <2>2, <2>4, <2>5, <2>6, <2>7 DEF Before
<1>13. /\ Sound(h, P) /\ Clean(h, m) = Clean(g, m) \cup {n}
       /\ \A E : n \in E /\ Tracks(g, m, E) => Tracks(h, m, E)
       /\ \A x \in Mode : x # m => \A E : Tracks(g, x, E) => Tracks(h, x, E)
  BY ONLY <1>7, <1>10, <1>11, <1>12, m \in Mode, RecordSound
<1>14. /\ h.node = g.node /\ h.requires = g.requires /\ h.dependents = g.dependents /\ h.dirtySource = g.dirtySource
       /\ h.resolver[m] = g.resolver[m] \cup {n} /\ \A x \in Mode : x # m => h.used[x] = g.used[x]
       /\ \A y \in Name : y # n => h.used[m][y] = g.used[m][y]
  BY ONLY <1>10 DEF Recording
<1>15. i \in 1 .. i /\ 1 .. (i - 1) \subseteq 1 .. i
  BY ONLY <1>3, i \in 1 .. Len(s.queue)
<1>16. \A y \in Name : (\A k \in 1 .. i : y # s.queue[k]) => h.used[m][y] = s.g.used[m][y]
  BY ONLY <1>5, <1>7, <1>14, <1>15
<1>17. \A E : (\A k \in 1 .. i : s.queue[k] \in E) /\ Tracks(s.g, m, E) => Tracks(h, m, E)
  BY ONLY <1>5, <1>7, <1>13, <1>15
<1>18. \A x \in Mode : x # m => h.used[x] = s.g.used[x] /\ \A E : Tracks(s.g, x, E) => Tracks(h, x, E)
  BY ONLY <1>7, <1>13, <1>14
<1>19. PICK R : R = {s.queue[k] : k \in 1 .. i}
  OBVIOUS
<1>20. Clean(h, m) = Clean(s.g, m) \cup R /\ h.resolver[m] = s.g.resolver[m] \cup R
  BY ONLY <1>6, <1>7, <1>13, <1>14, <1>19
<1> QED BY ONLY <1>7, <1>13, <1>14, <1>16, <1>17, <1>18, <1>19, <1>20 DEF RecordedUpTo

LEMMA RecordsWork ==
  ASSUME NEW s, NEW m, NEW P, NEW h, NEW k, Working(s, m, P, Name), m \in Mode, k \in 0 .. Len(s.queue),
         h = Records(m, s, k)
  PROVE  RecordedUpTo(s, m, P, h, k)
<1>1. s \in Searches /\ Sound(s.g, P) /\ s.g \in Frontends
  BY ONLY Working(s, m, P, Name), WorkingIs
<1>2. /\ Len(s.queue) \in Nat /\ k \in Nat /\ k <= Len(s.queue)
      /\ \A j \in 1 .. k : j \in 1 .. Len(s.queue) /\ s.queue[j] \in Name
  <2>1. Len(s.queue) \in Nat /\ \A j \in 1 .. Len(s.queue) : s.queue[j] \in Name
    BY ONLY <1>1, SearchTypes
  <2> QED BY ONLY <2>1, k \in 0 .. Len(s.queue)
<1> DEFINE Go(i, x) == Recorded(m, x, s.queue[i], s.cyclic)
           T == {x \in Frontends : Linked(x)}
           F == [i \in 1 .. k |-> [x \in T |-> Go(i, x)]]
<1>3. s.g \in T
  BY ONLY <1>1 DEF Sound
<1>4. F \in [1 .. k -> [T -> T]]
  <2>1. ASSUME NEW i \in 1 .. k, NEW x \in T
        PROVE  Go(i, x) \in T
    <3>1. PICK y : y = Go(i, x)
      OBVIOUS
    <3>2. x \in Frontends /\ Linked(x) /\ s.queue[i] \in Name
      BY ONLY <1>2, <2>1
    <3>3. PICK U : Recording(m, x, y, s.queue[i], U)
      BY ONLY <3>1, <3>2, m \in Mode, RecordedIs
    <3>4. y \in Frontends /\ y.node = x.node /\ y.requires = x.requires /\ y.dependents = x.dependents
      BY ONLY <3>3 DEF Recording
    <3>5. Linked(y)
      BY ONLY <3>2, <3>4 DEF Linked
    <3> HIDE DEF Go
    <3> QED BY ONLY <3>1, <3>4, <3>5
  <2> HIDE DEF T, Go
  <2> QED BY ONLY <2>1
<1> HIDE DEF T, Go
<1>5. \E upTo : upTo = [i \in 0 .. k |-> IF i = 0 THEN s.g ELSE Go(i, upTo[i - 1])]
  <2>1. PICK upTo : Up(upTo, k, T, s.g, F)
    <3> HIDE DEF F
    <3> QED BY ONLY <1>2, <1>3, <1>4, RecursionUp
  <2>2. upTo \in [0 .. k -> T] /\ upTo[0] = s.g /\ \A i \in 1 .. k : upTo[i] = F[i][upTo[i - 1]]
    BY ONLY <2>1 DEF Up
  <2>3. ASSUME NEW i \in 1 .. k
        PROVE  upTo[i] = Go(i, upTo[i - 1])
    <3>1. upTo[i - 1] \in T
      BY ONLY <1>2, <2>2, i \in 1 .. k
    <3>2. F[i][upTo[i - 1]] = Go(i, upTo[i - 1])
      BY ONLY <3>1, i \in 1 .. k
    <3> QED BY ONLY <2>2, <3>2, i \in 1 .. k
  <2>4. upTo = [i \in 0 .. k |-> IF i = 0 THEN s.g ELSE Go(i, upTo[i - 1])]
    BY ONLY <1>2, <2>2, <2>3
  <2> QED BY ONLY <2>4
<1>6. PICK r : r = CHOOSE upTo : upTo = [i \in 0 .. k |-> IF i = 0 THEN s.g ELSE Go(i, upTo[i - 1])]
  OBVIOUS
<1>7. h = r[k]
  BY ONLY <1>6, h = Records(m, s, k) DEF Records, Go
<1>8. r = [i \in 0 .. k |-> IF i = 0 THEN s.g ELSE Go(i, r[i - 1])]
  BY ONLY <1>5, <1>6
<1> HIDE DEF F
<1> DEFINE S == {i \in 0 .. k : RecordedUpTo(s, m, P, r[i], i)}
<1>9. 0 \in S
  <2>1. r[0] = s.g /\ 0 \in 0 .. k
    BY ONLY <1>2, <1>8
  <2>2. {s.queue[j] : j \in 1 .. 0} = {}
    OBVIOUS
  <2>3. PICK Z : Z = {s.queue[j] : j \in 1 .. 0}
    OBVIOUS
  <2>4. Z = {}
    BY ONLY <2>2, <2>3
  <2>5. RecordedUpTo(s, m, P, s.g, 0)
    BY ONLY <1>1, <2>3, <2>4 DEF RecordedUpTo
  <2> QED BY ONLY <2>1, <2>5
<1>10. ASSUME NEW i \in 1 .. k, i - 1 \in S
       PROVE  i \in S
  <2>1. r[i] = Go(i, r[i - 1]) /\ i \in 0 .. k
    BY ONLY <1>2, <1>8, i \in 1 .. k
  <2>2. r[i] = Recorded(m, r[i - 1], s.queue[i], s.cyclic)
    BY ONLY <2>1 DEF Go
  <2>3. RecordedUpTo(s, m, P, r[i - 1], i - 1)
    BY ONLY <1>10
  <2>4. RecordedUpTo(s, m, P, r[i], i)
    BY ONLY <1>2, <2>2, <2>3, i \in 1 .. k, Working(s, m, P, Name), m \in Mode, RecordedNext
  <2> QED BY ONLY <2>1, <2>4
<1>11. k \in S
  <2> HIDE DEF S
  <2>1. 0 .. k \subseteq S
    BY ONLY <1>2, <1>9, <1>10, UpTo
  <2> QED BY ONLY <1>2, <2>1
<1> QED BY ONLY <1>7, <1>11

-----------------------------------------------------------------------------
(* The calls                                                                *)

\* What a resolver has after a check, when y is called valid: E has the modules whose
\* dependencies were doubtful before, or were parsed again, or are gone, and D those doubtful now.
LEMMA DoubtsCover ==
  ASSUME NEW h, NEW x, NEW D, NEW E, NEW P, Current(h, P), x \in Mode, Tracks(h, x, E), h \in Frontends,
         \A y \in Valid(h, x) \cap E : y \notin D =>
             y \in Clean(h, x) /\ h.used[x][y] \cap h.invalid[x] = {}
  PROVE  Tracks(h, x, D)
<1> SUFFICES ASSUME NEW y \in Valid(h, x) \ D
             PROVE  h.stale[x][y] = {} /\ \A d \in h.used[x][y] : d \in Valid(h, x) /\ y \in h.dependents[d]
  BY DEF Tracks
<1>1. CASE y \notin E
  BY ONLY <1>1, Tracks(h, x, E), y \in Valid(h, x) \ D DEF Tracks
<1>2. CASE y \in E
  <2>1. y \in Clean(h, x) /\ h.used[x][y] \cap h.invalid[x] = {}
    BY ONLY <1>2, y \in Valid(h, x) \ D,
            \A z \in Valid(h, x) \cap E : z \notin D => z \in Clean(h, x) /\ h.used[x][z] \cap h.invalid[x] = {}
  <2>2. h.stale[x][y] = {} /\ \A d \in h.used[x][y] : d \in Clean(h, x) /\ y \in h.dependents[d]
    BY ONLY <2>1, Current(h, P), x \in Mode DEF Current
  <2> QED BY ONLY <2>1, <2>2 DEF Clean, Valid
<1> QED BY ONLY <1>1, <1>2

\* What check does when the search ends with s and the first k modules are recorded
Checks(m, s, k) ==
    LET Q == {s.queue[i] : i \in 1 .. k}
        R == f.dirtySource \ s.g.dirtySource
        U == {n \in Q : f'.used[m][n] \cap f'.invalid[m] # {}}
    IN /\ f' = Records(m, s, k)
       /\ doubtful' = [x \in Mode |-> Doubted(f', x,
              IF x = m THEN ((doubtful[x] \cup R) \ Q) \cup U ELSE doubtful[x] \cup R)]

LEMMA CheckPreserves ==
  ASSUME SessionInv, NEW root \in Name, NEW m \in Mode, Check(root, m)
  PROVE  SessionInv'
<1>1. /\ disk \in Disks /\ pending \subseteq Name /\ doubtful \in [Mode -> SUBSET Name] /\ Sound(f, pending)
      /\ \A x \in Mode : Tracks(f, x, doubtful[x])
  BY DEF SessionInv
<1>2. root \notin Clean(f, m)
  BY DEF Check, Clean
<1>3. PICK s \in {ParseGraph(m, root, order) : order \in Order} : \E k \in 0 .. Len(s.queue) : Checks(m, s, k)
  BY DEF Check, Checks
<1>4. PICK order \in Order : s = ParseGraph(m, root, order)
  OBVIOUS
<1>5. PICK k \in 0 .. Len(s.queue) : Checks(m, s, k)
  BY <1>3
<1>6. PICK Q, R : Q = {s.queue[i] : i \in 1 .. k} /\ R = f.dirtySource \ s.g.dirtySource
  OBVIOUS
<1>7. PICK h : h = f'
  OBVIOUS
<1>8. PICK U : U = {n \in Q : h.used[m][n] \cap h.invalid[m] # {}}
  OBVIOUS
<1>9. /\ h = Records(m, s, k)
      /\ doubtful' = [x \in Mode |-> Doubted(h, x,
             IF x = m THEN ((doubtful[x] \cup R) \ Q) \cup U ELSE doubtful[x] \cup R)]
  BY ONLY <1>5, <1>6, <1>7, <1>8 DEF Checks
<1>10. Working(s, m, pending, Name)
  BY ONLY <1>1, <1>2, <1>4, root \in Name, m \in Mode, ParseWorks
<1>11. RecordedUpTo(s, m, pending, h, k)
  <2>1. h = Records(m, s, k) /\ k \in 0 .. Len(s.queue)
    BY ONLY <1>5, <1>9
  <2> QED BY ONLY <1>10, <2>1, m \in Mode, RecordsWork
<1>12. /\ Sound(h, pending) /\ h.node = s.g.node /\ Q \subseteq Clean(h, m)
       /\ \A y \in Name : y \notin Q => h.used[m][y] = s.g.used[m][y]
       /\ \A E : Q \subseteq E /\ Tracks(s.g, m, E) => Tracks(h, m, E)
       /\ \A x \in Mode : x # m => h.used[x] = s.g.used[x] /\ \A E : Tracks(s.g, x, E) => Tracks(h, x, E)
  <2>1. \A y : y \in Q <=> \E i \in 1 .. k : y = s.queue[i]
    BY ONLY <1>6
  <2> QED BY ONLY <1>6, <1>11, <2>1 DEF RecordedUpTo
<1>13. h \in Frontends /\ Current(h, pending) /\ h.node \subseteq Name
  BY ONLY <1>12 DEF Sound, Frontends
<1>14. \A x \in Mode : \A y \in Valid(h, x) : y \notin doubtful'[x] =>
          /\ h.used[x][y] \subseteq h.node
          /\ x # m => y \notin doubtful[x] /\ y \notin R
          /\ x = m => y \in Q \ U \/ (y \notin doubtful[x] /\ y \notin R /\ y \notin Q)
  BY ONLY <1>9 DEF Doubted, Valid
<1>15. ASSUME NEW x \in Mode
       PROVE  Tracks(h, x, doubtful'[x])
  <2>1. PICK E : \A y : y \in E <=>
             \/ y \in doubtful[x] \/ y \in R \/ (x = m /\ y \in Q)
             \/ y \in Name /\ ~ (s.g.used[x][y] \subseteq s.g.node)
    <3>1. PICK N : N = {y \in Name : ~ (s.g.used[x][y] \subseteq s.g.node)}
      OBVIOUS
    <3>2. PICK E : E = doubtful[x] \cup R \cup (IF x = m THEN Q ELSE {}) \cup N
      OBVIOUS
    <3>3. \A y : y \in E <=>
             \/ y \in doubtful[x] \/ y \in R \/ (x = m /\ y \in Q)
             \/ y \in Name /\ ~ (s.g.used[x][y] \subseteq s.g.node)
      BY ONLY <3>1, <3>2
    <3> QED BY ONLY <3>3
  <2>2. Tracks(s.g, x, E)
    <3>1. Tracks(f, x, E)
      <4>1. doubtful[x] \subseteq E
        BY ONLY <2>1
      <4> QED BY ONLY <1>1, <4>1, x \in Mode, TracksLess
    <3>2. Excepts(f, s.g, x, E)
      BY ONLY <1>6, <2>1 DEF Excepts, Gone
    <3> QED BY ONLY <1>10, <3>1, <3>2, x \in Mode DEF Working, Derived
  <2>3. Tracks(h, x, E)
    <3>1. x = m => Q \subseteq E
      BY ONLY <2>1
    <3> QED BY ONLY <1>12, <2>2, <3>1, x \in Mode
  <2>4. ASSUME NEW y \in Valid(h, x) \cap E, y \notin doubtful'[x]
        PROVE  y \in Clean(h, x) /\ h.used[x][y] \cap h.invalid[x] = {}
    <3>1. /\ h.used[x][y] \subseteq h.node
          /\ x # m => y \notin doubtful[x] /\ y \notin R
          /\ x = m => y \in Q \ U \/ (y \notin doubtful[x] /\ y \notin R /\ y \notin Q)
      BY ONLY <1>14, <2>4, x \in Mode
    <3>2. y \in Name
      BY ONLY <1>13, <2>4 DEF Valid
    <3>3. x = m /\ y \in Q \ U
      BY ONLY <1>12, <2>1, <2>4, <3>1, <3>2, x \in Mode
    <3>4. y \notin U => h.used[m][y] \cap h.invalid[m] = {}
      BY ONLY <1>8, <3>3
    <3> QED BY ONLY <1>12, <3>3, <3>4
  <2> QED BY ONLY <1>13, <2>3, <2>4, x \in Mode, DoubtsCover
<1>16. doubtful' \in [Mode -> SUBSET Name]
  <2>1. \A x \in Mode : \A D : Doubted(h, x, D) \subseteq Name
    BY ONLY <1>13 DEF Doubted
  <2> QED BY ONLY <1>9, <2>1
<1>17. disk' = disk /\ pending' = pending
  BY DEF Check
<1>18. Sound(f', pending')
  BY ONLY <1>7, <1>12, <1>17
<1>19. \A x \in Mode : Tracks(f', x, doubtful'[x])
  BY ONLY <1>7, <1>15
<1> QED BY ONLY <1>1, <1>16, <1>17, <1>18, <1>19 DEF SessionInv

LEMMA EditPreserves ==
  ASSUME SessionInv, NEW n \in Name, Edit(n)
  PROVE  SessionInv'
<1>1. /\ disk \in Disks /\ pending \subseteq Name /\ doubtful \in [Mode -> SUBSET Name] /\ Sound(f, pending)
      /\ \A x \in Mode : Tracks(f, x, doubtful[x])
  BY DEF SessionInv
<1>2. disk' \in Disks
  <2>1. PICK c \in Source[n] : disk' = [disk EXCEPT ![n] = c]
    BY DEF Edit
  <2>2. c \in (SUBSET Name) \cup {Absent}
    BY ONLY n \in Name, c \in Source[n], SourceAssumption DEF SourceAssumption
  <2> QED BY ONLY <1>1, <2>1, <2>2, n \in Name DEF Disks
<1>3. PICK h : h = f'
  OBVIOUS
<1>4. f \in Frontends /\ Linked(f) /\ Known(f, pending) /\ Current(f, pending)
  BY ONLY <1>1 DEF Sound
<1>5. PICK ma : ma = [m \in Mode |-> f.made[m] \ {n}]
  OBVIOUS
<1>6. PICK par : par = f.parsed \ {n}
  OBVIOUS
<1>7. f.parsed \subseteq Name /\ f.made \in [Mode -> SUBSET Name]
  BY ONLY <1>4 DEF Frontends
<1>8. ma \in [Mode -> SUBSET Name] /\ par \subseteq Name /\ \A m \in Mode : ma[m] = f.made[m] \ {n}
  BY ONLY <1>5, <1>6, <1>7
<1>9. h = [f EXCEPT !.parsed = par, !.made = ma]
  BY ONLY <1>3, <1>5, <1>6, Edit(n) DEF Edit
<1>10. /\ h \in Frontends /\ h.node = f.node /\ h.requires = f.requires /\ h.dependents = f.dependents
       /\ h.dirtySource = f.dirtySource /\ h.dirty = f.dirty /\ h.invalid = f.invalid
       /\ h.resolver = f.resolver /\ h.parsed = par /\ h.made = ma /\ h.used = f.used /\ h.stale = f.stale
  BY ONLY <1>4, <1>8, <1>9 DEF Frontends
<1>11. Linked(h)
  BY ONLY <1>4, <1>10 DEF Linked
<1>12. Known(h, pending \cup {n})
  <2>1. h.node \ h.dirtySource \subseteq (pending \cup {n}) \cup h.parsed
    BY ONLY <1>4, <1>6, <1>10 DEF Known
  <2>2. \A m \in Mode : /\ h.resolver[m] \subseteq h.node /\ h.dirtySource \subseteq h.dirty[m]
                        /\ Valid(h, m) \subseteq h.resolver[m]
    BY ONLY <1>4, <1>10 DEF Known, Valid
  <2> QED BY ONLY <2>1, <2>2 DEF Known
<1>13. \A m \in Mode : Clean(h, m) = Clean(f, m) /\ Valid(h, m) = Valid(f, m)
  BY ONLY <1>10 DEF Clean, Valid
<1>14. Current(h, pending \cup {n})
  <2>1. \A m \in Mode : \A x : x \in pending \cup f.made[m] => x \in (pending \cup {n}) \cup h.made[m]
    BY ONLY <1>8, <1>10
  <2> QED BY ONLY <1>4, <1>10, <1>13, <2>1 DEF Current
<1>15. \A m \in Mode : \A E : Tracks(f, m, E) => Tracks(h, m, E)
  BY ONLY <1>10, <1>13 DEF Tracks
<1>16. pending' = pending \cup {n} /\ doubtful' = doubtful
  BY DEF Edit
<1>17. Sound(f', pending') /\ \A x \in Mode : Tracks(f', x, doubtful'[x])
  BY ONLY <1>1, <1>3, <1>10, <1>11, <1>12, <1>14, <1>15, <1>16 DEF Sound
<1> QED BY ONLY <1>1, <1>2, <1>16, <1>17, n \in Name DEF SessionInv

LEMMA MarkDirtyPreserves ==
  ASSUME SessionInv, NEW n \in Name, MarkDirty(n)
  PROVE  SessionInv'
<1>1. /\ disk \in Disks /\ pending \subseteq Name /\ doubtful \in [Mode -> SUBSET Name] /\ Sound(f, pending)
      /\ \A x \in Mode : Tracks(f, x, doubtful[x])
  BY DEF SessionInv
<1>2. /\ f' = MarkedDirty(f, n) /\ pending' = pending \ {n} /\ disk' = disk /\ doubtful' = doubtful
  BY DEF MarkDirty
<1>3. Sound(f', pending \ {n}) /\ \A m \in Mode : \A E : Tracks(f, m, E) => Tracks(f', m, E)
  BY ONLY <1>1, <1>2, n \in Name, MarkedDirtySound
<1> QED BY ONLY <1>1, <1>2, <1>3 DEF SessionInv

\* A frontend with nothing in it
LEMMA NewSound ==
  ASSUME NEW P
  PROVE  Sound(NewFrontend, P) /\ \A m \in Mode : Tracks(NewFrontend, m, {})
<1>1. PICK g : g = NewFrontend
  OBVIOUS
<1>2. /\ g.node = {} /\ g.dependents = [n \in Name |-> {}] /\ g.dirtySource = {} /\ g.dirty = [m \in Mode |-> {}]
      /\ g.resolver = [m \in Mode |-> {}]
  BY ONLY <1>1 DEF NewFrontend
<1>3. g \in Frontends
  <2>1. PICK none, each, two :
            /\ none = [n \in Name |-> {}] /\ each = [m \in Mode |-> {}]
            /\ two = [m \in Mode |-> [n \in Name |-> {}]]
    OBVIOUS
  <2>2. none \in [Name -> SUBSET Name] /\ each \in [Mode -> SUBSET Name] /\ two \in [Mode -> [Name -> SUBSET Name]]
    BY ONLY <2>1
  <2>3. g = [node |-> {}, requires |-> none, dependents |-> none,
             dirtySource |-> {}, dirty |-> each, invalid |-> each, resolver |-> each,
             parsed |-> {}, made |-> each, used |-> two, stale |-> two]
    BY ONLY <1>1, <2>1 DEF NewFrontend
  <2> QED BY ONLY <2>2, <2>3 DEF Frontends
<1>4. Linked(g)
  BY ONLY <1>2 DEF Linked
<1>5. Known(g, P)
  BY ONLY <1>2 DEF Known, Valid
<1>6. Current(g, P) /\ \A m \in Mode : Tracks(g, m, {})
  BY ONLY <1>2 DEF Current, Tracks, Clean, Valid
<1> QED BY ONLY <1>1, <1>3, <1>4, <1>5, <1>6 DEF Sound

LEMMA ClearPreserves ==
  ASSUME SessionInv, Clear
  PROVE  SessionInv'
<1>1. disk \in Disks /\ f' = NewFrontend /\ pending' = {} /\ doubtful' = [m \in Mode |-> {}] /\ disk' = disk
  BY DEF SessionInv, Clear
<1>2. Sound(f', pending') /\ \A m \in Mode : Tracks(f', m, {})
  BY ONLY <1>1, NewSound
<1>3. doubtful' \in [Mode -> SUBSET Name] /\ \A m \in Mode : doubtful'[m] = {}
  BY ONLY <1>1
<1> QED BY ONLY <1>1, <1>2, <1>3 DEF SessionInv

\* E has what is not there, and what was checked against it.
Misses(h, x, E) == \A y \in Name \ E : y \in h.node /\ h.used[x][y] \subseteq h.node

\* What clearModules leaves of the modules all, while it erases them
Clearing(h, P, all) ==
    /\ Sound(h, P) /\ all \cap h.node \subseteq h.dirtySource
    /\ \A x \in Mode : \A E : Misses(h, x, E) /\ Tracks(f, x, E) => Tracks(h, x, E)

LEMMA ClearingOne ==
  ASSUME NEW g, NEW h, NEW P, NEW all, NEW n, Clearing(g, P, all), n \in all, n \in Name, n \in g.node, h = Erase(g, n)
  PROVE  Clearing(h, P, all)
<1>1. /\ Sound(g, P) /\ g \in Frontends /\ Linked(g) /\ Known(g, P) /\ all \cap g.node \subseteq g.dirtySource
      /\ \A x \in Mode : \A E : Misses(g, x, E) /\ Tracks(f, x, E) => Tracks(g, x, E)
  BY DEF Clearing, Sound
<1>2. Erased(g, h, n)
  BY ONLY <1>1, n \in Name, h = Erase(g, n), EraseIs
<1>3. \A m \in Mode : n \in g.dirty[m]
  BY ONLY <1>1, n \in all, n \in g.node DEF Known
<1>4. Sound(h, P) /\ \A m \in Mode : \A E : Unused(g, m, n, E) /\ Tracks(g, m, E) => Tracks(h, m, E)
  BY ONLY <1>1, <1>2, <1>3, n \in Name, ErasedSound
<1>5. /\ h.node = g.node \ {n} /\ h.dirtySource = g.dirtySource \ {n}
      /\ \A m \in Mode : \A x \in Name : x # n => h.used[m][x] = g.used[m][x]
  BY ONLY <1>2 DEF Erased
<1>6. all \cap h.node \subseteq h.dirtySource
  BY ONLY <1>1, <1>5
<1>7. ASSUME NEW x \in Mode, NEW E, Misses(h, x, E), Tracks(f, x, E)
      PROVE  Tracks(h, x, E)
  <2>1. \A y \in Name \ E : y \in h.node /\ y # n /\ g.used[x][y] \subseteq h.node
    BY ONLY <1>5, <1>7 DEF Misses
  <2>2. Misses(g, x, E) /\ Unused(g, x, n, E)
    BY ONLY <1>5, <2>1 DEF Misses, Unused
  <2> QED BY ONLY <1>1, <1>4, <1>7, <2>2
<1> QED BY ONLY <1>4, <1>6, <1>7 DEF Clearing

\* And while it marks them, when those of D are marked
Marking(h, P, D) ==
    /\ Sound(h, P \ D) /\ h.node = f.node /\ D \cap f.node \subseteq h.dirtySource
    /\ \A x \in Mode : \A E : Tracks(f, x, E) => Tracks(h, x, E)

LEMMA MarkingOne ==
  ASSUME NEW g, NEW h, NEW P, NEW D, NEW n, Marking(g, P, D), n \in Name, h = MarkedDirty(g, n)
  PROVE  Marking(h, P, D \cup {n})
<1>1. /\ Sound(g, P \ D) /\ g.node = f.node /\ D \cap f.node \subseteq g.dirtySource
      /\ \A x \in Mode : \A E : Tracks(f, x, E) => Tracks(g, x, E)
  BY DEF Marking
<1>2. /\ Sound(h, (P \ D) \ {n}) /\ h.node = g.node
      /\ n \in g.node => n \in h.dirtySource
      /\ g.dirtySource \subseteq h.dirtySource
      /\ \A m \in Mode : \A E : Tracks(g, m, E) => Tracks(h, m, E)
  BY ONLY <1>1, n \in Name, h = MarkedDirty(g, n), MarkedDirtySound
<1>3. (P \ D) \ {n} = P \ (D \cup {n})
  OBVIOUS
<1>4. Sound(h, P \ (D \cup {n}))
  BY ONLY <1>2, <1>3
<1> QED BY ONLY <1>1, <1>2, <1>4 DEF Marking

\* r has the Frontend after each of the first k names is marked, and e after it is erased
MarksUpTo(r, names, k) ==
    r = CHOOSE marked : marked = [i \in 0 .. k |-> IF i = 0 THEN f ELSE MarkedDirty(marked[i - 1], names[i])]
ErasesUpTo(e, g, names, k) ==
    e = CHOOSE erased : erased = [i \in 0 .. k |-> IF i = 0 THEN g
           ELSE IF names[i] \in erased[i - 1].node THEN Erase(erased[i - 1], names[i]) ELSE erased[i - 1]]

LEMMA MarkedAll ==
  ASSUME NEW P, NEW k, NEW names, NEW r, NEW all, Sound(f, P), k \in Nat, \A i \in 1 .. k : names[i] \in Name,
         all = {names[i] : i \in 1 .. k}, MarksUpTo(r, names, k)
  PROVE  Marking(r[k], P, all)
<1> DEFINE Go(i, x) == MarkedDirty(x, names[i])
           T == {x \in Frontends : \E D \in SUBSET Name : Marking(x, P, D)}
           F == [i \in 1 .. k |-> [x \in T |-> Go(i, x)]]
<1>1. Marking(f, P, {}) /\ f \in Frontends
  <2>1. P \ {} = P
    OBVIOUS
  <2>2. Sound(f, P \ {})
    BY ONLY <2>1, Sound(f, P)
  <2> QED BY ONLY <2>2 DEF Marking, Sound
<1>2. f \in T
  BY ONLY <1>1
<1>3. F \in [1 .. k -> [T -> T]]
  <2>1. ASSUME NEW i \in 1 .. k, NEW x \in T
        PROVE  Go(i, x) \in T
    <3>1. PICK D \in SUBSET Name : Marking(x, P, D)
      BY ONLY <2>1
    <3>2. PICK y : y = MarkedDirty(x, names[i])
      OBVIOUS
    <3>3. Marking(y, P, D \cup {names[i]})
      BY ONLY <2>1, <3>1, <3>2, \A j \in 1 .. k : names[j] \in Name, MarkingOne
    <3>4. D \cup {names[i]} \in SUBSET Name /\ y \in Frontends
      BY ONLY <2>1, <3>1, <3>3, \A j \in 1 .. k : names[j] \in Name DEF Marking, Sound
    <3> QED BY ONLY <3>2, <3>3, <3>4
  <2> HIDE DEF T, Go
  <2> QED BY ONLY <2>1
<1> HIDE DEF T, Go
<1>4. \E marked : marked = [i \in 0 .. k |-> IF i = 0 THEN f ELSE Go(i, marked[i - 1])]
  <2>1. PICK marked : Up(marked, k, T, f, F)
    <3> HIDE DEF F
    <3> QED BY ONLY <1>2, <1>3, k \in Nat, RecursionUp
  <2>2. marked \in [0 .. k -> T] /\ marked[0] = f /\ \A i \in 1 .. k : marked[i] = F[i][marked[i - 1]]
    BY ONLY <2>1 DEF Up
  <2>3. ASSUME NEW i \in 1 .. k
        PROVE  marked[i] = Go(i, marked[i - 1])
    <3>1. marked[i - 1] \in T
      BY ONLY <2>2, i \in 1 .. k, k \in Nat
    <3>2. F[i][marked[i - 1]] = Go(i, marked[i - 1])
      BY ONLY <3>1, i \in 1 .. k
    <3> QED BY ONLY <2>2, <3>2, i \in 1 .. k
  <2>4. marked = [i \in 0 .. k |-> IF i = 0 THEN f ELSE Go(i, marked[i - 1])]
    BY ONLY <2>2, <2>3, k \in Nat
  <2> QED BY ONLY <2>4
<1> HIDE DEF F
<1>5. r = CHOOSE marked : marked = [i \in 0 .. k |-> IF i = 0 THEN f ELSE Go(i, marked[i - 1])]
  BY ONLY MarksUpTo(r, names, k) DEF MarksUpTo, Go
<1>6. r = [i \in 0 .. k |-> IF i = 0 THEN f ELSE Go(i, r[i - 1])]
  BY ONLY <1>4, <1>5
<1> DEFINE S == {i \in 0 .. k : Marking(r[i], P, {names[j] : j \in 1 .. i})}
<1>7. 0 \in S
  <2>1. r[0] = f /\ 0 \in 0 .. k /\ {names[j] : j \in 1 .. 0} = {}
    BY ONLY <1>6, k \in Nat
  <2> QED BY ONLY <1>1, <2>1
<1>8. ASSUME NEW i \in 1 .. k, i - 1 \in S
      PROVE  i \in S
  <2>1. r[i] = MarkedDirty(r[i - 1], names[i]) /\ i \in 0 .. k
    BY ONLY <1>6, i \in 1 .. k, k \in Nat DEF Go
  <2>2. PICK D : D = {names[j] : j \in 1 .. (i - 1)}
    OBVIOUS
  <2>3. Marking(r[i - 1], P, D)
    BY ONLY <1>8, <2>2
  <2>4. Marking(r[i], P, D \cup {names[i]})
    BY ONLY <2>1, <2>3, i \in 1 .. k, \A j \in 1 .. k : names[j] \in Name, MarkingOne
  <2>5. {names[j] : j \in 1 .. i} = D \cup {names[i]}
    <3>1. 1 .. i = 1 .. (i - 1) \cup {i}
      BY ONLY i \in 1 .. k, k \in Nat
    <3> QED BY ONLY <2>2, <3>1
  <2> QED BY ONLY <2>1, <2>4, <2>5
<1>9. k \in S
  <2> HIDE DEF S
  <2>1. 0 .. k \subseteq S
    BY ONLY <1>7, <1>8, k \in Nat, UpTo
  <2> QED BY ONLY <2>1, k \in Nat
<1> QED BY ONLY <1>9, all = {names[i] : i \in 1 .. k}

LEMMA ErasedAll ==
  ASSUME NEW g, NEW P, NEW k, NEW names, NEW r, Clearing(g, P, {names[i] : i \in 1 .. k}),
         k \in Nat, \A i \in 1 .. k : names[i] \in Name,
         ErasesUpTo(r, g, names, k)
  PROVE  Clearing(r[k], P, {names[i] : i \in 1 .. k})
<1>1. PICK all : all = {names[i] : i \in 1 .. k}
  OBVIOUS
<1> DEFINE Go(i, x) == IF names[i] \in x.node THEN Erase(x, names[i]) ELSE x
           T == {x \in Frontends : Clearing(x, P, all)}
           F == [i \in 1 .. k |-> [x \in T |-> Go(i, x)]]
<1>2. g \in T
  <2>1. Clearing(g, P, all)
    BY ONLY <1>1, Clearing(g, P, {names[i] : i \in 1 .. k})
  <2> QED BY ONLY <2>1 DEF Clearing, Sound
<1>3. F \in [1 .. k -> [T -> T]]
  <2>1. ASSUME NEW i \in 1 .. k, NEW x \in T
        PROVE  Go(i, x) \in T
    <3>1. CASE names[i] \in x.node
      <4>1. PICK y : y = Erase(x, names[i])
        OBVIOUS
      <4>2. Clearing(x, P, all) /\ names[i] \in all /\ names[i] \in Name
        BY ONLY <1>1, <2>1, \A j \in 1 .. k : names[j] \in Name
      <4>3. Clearing(y, P, all)
        BY ONLY <3>1, <4>1, <4>2, ClearingOne
      <4>4. y \in Frontends
        BY ONLY <4>3 DEF Clearing, Sound
      <4>5. Go(i, x) = y
        BY ONLY <3>1, <4>1
      <4> QED BY ONLY <4>3, <4>4, <4>5
    <3>2. CASE names[i] \notin x.node
      BY ONLY <2>1, <3>2
    <3> QED BY ONLY <3>1, <3>2
  <2> HIDE DEF T, Go
  <2> QED BY ONLY <2>1
<1> HIDE DEF T, Go
<1>4. \E erased : /\ erased = [i \in 0 .. k |-> IF i = 0 THEN g ELSE Go(i, erased[i - 1])]
  <2>1. PICK erased : Up(erased, k, T, g, F)
    <3> HIDE DEF F
    <3> QED BY ONLY <1>2, <1>3, k \in Nat, RecursionUp
  <2>2. erased \in [0 .. k -> T] /\ erased[0] = g /\ \A i \in 1 .. k : erased[i] = F[i][erased[i - 1]]
    BY ONLY <2>1 DEF Up
  <2>3. ASSUME NEW i \in 1 .. k
        PROVE  erased[i] = Go(i, erased[i - 1])
    <3>1. erased[i - 1] \in T
      BY ONLY <2>2, i \in 1 .. k, k \in Nat
    <3>2. F[i][erased[i - 1]] = Go(i, erased[i - 1])
      BY ONLY <3>1, i \in 1 .. k
    <3> QED BY ONLY <2>2, <3>2, i \in 1 .. k
  <2>4. erased = [i \in 0 .. k |-> IF i = 0 THEN g ELSE Go(i, erased[i - 1])]
    BY ONLY <2>2, <2>3, k \in Nat
  <2> QED BY ONLY <2>4
<1>5. r = CHOOSE erased : erased = [i \in 0 .. k |-> IF i = 0 THEN g ELSE Go(i, erased[i - 1])]
  BY ONLY ErasesUpTo(r, g, names, k) DEF ErasesUpTo, Go
<1>6. r = [i \in 0 .. k |-> IF i = 0 THEN g ELSE Go(i, r[i - 1])]
  BY ONLY <1>4, <1>5
<1> HIDE DEF F
<1> DEFINE S == {i \in 0 .. k : r[i] \in T}
<1>7. 0 \in S
  BY ONLY <1>2, <1>6, k \in Nat
<1>8. ASSUME NEW i \in 1 .. k, i - 1 \in S
      PROVE  i \in S
  <2>1. r[i] = Go(i, r[i - 1]) /\ i \in 0 .. k /\ r[i - 1] \in T
    BY ONLY <1>6, <1>8, i \in 1 .. k, k \in Nat
  <2>2. F[i] \in [T -> T] /\ F[i][r[i - 1]] = Go(i, r[i - 1])
    BY ONLY <1>3, <2>1, i \in 1 .. k DEF F
  <2> QED BY ONLY <2>1, <2>2
<1>9. k \in S
  <2> HIDE DEF S
  <2>1. 0 .. k \subseteq S
    BY ONLY <1>7, <1>8, k \in Nat, UpTo
  <2> QED BY ONLY <2>1, k \in Nat
<1> QED BY ONLY <1>1, <1>9 DEF T

LEMMA ClearModulesPreserves ==
  ASSUME SessionInv, NEW names \in Order, NEW k \in 1 .. Len(names), ClearModules(names, k)
  PROVE  SessionInv'
<1>1. /\ disk \in Disks /\ pending \subseteq Name /\ doubtful \in [Mode -> SUBSET Name] /\ Sound(f, pending)
      /\ \A x \in Mode : Tracks(f, x, doubtful[x])
  BY DEF SessionInv
<1>2. k \in Nat /\ \A i \in 1 .. k : names[i] \in Name
  <2>1. names \in Seq(Name)
    BY ONLY names \in Order, SourceAssumption DEF SourceAssumption
  <2>2. Len(names) \in Nat /\ \A i \in 1 .. Len(names) : names[i] \in Name
    BY ONLY <2>1, LenProperties, ElementOfSeq
  <2> QED BY ONLY <2>2, k \in 1 .. Len(names)
<1>3. PICK all : all = {names[i] : i \in 1 .. k}
  OBVIOUS
<1>4. PICK r : MarksUpTo(r, names, k)
  BY DEF MarksUpTo
<1>5. PICK g : g = r[k]
  OBVIOUS
<1>6. PICK e : ErasesUpTo(e, g, names, k)
  BY DEF ErasesUpTo
<1>7. /\ f' = e[k] /\ doubtful' = [m \in Mode |-> Doubted(f', m, doubtful[m])]
      /\ pending' = pending \ all /\ disk' = disk
  BY ONLY <1>3, <1>4, <1>5, <1>6, ClearModules(names, k) DEF ClearModules, MarksUpTo, ErasesUpTo
<1>8. Marking(g, pending, all)
  <2>1. PICK P : P = pending
    OBVIOUS
  <2>2. Sound(f, P) /\ k \in Nat /\ \A i \in 1 .. k : names[i] \in Name
    BY ONLY <1>1, <1>2, <2>1
  <2>3. Marking(r[k], P, all)
    BY ONLY <1>3, <1>4, <2>2, MarkedAll
  <2> QED BY ONLY <1>5, <2>1, <2>3
<1>9. Clearing(g, pending \ all, all)
  BY ONLY <1>8 DEF Marking, Clearing
<1>10. Clearing(e[k], pending \ all, all)
  <2>1. Clearing(g, pending \ all, {names[i] : i \in 1 .. k})
    BY ONLY <1>3, <1>9
  <2>2. Clearing(e[k], pending \ all, {names[i] : i \in 1 .. k})
    BY ONLY <1>2, <1>6, <2>1, ErasedAll
  <2> QED BY ONLY <1>3, <2>2
<1>11. Sound(f', pending')
  BY ONLY <1>7, <1>10 DEF Clearing
<1>12. PICK h : h = f'
  OBVIOUS
<1>13. h.node \subseteq Name /\ doubtful' \in [Mode -> SUBSET Name]
  <2>1. h.node \subseteq Name
    BY ONLY <1>11, <1>12 DEF Sound, Frontends
  <2>2. \A x \in Mode : \A D : Doubted(h, x, D) \subseteq Name
    BY ONLY <2>1 DEF Doubted
  <2> QED BY ONLY <1>7, <1>12, <2>1, <2>2
<1>14. ASSUME NEW x \in Mode
       PROVE  Tracks(h, x, doubtful'[x])
  <2>1. PICK E : \A y : y \in E <=> y \in doubtful[x] \/ (y \in Name /\ ~ (y \in h.node /\ h.used[x][y] \subseteq h.node))
    <3>1. PICK E : E = doubtful[x] \cup {y \in Name : ~ (y \in h.node /\ h.used[x][y] \subseteq h.node)}
      OBVIOUS
    <3> QED BY ONLY <3>1
  <2>2. Misses(h, x, E) /\ doubtful[x] \subseteq E
    BY ONLY <2>1 DEF Misses
  <2>3. Tracks(f, x, E)
    BY ONLY <1>1, <2>2, x \in Mode, TracksLess
  <2>4. Tracks(h, x, E)
    BY ONLY <1>7, <1>10, <1>12, <2>2, <2>3, x \in Mode DEF Clearing
  <2>5. Valid(h, x) \cap E \subseteq doubtful'[x]
    BY ONLY <1>7, <1>12, <2>1, x \in Mode DEF Doubted, Valid
  <2> QED BY ONLY <2>4, <2>5 DEF Tracks
<1>15. \A x \in Mode : Tracks(f', x, doubtful'[x])
  BY ONLY <1>12, <1>14
<1> QED BY ONLY <1>1, <1>7, <1>11, <1>13, <1>15 DEF SessionInv

-----------------------------------------------------------------------------
(* Theorems                                                                 *)

\* The invariant holds initially, and every call keeps it.
THEOREM SessionInvariant == SessionSpec => []SessionInv
<1>1. SessionInit => SessionInv
  <2> SUFFICES ASSUME SessionInit
               PROVE  SessionInv
    OBVIOUS
  <2>1. f = NewFrontend /\ pending = {} /\ doubtful = [m \in Mode |-> {}]
    BY DEF SessionInit
  <2>2. disk \in Disks
    <3>1. disk \in [Name -> UNION {Source[n] : n \in Name}] /\ \A n \in Name : disk[n] \in Source[n]
      BY DEF SessionInit
    <3>2. \A n \in Name : disk[n] \in (SUBSET Name) \cup {Absent}
      BY ONLY <3>1, SourceAssumption DEF SourceAssumption
    <3> QED BY ONLY <3>1, <3>2 DEF Disks
  <2>3. Sound(f, pending) /\ \A m \in Mode : Tracks(f, m, {})
    BY ONLY <2>1, NewSound
  <2>4. doubtful \in [Mode -> SUBSET Name] /\ \A m \in Mode : doubtful[m] = {}
    BY ONLY <2>1
  <2> QED BY ONLY <2>1, <2>2, <2>3, <2>4 DEF SessionInv
<1>2. SessionInv /\ [SessionNext]_sessionVars => SessionInv'
  <2> SUFFICES ASSUME SessionInv, [SessionNext]_sessionVars
               PROVE  SessionInv'
    OBVIOUS
  <2>1. ASSUME NEW n \in Name, Edit(n)
        PROVE  SessionInv'
    BY ONLY <2>1, SessionInv, EditPreserves
  <2>2. ASSUME NEW n \in Name, MarkDirty(n)
        PROVE  SessionInv'
    BY ONLY <2>2, SessionInv, MarkDirtyPreserves
  <2>3. ASSUME NEW n \in Name, NEW m \in Mode, Check(n, m)
        PROVE  SessionInv'
    BY ONLY <2>3, SessionInv, CheckPreserves
  <2>4. ASSUME NEW names \in Order, NEW k \in 1 .. Len(names), ClearModules(names, k)
        PROVE  SessionInv'
    BY ONLY <2>4, SessionInv, ClearModulesPreserves
  <2>5. CASE Clear
    BY ONLY <2>5, SessionInv, ClearPreserves
  <2>6. CASE UNCHANGED sessionVars
    BY <2>6 DEF sessionVars, SessionInv, Disks, Sound, Frontends, Linked, Known, Current, Tracks, Clean, Valid
  <2> QED BY <2>1, <2>2, <2>3, <2>4, <2>5, <2>6 DEF SessionNext
<1> QED BY <1>1, <1>2, PTL DEF SessionSpec

\* A module that is not dirty is made from its source, unless that changed without
\* notice, and from modules that are still there and not dirty either (markDirty,
\* Frontend.cpp:2165).
THEOREM CleanIsCurrentCorrect == SessionSpec => []CleanIsCurrent
<1>1. SessionInv => CleanIsCurrent
  <2> SUFFICES ASSUME SessionInv, NEW m \in Mode, NEW n \in f.node \ f.dirty[m]
               PROVE  /\ n \in f.resolver[m] /\ n \in pending \cup f.made[m]
                      /\ f.stale[m][n] = {} /\ f.used[m][n] \cap f.dirty[m] = {}
    BY DEF CleanIsCurrent
  <2>1. Current(f, pending) /\ n \in Clean(f, m)
    BY DEF SessionInv, Sound, Clean
  <2>2. /\ n \in f.resolver[m] /\ n \in pending \cup f.made[m] /\ f.stale[m][n] = {}
        /\ \A d \in f.used[m][n] : d \in Clean(f, m)
    BY ONLY <2>1, m \in Mode DEF Current
  <2> QED BY ONLY <2>2 DEF Clean
<1> QED BY <1>1, SessionInvariant, PTL

\* Dependents are nodes that require the module, and a clean module is a dependent of all
\* it was checked against (traverseDependents, Frontend.cpp:2203).
THEOREM DependentsMatchCorrect == SessionSpec => []DependentsMatch
<1>1. SessionInv => DependentsMatch
  <2> SUFFICES ASSUME SessionInv
               PROVE  DependentsMatch
    OBVIOUS
  <2>1. f \in Frontends /\ Linked(f) /\ Current(f, pending)
    BY DEF SessionInv, Sound
  <2>2. \A d \in Name : f.dependents[d] \subseteq {x \in f.node : d \in f.requires[x]}
    BY ONLY <2>1 DEF Linked
  <2>3. \A m \in Mode : \A n \in f.node \ f.dirty[m] : \A d \in f.used[m][n] : n \in f.dependents[d]
    BY ONLY <2>1 DEF Current, Clean
  <2> QED BY ONLY <2>2, <2>3 DEF DependentsMatch
<1> QED BY <1>1, SessionInvariant, PTL

\* A module whose dependencies are called valid is in the resolver, and what it refers to is
\* there, through however many modules, unless one of them is doubtful
\* (allModuleDependenciesValid, Frontend.cpp:2147).
THEOREM ValidIsCurrentCorrect == SessionSpec => []ValidIsCurrent
<1>1. SessionInv => ValidIsCurrent
  <2> SUFFICES ASSUME SessionInv, NEW m \in Mode
               PROVE  /\ f.node \ f.invalid[m] \subseteq f.resolver[m]
                      /\ \A n \in f.node \ f.invalid[m] :
                            (\A x \in Reached(n, f.used[m]) : x \notin doubtful[m]) =>
                                \A x \in Reached(n, f.used[m]) : f.stale[m][x] = {}
    BY DEF ValidIsCurrent
  <2>1. f \in Frontends /\ Known(f, pending) /\ Tracks(f, m, doubtful[m])
    BY DEF SessionInv, Sound
  <2>2. f.node \ f.invalid[m] \subseteq f.resolver[m]
    BY ONLY <2>1, m \in Mode DEF Known, Valid
  <2>3. ASSUME NEW n \in Valid(f, m), \A x \in Reached(n, f.used[m]) : x \notin doubtful[m]
        PROVE  \A x \in Reached(n, f.used[m]) : f.stale[m][x] = {}
    <3>1. \A x \in Valid(f, m) \ doubtful[m] : f.stale[m][x] = {} /\ f.used[m][x] \subseteq Valid(f, m)
      BY ONLY <2>1 DEF Tracks
    <3>2. f.used[m] \in [Name -> SUBSET Name] /\ Valid(f, m) \subseteq Name
      BY ONLY <2>1, m \in Mode DEF Frontends, Valid
    <3>3. Edges(f.used[m])
      BY ONLY <3>2 DEF Edges
    <3>4. PICK R : R = Reached(n, f.used[m])
      OBVIOUS
    <3>5. /\ R \subseteq Name /\ n \in R /\ \A d \in R : f.used[m][d] \subseteq R
          /\ \A S \in SUBSET Name : n \in S /\ (\A d \in S : f.used[m][d] \subseteq S) => R \subseteq S
      BY ONLY <2>3, <3>2, <3>3, <3>4, ReachedIs
    <3>6. R \subseteq Valid(f, m)
      <4>1. n \in R \cap Valid(f, m) /\ \A d \in R \cap Valid(f, m) : f.used[m][d] \subseteq R \cap Valid(f, m)
        BY ONLY <2>3, <3>1, <3>4, <3>5
      <4> QED BY ONLY <3>2, <3>5, <4>1
    <3> QED BY ONLY <2>3, <3>1, <3>4, <3>6
  <2> QED BY ONLY <2>2, <2>3 DEF Valid
<1> QED BY <1>1, SessionInvariant, PTL

=============================================================================
