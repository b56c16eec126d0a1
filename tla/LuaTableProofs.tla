---------------------------- MODULE LuaTableProofs ----------------------------
(***************************************************************************)
(* Theorems about LuaTable, for any keys, any hash and tables of any size. *)
(***************************************************************************)
EXTENDS TableAsMap, FiniteSetTheorems, WellFoundedInduction, TLAPS

-----------------------------------------------------------------------------
(* Induction over numbers, with the set of those that satisfy a formula     *)

\* A set of numbers has a least element.
LEMMA LeastNumber ==
  ASSUME NEW S, S \subseteq Nat, S # {}
  PROVE  \E m \in S : \A k \in S : m <= k
<1> DEFINE R == OpToRel(<, Nat)
<1>1. IsWellFoundedOn(R, Nat)
  BY NatLessThanWellFounded
<1>2. \A x, y \in Nat : <<x, y>> \in R <=> x < y
  BY DEF OpToRel
<1> HIDE DEF R
<1>3. PICK l \in S : \A k \in S : ~ (<<k, l>> \in R)
  BY <1>1, WFMin
<1>4. ASSUME NEW k \in S
      PROVE  l <= k
  <2>1. k \in Nat /\ l \in Nat /\ ~ (k < l)
    BY <1>2, <1>3
  <2> QED BY <2>1
<1> QED BY <1>4

\* A set of numbers up to n has a greatest element.
LEMMA GreatestNumber ==
  ASSUME NEW n \in Nat, NEW S, S \subseteq 0 .. n, S # {}
  PROVE  \E m \in S : \A k \in S : k <= m
<1> DEFINE U == {n - k : k \in S}
<1>1. U \subseteq Nat /\ U # {}
  <2>1. PICK k : k \in S
    OBVIOUS
  <2>2. n - k \in U
    BY <2>1
  <2>3. \A l \in S : n - l \in Nat
    OBVIOUS
  <2> QED BY <2>2, <2>3
<1>2. PICK l \in U : \A k \in U : l <= k
  <2> HIDE DEF U
  <2> QED BY <1>1, LeastNumber
<1>3. PICK m \in S : l = n - m
  OBVIOUS
<1>4. ASSUME NEW k \in S
      PROVE  k <= m
  <2>1. n - k \in U /\ k \in 0 .. n /\ m \in 0 .. n
    OBVIOUS
  <2>2. l <= n - k
    BY <1>2, <2>1
  <2> QED BY <1>3, <2>1, <2>2
<1> QED BY <1>4

\* What holds of 0 and is passed on holds up to N.
LEMMA UpTo ==
  ASSUME NEW N \in Nat, NEW S, 0 \in S, \A i \in 1 .. N : i - 1 \in S => i \in S
  PROVE  0 .. N \subseteq S
<1> SUFFICES ASSUME (0 .. N) \ S # {}
             PROVE  FALSE
  OBVIOUS
<1>1. PICK m \in (0 .. N) \ S : \A k \in (0 .. N) \ S : m <= k
  <2>1. (0 .. N) \ S \subseteq Nat
    OBVIOUS
  <2> QED BY <2>1, LeastNumber
<1>2. m \in 1 .. N
  BY <1>1
<1>3. m - 1 \in 0 .. N /\ ~ (m <= m - 1)
  BY <1>2
<1> QED BY <1>1, <1>2, <1>3

LEMMA DownFrom ==
  ASSUME NEW N \in Nat, NEW S, N \in S, \A i \in 0 .. (N - 1) : i + 1 \in S => i \in S
  PROVE  0 .. N \subseteq S
<1> SUFFICES ASSUME (0 .. N) \ S # {}
             PROVE  FALSE
  OBVIOUS
<1>1. PICK m \in (0 .. N) \ S : \A k \in (0 .. N) \ S : k <= m
  BY GreatestNumber
<1>2. m \in 0 .. (N - 1)
  BY <1>1
<1>3. m + 1 \in 0 .. N /\ ~ (m + 1 <= m)
  BY <1>2
<1> QED BY <1>1, <1>2, <1>3

\* A function may be defined from its value at 0 upwards.
Up(g, N, T, a, F) == g \in [0 .. N -> T] /\ g[0] = a /\ \A i \in 1 .. N : g[i] = F[i][g[i - 1]]

LEMMA RecursionUp ==
  ASSUME NEW N, NEW T, NEW a, NEW F, N \in Nat, a \in T, F \in [1 .. N -> [T -> T]]
  PROVE  \E g : Up(g, N, T, a, F)
<1> DEFINE Defines(n, g) == g[0] = a /\ \A i \in 1 .. n : g[i] = F[i][g[i - 1]]
           S == {n \in 0 .. N : \E g \in [0 .. n -> T] : Defines(n, g)}
<1>1. 0 \in S
  <2>1. [i \in 0 .. 0 |-> a] \in [0 .. 0 -> T] /\ Defines(0, [i \in 0 .. 0 |-> a])
    OBVIOUS
  <2>2. \E g \in [0 .. 0 -> T] : Defines(0, g)
    <3> HIDE DEF Defines
    <3> QED BY <2>1
  <2> QED BY <2>2
<1>2. ASSUME NEW n \in 1 .. N, n - 1 \in S
      PROVE  n \in S
  <2>1. PICK g \in [0 .. (n - 1) -> T] : Defines(n - 1, g)
    BY <1>2
  <2>2. g[n - 1] \in T /\ F[n] \in [T -> T]
    BY <2>1
  <2>3. F[n][g[n - 1]] \in T
    BY <2>2
  <2> DEFINE h == [i \in 0 .. n |-> IF i = n THEN F[n][g[n - 1]] ELSE g[i]]
  <2>4. h \in [0 .. n -> T]
    BY <2>1, <2>3
  <2>5. h[0] = a
    BY <2>1
  <2>6. ASSUME NEW i \in 1 .. n
        PROVE  h[i] = F[i][h[i - 1]]
    <3>1. h[i - 1] = g[i - 1]
      OBVIOUS
    <3>2. CASE i = n
      BY <3>1, <3>2
    <3>3. CASE i # n
      <4>1. i \in 1 .. (n - 1) /\ h[i] = g[i]
        BY <3>3
      <4> QED BY <2>1, <3>1, <4>1
    <3> QED BY <3>2, <3>3
  <2>7. Defines(n, h)
    BY <2>5, <2>6
  <2> HIDE DEF h, Defines
  <2>8. \E f \in [0 .. n -> T] : Defines(n, f)
    BY <2>4, <2>7
  <2> QED BY <2>8
<1> HIDE DEF S
<1>3. 0 .. N \subseteq S
  BY <1>1, <1>2, UpTo
<1>4. N \in S
  BY <1>3
<1> QED BY <1>4 DEF S, Up

\* Or from its value at N downwards.
Down(g, N, T, a, F) ==
    g \in [0 .. N -> T] /\ g[N] = a /\ \A i \in 0 .. (N - 1) : g[i] = F[i][g[i + 1]]

LEMMA RecursionDown ==
  ASSUME NEW N, NEW T, NEW a, NEW F, N \in Nat, a \in T, F \in [0 .. (N - 1) -> [T -> T]]
  PROVE  \E g : Down(g, N, T, a, F)
<1>0. PICK G : G = [i \in 1 .. N |-> F[N - i]]
  OBVIOUS
<1>1. G \in [1 .. N -> [T -> T]]
  <2>1. \A i \in 1 .. N : N - i \in 0 .. (N - 1)
    OBVIOUS
  <2>2. \A i \in 1 .. N : F[N - i] \in [T -> T]
    BY <2>1
  <2> QED BY <1>0, <2>2
<1>2. PICK h : Up(h, N, T, a, G)
  BY <1>1, RecursionUp
<1> DEFINE g == [i \in 0 .. N |-> h[N - i]]
<1>3. g \in [0 .. N -> T] /\ g[N] = a
  BY <1>2 DEF Up
<1>4. ASSUME NEW i \in 0 .. (N - 1)
      PROVE  g[i] = F[i][g[i + 1]]
  <2>1. N - i \in 1 .. N /\ G[N - i] = F[i] /\ g[i] = h[N - i] /\ g[i + 1] = h[(N - i) - 1]
    BY <1>0
  <2> QED BY <1>2, <2>1 DEF Up
<1>5. Down(g, N, T, a, F)
  BY <1>3, <1>4 DEF Down
<1> QED BY <1>5

-----------------------------------------------------------------------------
(* Nodes                                                                    *)

Node == [key : Key \cup {Nil}, dead : BOOLEAN, val : Value \cup {Nil}, next : Int]

\* The hash part nd has n nodes.
IsNodes(nd, n) ==
    /\ n \in Nat
    /\ n = 0 => nd = Dummy
    /\ n > 0 => nd \in [0 .. (n - 1) -> Node]

To(nd, p) == p + nd[p].next

Goes(nd, p) == nd[p].next # 0

\* The links are chains: a node has at most one before it, and they do not go round.
Ranked(nd, n, r) ==
    /\ r \in [0 .. (n - 1) -> Nat]
    /\ \A p \in 0 .. (n - 1) : Goes(nd, p) => r[p] < r[To(nd, p)]

Linked(nd, n) ==
    /\ \A p \in 0 .. (n - 1) : Goes(nd, p) => To(nd, p) \in 0 .. (n - 1) /\ nd[To(nd, p)].key # Nil
    /\ \A p, q \in 0 .. (n - 1) : Goes(nd, p) /\ Goes(nd, q) /\ To(nd, p) = To(nd, q) => p = q
    /\ \E r : Ranked(nd, n, r)

LEMMA NodeIs ==
  ASSUME NEW x, x \in Node
  PROVE  /\ x.key \in Key \cup {Nil} /\ x.dead \in BOOLEAN /\ x.val \in Value \cup {Nil}
         /\ x.next \in Int
BY DEF Node

LEMMA NodesAre ==
  ASSUME NEW nd, NEW n, IsNodes(nd, n)
  PROVE  /\ n \in Nat /\ DOMAIN nd = 0 .. (n - 1) /\ \A p \in 0 .. (n - 1) : nd[p] \in Node
         /\ nd = Dummy <=> n = 0
         /\ Cardinality(DOMAIN nd) = n
<1>1. n \in Nat
  BY DEF IsNodes
<1>2. CASE n = 0
  <2>1. nd = <<>>
    BY <1>2 DEF IsNodes, Dummy
  <2>2. DOMAIN nd = {}
    BY <2>1
  <2>3. 0 .. (n - 1) = {}
    BY <1>2
  <2> QED BY <1>2, <2>1, <2>2, <2>3, FS_EmptySet DEF Dummy
<1>3. CASE n > 0
  <2>1. nd \in [0 .. (n - 1) -> Node]
    BY <1>3 DEF IsNodes
  <2>2. DOMAIN nd = 0 .. (n - 1) /\ \A p \in 0 .. (n - 1) : nd[p] \in Node
    BY <2>1
  <2>3. 0 \in DOMAIN nd
    BY <1>1, <1>3, <2>2
  <2>4. nd # Dummy
    <3>1. DOMAIN <<>> = {}
      OBVIOUS
    <3> QED BY <2>3, <3>1 DEF Dummy
  <2>5. Cardinality(0 .. (n - 1)) = n
    <3>1. Cardinality(0 .. (n - 1)) = IF 0 > n - 1 THEN 0 ELSE (n - 1) - 0 + 1
      BY <1>1, FS_Interval
    <3> QED BY <1>1, <1>3, <3>1
  <2> QED BY <1>1, <1>3, <2>2, <2>4, <2>5
<1> QED BY <1>1, <1>2, <1>3

LEMMA ToIs ==
  ASSUME NEW nd, NEW n, NEW p, IsNodes(nd, n), Linked(nd, n), p \in 0 .. (n - 1), Goes(nd, p)
  PROVE  To(nd, p) \in 0 .. (n - 1) /\ nd[To(nd, p)].key # Nil /\ To(nd, p) # p
<1>1. nd[p].next \in Int /\ p \in Int
  BY NodesAre, NodeIs
<1>2. To(nd, p) \in 0 .. (n - 1) /\ nd[To(nd, p)].key # Nil
  BY DEF Linked
<1>3. p + nd[p].next # p
  BY <1>1 DEF Goes
<1> QED BY <1>2, <1>3 DEF To

LEMMA SeqIs ==
  ASSUME NEW s, NEW T, s \in Seq(T)
  PROVE  Len(s) \in Nat /\ DOMAIN s = 1 .. Len(s) /\ \A i \in 1 .. Len(s) : s[i] \in T
OBVIOUS

\* A walk along the links
Steps(nd, n, m, c) ==
    /\ c \in Seq(0 .. (n - 1)) /\ Len(c) >= 1 /\ c[1] = m
    /\ \A i \in 1 .. (Len(c) - 1) : Goes(nd, c[i]) /\ c[i + 1] = To(nd, c[i])

LEMMA StepsAre ==
  ASSUME NEW nd, NEW n, NEW m, NEW c, Steps(nd, n, m, c)
  PROVE  /\ Len(c) \in Nat /\ DOMAIN c = 1 .. Len(c) /\ Len(c) \in 1 .. Len(c)
         /\ \A i \in 1 .. Len(c) : c[i] \in 0 .. (n - 1)
<1>1. c \in Seq(0 .. (n - 1)) /\ Len(c) >= 1
  BY DEF Steps
<1>2. Len(c) \in Nat /\ DOMAIN c = 1 .. Len(c) /\ \A i \in 1 .. Len(c) : c[i] \in 0 .. (n - 1)
  BY <1>1, SeqIs
<1> QED BY <1>1, <1>2

LEMMA StepsRise ==
  ASSUME NEW nd, NEW n, NEW m, NEW c, NEW r, NEW i, NEW j,
         Steps(nd, n, m, c), Ranked(nd, n, r), i \in 1 .. Len(c), j \in 1 .. Len(c), i < j
  PROVE  r[c[i]] < r[c[j]]
<1>1. Len(c) \in Nat /\ \A k \in 1 .. Len(c) : c[k] \in 0 .. (n - 1)
  BY StepsAre
<1>2. \A k \in 1 .. Len(c) : r[c[k]] \in Nat
  BY <1>1 DEF Ranked
<1>3. \A k \in 1 .. (Len(c) - 1) : r[c[k]] < r[c[k + 1]]
  <2> TAKE k \in 1 .. (Len(c) - 1)
  <2>1. k \in 1 .. Len(c)
    BY <1>1
  <2>2. c[k] \in 0 .. (n - 1) /\ Goes(nd, c[k]) /\ c[k + 1] = To(nd, c[k])
    BY <1>1, <2>1 DEF Steps
  <2> QED BY <2>2 DEF Ranked
<1>4. PICK N : N = Len(c) - (i + 1)
  OBVIOUS
<1> DEFINE S == {d \in 0 .. N : r[c[i]] < r[c[i + 1 + d]]}
<1>5. N \in Nat /\ 0 \in S
  <2>1. i \in 1 .. (Len(c) - 1) /\ N \in Nat
    BY <1>1, <1>4
  <2> QED BY <1>3, <2>1
<1>6. ASSUME NEW d \in 1 .. N, d - 1 \in S
      PROVE  d \in S
  <2>1. r[c[i]] < r[c[i + d]]
    <3>1. i + 1 + (d - 1) = i + d
      OBVIOUS
    <3> QED BY <1>6, <3>1
  <2>2. i + d \in 1 .. (Len(c) - 1) /\ i + 1 + d = (i + d) + 1 /\ i + d \in 1 .. Len(c)
        /\ (i + d) + 1 \in 1 .. Len(c)
    BY <1>1, <1>4
  <2>3. r[c[i + d]] < r[c[(i + d) + 1]]
    BY <1>3, <2>2
  <2>4. r[c[i]] < r[c[(i + d) + 1]]
    BY <1>2, <2>1, <2>2, <2>3
  <2> QED BY <2>2, <2>4
<1> HIDE DEF S
<1>7. 0 .. N \subseteq S
  BY <1>5, <1>6, UpTo
<1>8. j - (i + 1) \in 0 .. N /\ i + 1 + (j - (i + 1)) = j
  BY <1>1, <1>4
<1>9. j - (i + 1) \in S
  BY <1>7, <1>8
<1> QED BY <1>8, <1>9 DEF S

LEMMA StepsGoOn ==
  ASSUME NEW nd, NEW n, NEW m, NEW c, IsNodes(nd, n), Linked(nd, n), Steps(nd, n, m, c),
         Goes(nd, c[Len(c)])
  PROVE  /\ Steps(nd, n, m, Append(c, To(nd, c[Len(c)])))
         /\ Len(Append(c, To(nd, c[Len(c)]))) = Len(c) + 1
<1> DEFINE x == To(nd, c[Len(c)])
           d == Append(c, x)
<1>1. /\ Len(c) \in Nat /\ Len(c) \in 1 .. Len(c) /\ c \in Seq(0 .. (n - 1)) /\ Len(c) >= 1 /\ c[1] = m
      /\ c[Len(c)] \in 0 .. (n - 1)
  BY StepsAre DEF Steps
<1>2. x \in 0 .. (n - 1)
  BY <1>1, ToIs
<1> HIDE DEF x
<1>3. /\ d \in Seq(0 .. (n - 1)) /\ Len(d) = Len(c) + 1
      /\ d[Len(c) + 1] = x /\ \A i \in 1 .. Len(c) : d[i] = c[i]
  BY <1>1, <1>2
<1> HIDE DEF d
<1>4. Len(d) >= 1 /\ d[1] = m
  BY <1>1, <1>3
<1>5. ASSUME NEW i \in 1 .. (Len(d) - 1)
      PROVE  Goes(nd, d[i]) /\ d[i + 1] = To(nd, d[i])
  <2>1. i \in 1 .. Len(c) /\ d[i] = c[i]
    BY <1>1, <1>3
  <2>2. CASE i = Len(c)
    <3>1. d[i + 1] = To(nd, c[Len(c)])
      BY <1>3, <2>2 DEF x
    <3> QED BY <2>1, <2>2, <3>1
  <2>3. CASE i # Len(c)
    <3>1. i \in 1 .. (Len(c) - 1) /\ i + 1 \in 1 .. Len(c)
      BY <1>1, <2>1, <2>3
    <3>2. d[i + 1] = c[i + 1]
      BY <1>3, <3>1
    <3> QED BY <2>1, <3>1, <3>2 DEF Steps
  <2> QED BY <2>2, <2>3
<1>6. Steps(nd, n, m, d)
  BY <1>3, <1>4, <1>5 DEF Steps
<1> QED BY <1>3, <1>6 DEF d, x

LEMMA StepsEnd ==
  ASSUME NEW nd, NEW n, NEW m, NEW c, IsNodes(nd, n), Linked(nd, n), Steps(nd, n, m, c),
         Len(c) = n
  PROVE  ~Goes(nd, c[Len(c)])
<1> SUFFICES ASSUME Goes(nd, c[Len(c)])
             PROVE  FALSE
  OBVIOUS
<1>1. PICK d : Steps(nd, n, m, d) /\ Len(d) = n + 1
  BY StepsGoOn
<1>2. PICK r : Ranked(nd, n, r)
  BY DEF Linked
<1>3. n \in Nat /\ \A i \in 1 .. (n + 1) : d[i] \in 0 .. (n - 1)
  BY <1>1, NodesAre, StepsAre
<1> DEFINE f == [i \in 1 .. (n + 1) |-> d[i]]
<1>4. f \in [1 .. (n + 1) -> 0 .. (n - 1)]
  BY <1>3
<1>5. /\ IsFiniteSet(1 .. (n + 1)) /\ IsFiniteSet(0 .. (n - 1))
      /\ Cardinality(0 .. (n - 1)) < Cardinality(1 .. (n + 1))
  <2>1. IsFiniteSet(1 .. (n + 1)) /\ Cardinality(1 .. (n + 1)) = IF 1 > n + 1 THEN 0 ELSE (n + 1) - 1 + 1
    BY <1>3, FS_Interval
  <2>2. IsFiniteSet(0 .. (n - 1)) /\ Cardinality(0 .. (n - 1)) = IF 0 > n - 1 THEN 0 ELSE (n - 1) - 0 + 1
    BY <1>3, FS_Interval
  <2> QED BY <1>3, <2>1, <2>2
<1>6. PICK i, j \in 1 .. (n + 1) : i # j /\ f[i] = f[j]
  <2> HIDE DEF f
  <2> QED BY <1>4, <1>5, FS_PigeonHole
<1>7. d[i] = d[j] /\ i \in 1 .. Len(d) /\ j \in 1 .. Len(d) /\ (i < j \/ j < i)
  BY <1>1, <1>3, <1>6
<1>8. r[d[i]] < r[d[j]] \/ r[d[j]] < r[d[i]]
  BY <1>1, <1>2, <1>7, StepsRise
<1>9. r[d[i]] \in Nat /\ r[d[j]] = r[d[i]]
  BY <1>2, <1>3, <1>6, <1>7 DEF Ranked
<1> QED BY <1>8, <1>9

\* Chain follows the links to their end.
Walk(nd, n, m, c) == Steps(nd, n, m, c) /\ ~Goes(nd, c[Len(c)])

LEMMA ChainIs ==
  ASSUME NEW t, NEW nd, NEW n, NEW m, nd = t.node, IsNodes(nd, n), Linked(nd, n), m \in 0 .. (n - 1)
  PROVE  Walk(nd, n, m, Chain(t, m))
<1>1. PICK N : N = n - 1
  OBVIOUS
<1>2. n \in Nat /\ N \in Nat /\ SizeNode(t) = n /\ SizeNode(t) - 1 = N /\ n = N + 1
  BY <1>1, NodesAre DEF SizeNode
<1> DEFINE Follow(c) == LET last == c[Len(c)]
                        IN IF nd[last].next = 0 THEN c ELSE Append(c, last + nd[last].next)
           T == {c \in Seq(0 .. (n - 1)) : Steps(nd, n, m, c)}
           F == [i \in 1 .. N |-> [c \in T |-> Follow(c)]]
           f == CHOOSE f : f = [i \in 0 .. N |-> IF i = 0 THEN <<m>> ELSE Follow(f[i - 1])]
<1>3. <<m>> \in T
  <2>1. <<m>> \in Seq(0 .. (n - 1)) /\ Len(<<m>>) = 1 /\ <<m>>[1] = m
    OBVIOUS
  <2> QED BY <2>1 DEF Steps
<1>4. ASSUME NEW c, Steps(nd, n, m, c)
      PROVE  /\ Steps(nd, n, m, Follow(c))
             /\ Goes(nd, c[Len(c)]) => Len(Follow(c)) = Len(c) + 1
             /\ ~Goes(nd, c[Len(c)]) => Follow(c) = c
  <2>1. CASE nd[c[Len(c)]].next = 0
    BY <1>4, <2>1 DEF Goes
  <2>2. CASE nd[c[Len(c)]].next # 0
    <3>1. Goes(nd, c[Len(c)])
      BY <2>2 DEF Goes
    <3>2. Follow(c) = Append(c, To(nd, c[Len(c)]))
      BY <2>2 DEF To
    <3> QED BY <1>4, <3>1, <3>2, StepsGoOn
  <2> QED BY <2>1, <2>2
<1> HIDE DEF Follow
<1>5. F \in [1 .. N -> [T -> T]]
  <2>1. \A c \in T : Follow(c) \in T
    BY <1>4 DEF Steps
  <2> HIDE DEF T
  <2> QED BY <2>1
<1>6. \E g : g = [i \in 0 .. N |-> IF i = 0 THEN <<m>> ELSE Follow(g[i - 1])]
  <2>1. PICK g : Up(g, N, T, <<m>>, F)
    <3> HIDE DEF T, F
    <3> QED BY <1>2, <1>3, <1>5, RecursionUp
  <2>2. \A i \in 1 .. N : g[i] = Follow(g[i - 1])
    <3> TAKE i \in 1 .. N
    <3>1. i - 1 \in 0 .. N /\ g[i - 1] \in T
      BY <1>2, <2>1 DEF Up
    <3>2. g[i] = F[i][g[i - 1]]
      BY <2>1 DEF Up
    <3> HIDE DEF T
    <3> QED BY <3>1, <3>2
  <2>3. g \in [0 .. N -> T] /\ g[0] = <<m>>
    BY <2>1 DEF Up
  <2> HIDE DEF T, F
  <2>4. g = [i \in 0 .. N |-> IF i = 0 THEN <<m>> ELSE Follow(g[i - 1])]
    <3>1. \A i \in 0 .. N : i = 0 \/ i \in 1 .. N
      BY <1>2
    <3>2. \A i \in 0 .. N : g[i] = IF i = 0 THEN <<m>> ELSE Follow(g[i - 1])
      BY <2>2, <2>3, <3>1
    <3>3. g = [i \in 0 .. N |-> g[i]]
      BY <2>3
    <3> QED BY <3>2, <3>3
  <2> QED BY <2>4
<1>7. f = [i \in 0 .. N |-> IF i = 0 THEN <<m>> ELSE Follow(f[i - 1])]
  <2> HIDE DEF T, F
  <2> QED BY <1>6, Zenon
<1>8. Chain(t, m) = f[N]
  BY <1>2 DEF Chain, Follow
<1> HIDE DEF f, F
<1> DEFINE S == {i \in 0 .. N : Steps(nd, n, m, f[i]) /\ (Goes(nd, f[i][Len(f[i])]) => Len(f[i]) = i + 1)}
<1>9. 0 \in S
  <2>1. f[0] = <<m>>
    BY <1>2, <1>7
  <2> QED BY <1>2, <1>3, <2>1
<1>10. ASSUME NEW i \in 1 .. N, i - 1 \in S
       PROVE  i \in S
  <2>1. f[i] = Follow(f[i - 1])
    BY <1>2, <1>7
  <2>2. PICK c : c = f[i - 1]
    OBVIOUS
  <2>3. Steps(nd, n, m, c) /\ (Goes(nd, c[Len(c)]) => Len(c) = (i - 1) + 1)
    BY <1>10, <2>2
  <2>4. Steps(nd, n, m, Follow(c))
    BY <1>4, <2>3
  <2>5. CASE Goes(nd, c[Len(c)])
    <3>1. Len(Follow(c)) = i + 1
      BY <1>4, <2>3, <2>5
    <3> QED BY <1>2, <2>1, <2>2, <2>4, <3>1
  <2>6. CASE ~Goes(nd, c[Len(c)])
    <3>1. Follow(c) = c
      BY <1>4, <2>3, <2>6
    <3> QED BY <1>2, <2>1, <2>2, <2>4, <2>6, <3>1
  <2> QED BY <2>5, <2>6
<1> HIDE DEF S
<1>11. 0 .. N \subseteq S
  BY <1>2, <1>9, <1>10, UpTo
<1>12. N \in S
  BY <1>2, <1>11
<1>13. PICK c : c = f[N]
  OBVIOUS
<1>14. Steps(nd, n, m, c) /\ (Goes(nd, c[Len(c)]) => Len(c) = n)
  BY <1>2, <1>12, <1>13 DEF S
<1>15. ~Goes(nd, c[Len(c)])
  BY <1>14, StepsEnd
<1> QED BY <1>8, <1>13, <1>14, <1>15 DEF Walk

-----------------------------------------------------------------------------
(* The hash part                                                            *)

Closed(nd, S) == \A q \in S : Goes(nd, q) => To(nd, q) \in S

\* The chain that begins at m passes p.
Reach(nd, n, m, p) == \A S \in SUBSET (0 .. (n - 1)) : m \in S /\ Closed(nd, S) => p \in S

Home(n, k) == Hash[k] % n

\* A key is in the chain of its main position, which has a key that belongs there.
Settled(nd, n, p) ==
    /\ Reach(nd, n, Home(n, nd[p].key), p)
    /\ nd[Home(n, nd[p].key)].key # Nil
    /\ Home(n, nd[Home(n, nd[p].key)].key) = Home(n, nd[p].key)

HasKey(nd, p, k) == nd[p].key = k /\ ~nd[p].dead

HashInv(nd, n) ==
    /\ IsNodes(nd, n) /\ Linked(nd, n)
    /\ \A p \in 0 .. (n - 1) : nd[p].key = Nil => nd[p] = Empty
    /\ \A p \in 0 .. (n - 1) : nd[p].dead => nd[p].val = Nil
    /\ \A p \in 0 .. (n - 1) : nd[p].key # Nil => Settled(nd, n, p)
    /\ \A p, q \in 0 .. (n - 1) : \A k \in Key : HasKey(nd, p, k) /\ HasKey(nd, q, k) => p = q

LEMMA HomeIs ==
  ASSUME NEW n, NEW k, n \in Nat, n > 0, k \in Key
  PROVE  Home(n, k) \in 0 .. (n - 1)
<1>1. PICK h : h = Hash[k]
  OBVIOUS
<1>2. h \in Nat
  BY <1>1, TableAssumption
<1>3. h % n \in 0 .. (n - 1)
  BY <1>2
<1> QED BY <1>1, <1>3 DEF Home

LEMMA KeyIs ==
  ASSUME NEW nd, NEW n, NEW p, IsNodes(nd, n), p \in 0 .. (n - 1), nd[p].key # Nil
  PROVE  nd[p].key \in Key /\ n \in Nat /\ n > 0 /\ Home(n, nd[p].key) \in 0 .. (n - 1)
<1>1. nd[p] \in Node /\ n \in Nat
  BY NodesAre
<1>2. nd[p].key \in Key /\ n > 0
  BY <1>1, NodeIs
<1> QED BY <1>1, <1>2, HomeIs

LEMMA NilIsNoKey ==
  /\ Nil \notin Key /\ Nil \notin Value /\ NotFound \notin Int /\ End \notin Int /\ Nil \notin Int
  /\ \A k \in Key : k \in Int <=> k \in 1 .. MaxKey
BY TableAssumption DEF Key, IntKey

LEMMA WalkReaches ==
  ASSUME NEW nd, NEW n, NEW m, NEW c, NEW p, Walk(nd, n, m, c), Reach(nd, n, m, p)
  PROVE  \E i \in 1 .. Len(c) : c[i] = p
<1> DEFINE S == {c[i] : i \in 1 .. Len(c)}
<1>1. Steps(nd, n, m, c) /\ ~Goes(nd, c[Len(c)])
  BY DEF Walk
<1>2. /\ Len(c) \in Nat /\ Len(c) \in 1 .. Len(c) /\ \A i \in 1 .. Len(c) : c[i] \in 0 .. (n - 1)
      /\ c[1] = m
      /\ \A i \in 1 .. (Len(c) - 1) : c[i + 1] = To(nd, c[i])
  BY <1>1, StepsAre DEF Steps
<1>3. S \in SUBSET (0 .. (n - 1)) /\ m \in S
  <2>1. 1 \in 1 .. Len(c)
    BY <1>2
  <2> QED BY <1>2, <2>1
<1>4. ASSUME NEW q \in S, Goes(nd, q)
      PROVE  To(nd, q) \in S
  <2>1. PICK i \in 1 .. Len(c) : q = c[i]
    OBVIOUS
  <2>2. i # Len(c)
    BY <1>1, <1>4, <2>1
  <2>3. i \in 1 .. (Len(c) - 1) /\ i + 1 \in 1 .. Len(c)
    BY <1>2, <2>2
  <2> QED BY <1>2, <2>1, <2>3
<1> HIDE DEF S
<1>5. p \in S
  BY <1>3, <1>4 DEF Reach, Closed
<1> QED BY <1>5 DEF S

\* The first position in S of a walk
First(c, S, p) ==
    \E i \in 1 .. Len(c) : c[i] = p /\ p \in S /\ \A j \in 1 .. Len(c) : c[j] \in S => i <= j

LEMMA SearchIs ==
  ASSUME NEW t, NEW n, NEW k, NEW S, IsNodes(t.node, n), Linked(t.node, n), n > 0, k \in Key
  PROVE  LET c == Chain(t, Home(n, k)) IN
         /\ Walk(t.node, n, Home(n, k), c)
         /\ (\A i \in 1 .. Len(c) : c[i] \notin S) => Search(t, k, S) = NotFound
         /\ (\E i \in 1 .. Len(c) : c[i] \in S) => First(c, S, Search(t, k, S))
<1>1. PICK nd : nd = t.node
  OBVIOUS
<1>2. n \in Nat /\ nd # Dummy /\ SizeNode(t) = n /\ Home(n, k) \in 0 .. (n - 1)
  BY <1>1, NodesAre, HomeIs DEF SizeNode
<1>3. PICK c : c = Chain(t, Home(n, k))
  OBVIOUS
<1>4. Walk(nd, n, Home(n, k), c)
  BY <1>1, <1>2, <1>3, ChainIs
<1>5. Len(c) \in Nat /\ DOMAIN c = 1 .. Len(c)
  BY <1>4, StepsAre DEF Walk
<1> DEFINE hits == {i \in DOMAIN c : c[i] \in S}
<1>6. Search(t, k, S) = IF hits = {} THEN NotFound ELSE c[CHOOSE i \in hits : \A j \in hits : i <= j]
  BY <1>1, <1>2, <1>3 DEF Search, MainPosition, Home
<1>7. ASSUME \A i \in 1 .. Len(c) : c[i] \notin S
      PROVE  Search(t, k, S) = NotFound
  BY <1>5, <1>6, <1>7
<1>8. ASSUME \E i \in 1 .. Len(c) : c[i] \in S
      PROVE  First(c, S, Search(t, k, S))
  <2>1. hits # {} /\ hits \subseteq Nat
    BY <1>5, <1>8
  <2> HIDE DEF hits
  <2>2. \E i \in hits : \A j \in hits : i <= j
    BY <2>1, LeastNumber
  <2>3. PICK i : i = CHOOSE l \in hits : \A j \in hits : l <= j
    OBVIOUS
  <2>4. i \in hits /\ \A j \in hits : i <= j
    BY <2>2, <2>3
  <2>5. Search(t, k, S) = c[i]
    BY <1>6, <2>1, <2>3
  <2>6. i \in 1 .. Len(c) /\ c[i] \in S /\ \A j \in 1 .. Len(c) : c[j] \in S => i <= j
    BY <1>5, <2>4 DEF hits
  <2> QED BY <2>5, <2>6 DEF First
<1> QED BY <1>1, <1>3, <1>4, <1>7, <1>8

LEMMA NodeOfIs ==
  ASSUME NEW t, NEW n, NEW k, HashInv(t.node, n), k \in Key
  PROVE  /\ \A p \in 0 .. (n - 1) : HasKey(t.node, p, k) => NodeOf(t, k) = p
         /\ (\A p \in 0 .. (n - 1) : ~HasKey(t.node, p, k)) => NodeOf(t, k) = NotFound
<1>1. PICK nd : nd = t.node
  OBVIOUS
<1>2. HashInv(nd, n) /\ IsNodes(nd, n) /\ Linked(nd, n) /\ n \in Nat /\ DOMAIN nd = 0 .. (n - 1)
  BY <1>1, NodesAre DEF HashInv
<1> DEFINE S == {p \in DOMAIN nd : HasKey(nd, p, k)}
<1>3. NodeOf(t, k) = Search(t, k, S)
  BY <1>1 DEF NodeOf, Holds, HasKey
<1>4. CASE n = 0
  <2>1. nd = Dummy
    BY <1>2, <1>4, NodesAre
  <2>2. 0 .. (n - 1) = {}
    BY <1>4
  <2> QED BY <1>1, <1>3, <2>1, <2>2 DEF Search
<1>5. CASE n > 0
  <2>1. PICK c : c = Chain(t, Home(n, k))
    OBVIOUS
  <2>2. /\ Walk(nd, n, Home(n, k), c)
        /\ (\A i \in 1 .. Len(c) : c[i] \notin S) => Search(t, k, S) = NotFound
        /\ (\E i \in 1 .. Len(c) : c[i] \in S) => First(c, S, Search(t, k, S))
    <3> HIDE DEF S
    <3> QED BY <1>1, <1>2, <1>5, <2>1, SearchIs
  <2>3. ASSUME NEW p \in 0 .. (n - 1), HasKey(nd, p, k)
        PROVE  NodeOf(t, k) = p
    <3>1. nd[p].key = k /\ k # Nil
      BY <2>3, NilIsNoKey DEF HasKey
    <3>2. Reach(nd, n, Home(n, k), p)
      BY <1>2, <3>1 DEF HashInv, Settled
    <3>3. \E i \in 1 .. Len(c) : c[i] = p
      BY <2>2, <3>2, WalkReaches
    <3>4. p \in S
      BY <1>2, <2>3
    <3>5. Search(t, k, S) \in S
      BY <2>2, <3>3, <3>4 DEF First
    <3>6. \A q \in S : q = p
      BY <1>2, <2>3 DEF HashInv
    <3> QED BY <1>3, <3>5, <3>6
  <2>4. ASSUME \A p \in 0 .. (n - 1) : ~HasKey(nd, p, k)
        PROVE  NodeOf(t, k) = NotFound
    <3>1. S = {}
      BY <1>2, <2>4
    <3> QED BY <1>3, <2>2, <3>1
  <2> QED BY <1>1, <2>3, <2>4
<1> QED BY <1>2, <1>4, <1>5

\* What does not touch the links keeps the chains.
LEMMA LinksKept ==
  ASSUME NEW nd, NEW nd2, NEW n, IsNodes(nd, n), IsNodes(nd2, n), Linked(nd, n),
         \A p \in 0 .. (n - 1) : nd2[p].next = nd[p].next /\ (nd[p].key # Nil => nd2[p].key # Nil)
  PROVE  /\ Linked(nd2, n)
         /\ \A m, p : Reach(nd, n, m, p) => Reach(nd2, n, m, p)
<1>1. \A p \in 0 .. (n - 1) : (Goes(nd2, p) <=> Goes(nd, p)) /\ To(nd2, p) = To(nd, p)
  BY DEF Goes, To
<1>2. PICK r : Ranked(nd, n, r)
  BY DEF Linked
<1>3. Ranked(nd2, n, r)
  BY <1>1, <1>2 DEF Ranked
<1>4. Linked(nd2, n)
  <2>1. ASSUME NEW p \in 0 .. (n - 1), Goes(nd2, p)
        PROVE  To(nd2, p) \in 0 .. (n - 1) /\ nd2[To(nd2, p)].key # Nil
    BY <1>1, <2>1, ToIs
  <2>2. ASSUME NEW p \in 0 .. (n - 1), NEW q \in 0 .. (n - 1), Goes(nd2, p), Goes(nd2, q), To(nd2, p) = To(nd2, q)
        PROVE  p = q
    BY <1>1, <2>2 DEF Linked
  <2> QED BY <1>3, <2>1, <2>2 DEF Linked
<1>5. ASSUME NEW m, NEW p, Reach(nd, n, m, p)
      PROVE  Reach(nd2, n, m, p)
  <2>1. \A S \in SUBSET (0 .. (n - 1)) : Closed(nd2, S) => Closed(nd, S)
    BY <1>1 DEF Closed
  <2> QED BY <1>5, <2>1 DEF Reach
<1> QED BY <1>4, <1>5

LEMMA ReachSelf ==
  ASSUME NEW nd, NEW n, NEW m
  PROVE  Reach(nd, n, m, m)
BY DEF Reach

\* A chain goes one way.
LEMMA ReachOnward ==
  ASSUME NEW nd, NEW n, NEW g, NEW q, NEW p, IsNodes(nd, n), Linked(nd, n), Ranked(nd, n, g), q \in 0 .. (n - 1),
         Reach(nd, n, q, p)
  PROVE  p = q \/ (p \in 0 .. (n - 1) /\ g[q] < g[p])
<1> DEFINE S == {s \in 0 .. (n - 1) : s = q \/ g[q] < g[s]}
<1>1. \A s \in 0 .. (n - 1) : g[s] \in Nat
  BY DEF Ranked
<1>2. ASSUME NEW s \in S, Goes(nd, s)
      PROVE  To(nd, s) \in S
  <2>1. To(nd, s) \in 0 .. (n - 1)
    BY <1>2, ToIs
  <2>2. g[s] < g[To(nd, s)]
    BY <1>2 DEF Ranked
  <2> QED BY ONLY <1>1, <2>1, <2>2, s \in S, q \in 0 .. (n - 1)
<1>3. q \in S /\ S \in SUBSET (0 .. (n - 1))
  OBVIOUS
<1> HIDE DEF S
<1>4. p \in S
  BY ONLY <1>2, <1>3, Reach(nd, n, q, p) DEF Reach, Closed
<1> QED BY ONLY <1>4 DEF S

LEMMA ReachOneWay ==
  ASSUME NEW nd, NEW n, NEW q, NEW r, IsNodes(nd, n), Linked(nd, n), q \in 0 .. (n - 1), r \in 0 .. (n - 1),
         Reach(nd, n, q, r), Reach(nd, n, r, q)
  PROVE  q = r
<1>1. PICK g : Ranked(nd, n, g)
  BY DEF Linked
<1>2. r = q \/ g[q] < g[r]
  BY ONLY <1>1, IsNodes(nd, n), Linked(nd, n), q \in 0 .. (n - 1), Reach(nd, n, q, r), ReachOnward
<1>3. q = r \/ g[r] < g[q]
  BY ONLY <1>1, IsNodes(nd, n), Linked(nd, n), r \in 0 .. (n - 1), Reach(nd, n, r, q), ReachOnward
<1>4. g[q] \in Nat /\ g[r] \in Nat
  BY <1>1 DEF Ranked
<1> QED BY ONLY <1>2, <1>3, <1>4

\* What became of the entries when key k was inserted at p with the value v
Inserted(nd, nd2, n, k, p) ==
    /\ p \in 0 .. (n - 1) /\ HasKey(nd2, p, k) /\ nd2[p].val = Nil
    /\ \A q \in 0 .. (n - 1) : \A x \in Key \ {k} : HasKey(nd, q, x) /\ nd[q].val # Nil =>
          \E q2 \in 0 .. (n - 1) : HasKey(nd2, q2, x) /\ nd2[q2].val = nd[q].val
    /\ \A q2 \in 0 .. (n - 1) : \A x \in Key \ {k} : HasKey(nd2, q2, x) =>
          \E q \in 0 .. (n - 1) : HasKey(nd, q, x) /\ nd[q].val = nd2[q2].val
    /\ \A q \in 0 .. (n - 1) : nd[q].key # Nil => nd2[q].key # Nil
    /\ (\A q \in 0 .. (n - 1) : ~nd[q].dead) => \A q \in 0 .. (n - 1) : ~nd2[q].dead

LEMMA NewNode ==
  ASSUME NEW k, NEW d, k \in Key, d \in Int
  PROVE  /\ WithKey(k, d) \in Node /\ WithKey(k, d).key = k /\ ~WithKey(k, d).dead
         /\ WithKey(k, d).val = Nil /\ WithKey(k, d).next = d
BY DEF WithKey, Node

\* One key, or two objects at the same address, of which one is gone
Alike(x, y) == x = y \/ (x \in Obj /\ y \in Obj /\ Address[x] = Address[y])

LEMMA AlikeHash ==
  ASSUME NEW x, NEW y, x \in Key, y \in Key, Alike(x, y)
  PROVE  Hash[x] = Hash[y] /\ Alike(y, x)
BY TableAssumption DEF Alike

\* Only objects die.  A live key comes before all keys like it in its chain.
Orderly(nd, n) ==
    /\ \A p \in 0 .. (n - 1) : nd[p].dead => nd[p].key \in Obj
    /\ \A q, r \in 0 .. (n - 1) :
          q # r /\ nd[q].key # Nil /\ ~nd[q].dead /\ nd[r].key # Nil /\ Alike(nd[r].key, nd[q].key)
              => Reach(nd, n, q, r)

\* No live key is like k.
Alone(nd, n, k) == \A q \in 0 .. (n - 1) : nd[q].key # Nil /\ ~nd[q].dead => ~Alike(nd[q].key, k)

\* Where nodes came from when key k was inserted at p: node q was g[q], and nodes come in the
\* same order; k is before dead keys like it.
Placed(nd, nd2, n, k, p, g) ==
    /\ p \in 0 .. (n - 1) /\ nd2[p].key = k /\ ~nd2[p].dead
    /\ \A q \in 0 .. (n - 1) : q # p /\ nd2[q].key # Nil =>
          g[q] \in 0 .. (n - 1) /\ nd[g[q]].key = nd2[q].key /\ nd[g[q]].dead = nd2[q].dead
    /\ \A q, r \in 0 .. (n - 1) : q # p /\ r # p /\ q # r /\ nd2[q].key # Nil /\ nd2[r].key # Nil =>
          g[q] # g[r] /\ (Reach(nd, n, g[q], g[r]) => Reach(nd2, n, q, r))
    /\ \A r \in 0 .. (n - 1) : r # p /\ nd2[r].key # Nil /\ nd2[r].dead /\ Alike(nd2[r].key, k) =>
          Reach(nd2, n, p, r)

LEMMA PlacedOrder ==
  ASSUME NEW nd, NEW nd2, NEW n, NEW k, NEW p, NEW g, Orderly(nd, n), Alone(nd, n, k), IsNodes(nd2, n),
         Placed(nd, nd2, n, k, p, g), k \in Key, HashInv(nd2, n)
  PROVE  Orderly(nd2, n)
<1>1. ASSUME NEW q \in 0 .. (n - 1), nd2[q].dead
      PROVE  nd2[q].key \in Obj
  <2>1. q # p /\ nd2[q].key # Nil
    BY <1>1 DEF Placed, HashInv, Empty
  <2>2. g[q] \in 0 .. (n - 1) /\ nd[g[q]].key = nd2[q].key /\ nd[g[q]].dead
    BY ONLY <1>1, <2>1, Placed(nd, nd2, n, k, p, g), q \in 0 .. (n - 1) DEF Placed
  <2> QED BY ONLY <2>2, Orderly(nd, n) DEF Orderly
<1>2. ASSUME NEW q \in 0 .. (n - 1), NEW r \in 0 .. (n - 1), q # r, nd2[q].key # Nil, ~nd2[q].dead,
             nd2[r].key # Nil, Alike(nd2[r].key, nd2[q].key)
      PROVE  Reach(nd2, n, q, r)
  <2>1. nd2[q].key \in Key /\ nd2[r].key \in Key
    BY ONLY <1>2, IsNodes(nd2, n), q \in 0 .. (n - 1), r \in 0 .. (n - 1), KeyIs
  <2>2. ASSUME NEW l \in 0 .. (n - 1), l # p, nd2[l].key # Nil, ~nd2[l].dead, nd2[l].key \in Key,
               Alike(nd2[l].key, k) \/ Alike(k, nd2[l].key)
        PROVE  FALSE
    <3>1. PICK s : s = g[l]
      OBVIOUS
    <3>2. s \in 0 .. (n - 1) /\ nd[s].key = nd2[l].key /\ ~nd[s].dead
      BY ONLY <2>2, <3>1, Placed(nd, nd2, n, k, p, g), l \in 0 .. (n - 1) DEF Placed
    <3>3. Alike(nd[s].key, k)
      BY ONLY <2>2, <3>2, k \in Key, AlikeHash
    <3> QED BY ONLY <2>2, <3>2, <3>3, Alone(nd, n, k) DEF Alone
  <2>3. nd2[p].key = k
    BY DEF Placed
  <2>4. CASE q = p
    <3>1. r # p /\ Alike(nd2[r].key, k)
      BY ONLY <1>2, <2>3, <2>4
    <3>2. nd2[r].dead
      BY ONLY <1>2, <2>1, <2>2, <3>1, r \in 0 .. (n - 1)
    <3> QED BY ONLY <1>2, <2>4, <3>1, <3>2, Placed(nd, nd2, n, k, p, g), r \in 0 .. (n - 1) DEF Placed
  <2>5. CASE q # p
    <3>1. r # p
      BY ONLY <1>2, <2>1, <2>2, <2>3, <2>5, q \in 0 .. (n - 1)
    <3>2. /\ g[q] \in 0 .. (n - 1) /\ nd[g[q]].key = nd2[q].key /\ nd[g[q]].dead = nd2[q].dead
          /\ g[r] \in 0 .. (n - 1) /\ nd[g[r]].key = nd2[r].key
          /\ g[q] # g[r] /\ (Reach(nd, n, g[q], g[r]) => Reach(nd2, n, q, r))
      BY ONLY <1>2, <2>5, <3>1, Placed(nd, nd2, n, k, p, g), q \in 0 .. (n - 1), r \in 0 .. (n - 1) DEF Placed
    <3>3. Reach(nd, n, g[q], g[r])
      BY ONLY <1>2, <3>2, Orderly(nd, n) DEF Orderly
    <3> QED BY ONLY <3>2, <3>3
  <2> QED BY ONLY <2>4, <2>5
<1> QED BY ONLY <1>1, <1>2 DEF Orderly

\* The main position of k has a key that belongs there.
HomeTaken(nd, n, k) == Home(n, nd[Home(n, k)].key) = Home(n, k)

\* A key like k is in the chain of the main position of k.
LEMMA AlikeHome ==
  ASSUME NEW nd, NEW n, NEW k, NEW r, HashInv(nd, n), k \in Key, r \in 0 .. (n - 1), nd[r].key # Nil,
         Alike(nd[r].key, k)
  PROVE  Reach(nd, n, Home(n, k), r) /\ HomeTaken(nd, n, k)
<1>1. IsNodes(nd, n) /\ Settled(nd, n, r)
  BY DEF HashInv
<1>2. nd[r].key \in Key
  BY ONLY <1>1, r \in 0 .. (n - 1), nd[r].key # Nil, KeyIs
<1>3. Hash[nd[r].key] = Hash[k]
  BY ONLY <1>2, k \in Key, Alike(nd[r].key, k), AlikeHash
<1>4. Home(n, nd[r].key) = Home(n, k)
  BY ONLY <1>3 DEF Home
<1> QED BY ONLY <1>1, <1>4 DEF Settled, HomeTaken

\* The main position of k has no value: k goes there.
LEMMA TakesMain ==
  ASSUME NEW nd, NEW nd2, NEW n, NEW k, NEW mp, HashInv(nd, n), n > 0, k \in Key,
         \A p \in 0 .. (n - 1) : ~HasKey(nd, p, k),
         mp = Home(n, k), nd[mp].val = Nil, nd2 = [nd EXCEPT ![mp] = WithKey(k, @.next)]
  PROVE  HashInv(nd2, n) /\ Inserted(nd, nd2, n, k, mp) /\ \E g : Placed(nd, nd2, n, k, mp, g)
<1>1. IsNodes(nd, n) /\ Linked(nd, n) /\ n \in Nat /\ mp \in 0 .. (n - 1) /\ nd \in [0 .. (n - 1) -> Node]
  BY HomeIs DEF HashInv, IsNodes
<1>2. nd[mp].next \in Int /\ k # Nil
  BY <1>1, NodeIs, NilIsNoKey
<1>3. PICK e : e = WithKey(k, nd[mp].next)
  OBVIOUS
<1>4. e \in Node /\ e.key = k /\ ~e.dead /\ e.val = Nil /\ e.next = nd[mp].next
  BY <1>2, <1>3, NewNode
<1>5. nd2 \in [0 .. (n - 1) -> Node] /\ nd2[mp] = e /\ \A p \in 0 .. (n - 1) : p # mp => nd2[p] = nd[p]
  BY <1>1, <1>3, <1>4
<1>6. IsNodes(nd2, n)
  BY <1>1, <1>5 DEF IsNodes
<1>7. \A p \in 0 .. (n - 1) : nd2[p].next = nd[p].next /\ (nd[p].key # Nil => nd2[p].key # Nil)
  BY <1>2, <1>4, <1>5
<1>8. Linked(nd2, n) /\ \A m, p : Reach(nd, n, m, p) => Reach(nd2, n, m, p)
  BY <1>1, <1>6, <1>7, LinksKept
<1>9. \A p \in 0 .. (n - 1) : nd2[p].key = Nil => nd2[p] = Empty
  BY <1>2, <1>4, <1>5 DEF HashInv
<1>10. \A p \in 0 .. (n - 1) : nd2[p].dead => nd2[p].val = Nil
  BY <1>4, <1>5 DEF HashInv
<1>11. ASSUME NEW p \in 0 .. (n - 1), nd2[p].key # Nil
       PROVE  Settled(nd2, n, p)
  <2>1. CASE p = mp
    <3>1. nd2[p].key = k /\ Home(n, nd2[p].key) = mp
      BY <1>4, <1>5, <2>1
    <3> QED BY <1>2, <2>1, <3>1, ReachSelf DEF Settled
  <2>2. CASE p # mp
    <3>1. nd2[p] = nd[p] /\ Settled(nd, n, p)
      BY <1>5, <1>11, <2>2 DEF HashInv
    <3>2. PICK m : m = Home(n, nd[p].key)
      OBVIOUS
    <3>3. Reach(nd, n, m, p) /\ nd[m].key # Nil /\ Home(n, nd[m].key) = m /\ m \in 0 .. (n - 1)
      BY <1>1, <1>11, <3>1, <3>2, KeyIs DEF Settled
    <3>4. nd2[m].key # Nil /\ Home(n, nd2[m].key) = m
      BY <1>2, <1>4, <1>5, <3>3
    <3> QED BY <1>8, <3>1, <3>2, <3>3, <3>4 DEF Settled
  <2> QED BY <2>1, <2>2
<1>12. ASSUME NEW p \in 0 .. (n - 1), NEW q \in 0 .. (n - 1), NEW x \in Key, HasKey(nd2, p, x), HasKey(nd2, q, x)
       PROVE  p = q
  <2>1. \A l \in 0 .. (n - 1) : l # mp /\ HasKey(nd2, l, x) => HasKey(nd, l, x)
    BY <1>5 DEF HasKey
  <2>2. HasKey(nd2, mp, x) => x = k
    BY <1>4, <1>5 DEF HasKey
  <2> QED BY <1>12, <2>1, <2>2 DEF HashInv
<1>13. HashInv(nd2, n)
  BY <1>6, <1>8, <1>9, <1>10, <1>11, <1>12 DEF HashInv
<1>14. HasKey(nd2, mp, k) /\ nd2[mp].val = Nil
  BY <1>4, <1>5 DEF HasKey
<1>15. ASSUME NEW q \in 0 .. (n - 1), NEW x \in Key \ {k}, HasKey(nd, q, x), nd[q].val # Nil
       PROVE  HasKey(nd2, q, x) /\ nd2[q].val = nd[q].val
  BY <1>5, <1>15 DEF HasKey
<1>16. ASSUME NEW q \in 0 .. (n - 1), NEW x \in Key \ {k}, HasKey(nd2, q, x)
       PROVE  HasKey(nd, q, x) /\ nd[q].val = nd2[q].val
  BY <1>4, <1>5, <1>16 DEF HasKey
<1>17. Inserted(nd, nd2, n, k, mp)
  <2>1. (\A q \in 0 .. (n - 1) : ~nd[q].dead) => \A q \in 0 .. (n - 1) : ~nd2[q].dead
    BY <1>4, <1>5
  <2> QED BY <1>1, <1>7, <1>14, <1>15, <1>16, <2>1 DEF Inserted
<1>18. PICK g : g = [q \in 0 .. (n - 1) |-> q]
  OBVIOUS
<1>19. \A q \in 0 .. (n - 1) : g[q] = q
  BY ONLY <1>18
<1>20. ASSUME NEW r \in 0 .. (n - 1), r # mp, nd2[r].key # Nil, Alike(nd2[r].key, k)
       PROVE  Reach(nd2, n, mp, r)
  <2>1. nd2[r] = nd[r]
    BY ONLY <1>5, <1>20
  <2>2. Reach(nd, n, mp, r)
    BY ONLY <1>20, <2>1, HashInv(nd, n), k \in Key, mp = Home(n, k), AlikeHome
  <2> QED BY ONLY <1>8, <2>2
<1>21. Placed(nd, nd2, n, k, mp, g)
  BY ONLY <1>1, <1>4, <1>5, <1>8, <1>19, <1>20 DEF Placed
<1> QED BY <1>13, <1>17, <1>21

\* Node f, which was free, is linked in after node a.
NewLink(nd, nd2, n, a, f) ==
    /\ IsNodes(nd, n) /\ IsNodes(nd2, n) /\ Linked(nd, n)
    /\ a \in 0 .. (n - 1) /\ f \in 0 .. (n - 1) /\ f # a /\ nd[f].key = Nil /\ ~Goes(nd, f)
    /\ Goes(nd2, a) /\ To(nd2, a) = f /\ (Goes(nd2, f) <=> Goes(nd, a))
    /\ Goes(nd, a) => To(nd2, f) = To(nd, a)
    /\ nd2[f].key # Nil
    /\ \A p \in 0 .. (n - 1) : nd[p].key # Nil => nd2[p].key # Nil
    /\ \A p \in 0 .. (n - 1) : p # a /\ p # f => nd2[p].next = nd[p].next

LEMMA LinkAfter ==
  ASSUME NEW nd, NEW nd2, NEW n, NEW a, NEW f, NewLink(nd, nd2, n, a, f)
  PROVE  /\ Linked(nd2, n)
         /\ \A m, p : Reach(nd, n, m, p) => Reach(nd2, n, m, p)
         /\ Reach(nd2, n, a, f)
         /\ \A p : Reach(nd, n, a, p) /\ p # a => Reach(nd2, n, f, p)
<1> USE DEF NewLink
<1>1. \A p \in 0 .. (n - 1) : p # a /\ p # f => (Goes(nd2, p) <=> Goes(nd, p)) /\ To(nd2, p) = To(nd, p)
  BY DEF Goes, To
<1>2. \A p \in 0 .. (n - 1) : Goes(nd, p) => /\ To(nd, p) \in 0 .. (n - 1) /\ nd[To(nd, p)].key # Nil
                                            /\ To(nd, p) # f /\ p # f
  BY ToIs
<1>3. \A p \in 0 .. (n - 1) : p # a /\ Goes(nd, a) /\ Goes(nd, p) => To(nd, p) # To(nd, a)
  BY DEF Linked
<1>4. PICK r : Ranked(nd, n, r)
  BY DEF Linked
<1>5. r \in [0 .. (n - 1) -> Nat] /\ \A p \in 0 .. (n - 1) : Goes(nd, p) => r[p] < r[To(nd, p)]
  BY <1>4 DEF Ranked
<1> DEFINE s == [p \in 0 .. (n - 1) |-> IF p = f THEN 2 * r[a] + 1 ELSE 2 * r[p]]
<1>6. s \in [0 .. (n - 1) -> Nat]
  <2>1. \A p \in 0 .. (n - 1) : r[p] \in Nat
    BY <1>5
  <2> QED BY <2>1
<1>7. ASSUME NEW p \in 0 .. (n - 1), Goes(nd2, p)
      PROVE  s[p] < s[To(nd2, p)]
  <2>1. r[p] \in Nat /\ r[a] \in Nat
    BY <1>5
  <2>2. CASE p = a
    BY <2>1, <2>2
  <2>3. CASE p = f
    <3>1. Goes(nd, a) /\ To(nd2, p) = To(nd, a)
      BY <1>7, <2>3
    <3>2. PICK q : q = To(nd, a)
      OBVIOUS
    <3>3. q \in 0 .. (n - 1) /\ q # f /\ r[a] < r[q] /\ r[q] \in Nat
      BY <1>2, <1>5, <3>1, <3>2
    <3>4. s[q] = 2 * r[q] /\ s[p] = 2 * r[a] + 1
      BY <2>3, <3>3
    <3> QED BY <2>1, <3>1, <3>2, <3>3, <3>4
  <2>4. CASE p # a /\ p # f
    <3>1. Goes(nd, p) /\ To(nd2, p) = To(nd, p)
      BY <1>1, <1>7, <2>4
    <3>2. PICK q : q = To(nd, p)
      OBVIOUS
    <3>3. q \in 0 .. (n - 1) /\ q # f /\ r[p] < r[q] /\ r[q] \in Nat
      BY <1>2, <1>5, <3>1, <3>2
    <3>4. s[q] = 2 * r[q] /\ s[p] = 2 * r[p]
      BY <2>4, <3>3
    <3> QED BY <2>1, <3>1, <3>2, <3>3, <3>4
  <2> QED BY <2>2, <2>3, <2>4
<1> HIDE DEF s
<1>8. Ranked(nd2, n, s)
  BY <1>6, <1>7 DEF Ranked
<1>9. ASSUME NEW p \in 0 .. (n - 1), Goes(nd2, p)
      PROVE  To(nd2, p) \in 0 .. (n - 1) /\ nd2[To(nd2, p)].key # Nil
  BY <1>1, <1>2, <1>9
<1>10. ASSUME NEW p \in 0 .. (n - 1), NEW q \in 0 .. (n - 1), Goes(nd2, p), Goes(nd2, q), To(nd2, p) = To(nd2, q)
       PROVE  p = q
  <2>1. CASE p # a /\ p # f /\ q # a /\ q # f
    BY <1>1, <1>10, <2>1 DEF Linked
  <2>2. CASE p = a \/ q = a
    BY <1>1, <1>2, <1>10, <2>2
  <2>3. CASE p # a /\ q # a /\ (p = f \/ q = f)
    BY <1>1, <1>3, <1>10, <2>3
  <2> QED BY <2>1, <2>2, <2>3
<1>11. Linked(nd2, n)
  BY <1>8, <1>9, <1>10 DEF Linked
<1>12. ASSUME NEW m, NEW p, Reach(nd, n, m, p)
       PROVE  Reach(nd2, n, m, p)
  <2>1. ASSUME NEW S \in SUBSET (0 .. (n - 1)), Closed(nd2, S), NEW q \in S, Goes(nd, q)
        PROVE  To(nd, q) \in S
    <3>1. CASE q = a
      <4>1. f \in S
        BY <2>1, <3>1 DEF Closed
      <4>2. To(nd2, f) \in S
        BY <2>1, <3>1, <4>1 DEF Closed
      <4> QED BY <2>1, <3>1, <4>2
    <3>2. CASE q # a
      <4>1. q \in 0 .. (n - 1) /\ q # f
        BY <1>2, <2>1
      <4>2. Goes(nd2, q) /\ To(nd2, q) = To(nd, q)
        BY <1>1, <2>1, <3>2, <4>1
      <4> QED BY <2>1, <4>2 DEF Closed
    <3> QED BY <3>1, <3>2
  <2>2. \A S \in SUBSET (0 .. (n - 1)) : Closed(nd2, S) => Closed(nd, S)
    BY <2>1 DEF Closed
  <2> QED BY <1>12, <2>2 DEF Reach
<1>13. Reach(nd2, n, a, f)
  BY DEF Reach, Closed
<1>14. ASSUME NEW p, Reach(nd, n, a, p), p # a
       PROVE  Reach(nd2, n, f, p)
  <2>1. ASSUME NEW S \in SUBSET (0 .. (n - 1)), Closed(nd2, S), f \in S
        PROVE  p \in S
    <3> DEFINE U == S \cup {a}
    <3>1. ASSUME NEW q \in U, Goes(nd, q)
          PROVE  To(nd, q) \in U
      <4>1. CASE q = a
        <5>1. To(nd2, f) \in S
          BY <2>1, <3>1, <4>1 DEF Closed
        <5> QED BY <3>1, <4>1, <5>1
      <4>2. CASE q # a
        <5>1. q \in S /\ q \in 0 .. (n - 1) /\ q # f
          BY <1>2, <3>1, <4>2
        <5>2. Goes(nd2, q) /\ To(nd2, q) = To(nd, q)
          BY <1>1, <3>1, <4>2, <5>1
        <5> QED BY <2>1, <5>1, <5>2 DEF Closed
      <4> QED BY <4>1, <4>2
    <3>2. U \in SUBSET (0 .. (n - 1)) /\ a \in U /\ Closed(nd, U)
      BY <3>1 DEF Closed
    <3>3. p \in U
      <4> HIDE DEF U
      <4> QED BY ONLY <1>14, <3>2 DEF Reach
    <3> QED BY <1>14, <3>3
  <2> QED BY <2>1 DEF Reach
<1> QED BY <1>11, <1>12, <1>13, <1>14

\* Node f, which was free, takes the place of node mp after node prev; mp is cut off.
MovedLink(nd, nd2, n, prev, mp, f) ==
    /\ IsNodes(nd, n) /\ IsNodes(nd2, n) /\ Linked(nd, n)
    /\ prev \in 0 .. (n - 1) /\ mp \in 0 .. (n - 1) /\ f \in 0 .. (n - 1) /\ f # mp
    /\ nd[f].key = Nil /\ ~Goes(nd, f) /\ Goes(nd, prev) /\ To(nd, prev) = mp
    /\ Goes(nd2, prev) /\ To(nd2, prev) = f /\ (Goes(nd2, f) <=> Goes(nd, mp))
    /\ Goes(nd, mp) => To(nd2, f) = To(nd, mp)
    /\ nd2[f].key # Nil /\ ~Goes(nd2, mp)
    /\ \A p \in 0 .. (n - 1) : nd[p].key # Nil => nd2[p].key # Nil
    /\ \A p \in 0 .. (n - 1) : p # prev /\ p # mp /\ p # f => nd2[p].next = nd[p].next

LEMMA LinkMoves ==
  ASSUME NEW nd, NEW nd2, NEW n, NEW prev, NEW mp, NEW f, MovedLink(nd, nd2, n, prev, mp, f)
  PROVE  /\ Linked(nd2, n)
         /\ \A m, p : Reach(nd, n, m, p) /\ m # mp /\ p # mp => Reach(nd2, n, m, p)
         /\ \A m : Reach(nd, n, m, mp) /\ m # mp => Reach(nd2, n, m, f)
         /\ \A p : Reach(nd, n, mp, p) /\ p # mp => Reach(nd2, n, f, p)
<1> USE DEF MovedLink
<1>1. \A p \in 0 .. (n - 1) : p # prev /\ p # mp /\ p # f =>
          (Goes(nd2, p) <=> Goes(nd, p)) /\ To(nd2, p) = To(nd, p)
  BY DEF Goes, To
<1>2. \A p \in 0 .. (n - 1) : Goes(nd, p) => /\ To(nd, p) \in 0 .. (n - 1) /\ nd[To(nd, p)].key # Nil
                                            /\ To(nd, p) # f /\ p # f /\ To(nd, p) # p
  BY ToIs
<1>3. \A p, q \in 0 .. (n - 1) : Goes(nd, p) /\ Goes(nd, q) /\ To(nd, p) = To(nd, q) => p = q
  BY DEF Linked
<1>4. PICK r : Ranked(nd, n, r)
  BY DEF Linked
<1>5. r \in [0 .. (n - 1) -> Nat] /\ \A p \in 0 .. (n - 1) : Goes(nd, p) => r[p] < r[To(nd, p)]
  BY <1>4 DEF Ranked
<1>6. prev # mp /\ prev # f
  BY <1>2
<1> DEFINE s == [p \in 0 .. (n - 1) |-> IF p = f THEN r[mp] ELSE r[p]]
<1>7. s \in [0 .. (n - 1) -> Nat]
  BY <1>5
<1>8. ASSUME NEW p \in 0 .. (n - 1), Goes(nd2, p)
      PROVE  s[p] < s[To(nd2, p)]
  <2>1. CASE p = prev
    <3>1. r[prev] < r[mp]
      BY <1>5
    <3> QED BY <1>6, <2>1, <3>1
  <2>2. CASE p = f
    <3>1. Goes(nd, mp) /\ To(nd2, p) = To(nd, mp)
      BY <1>8, <2>2
    <3> QED BY <1>2, <1>5, <2>2, <3>1
  <2>3. CASE p # prev /\ p # f
    <3>1. p # mp
      BY <1>8
    <3>2. Goes(nd, p) /\ To(nd2, p) = To(nd, p)
      BY <1>1, <1>8, <2>3, <3>1
    <3> QED BY <1>2, <1>5, <2>3, <3>2
  <2> QED BY <2>1, <2>2, <2>3
<1> HIDE DEF s
<1>9. Ranked(nd2, n, s)
  BY <1>7, <1>8 DEF Ranked
<1>10. ASSUME NEW p \in 0 .. (n - 1), Goes(nd2, p)
       PROVE  To(nd2, p) \in 0 .. (n - 1) /\ nd2[To(nd2, p)].key # Nil
  BY <1>1, <1>2, <1>10
<1>11. ASSUME NEW p \in 0 .. (n - 1), NEW q \in 0 .. (n - 1), Goes(nd2, p), Goes(nd2, q), To(nd2, p) = To(nd2, q)
       PROVE  p = q
  <2>1. p # mp /\ q # mp
    BY <1>11
  <2>2. CASE p # prev /\ p # f /\ q # prev /\ q # f
    BY <1>1, <1>3, <1>11, <2>1, <2>2
  <2>3. CASE p = prev \/ q = prev
    BY <1>1, <1>2, <1>11, <2>1, <2>3
  <2>4. CASE p # prev /\ q # prev /\ (p = f \/ q = f)
    BY <1>1, <1>3, <1>11, <2>1, <2>4
  <2> QED BY <2>2, <2>3, <2>4
<1>12. Linked(nd2, n)
  BY <1>9, <1>10, <1>11 DEF Linked
<1>13. ASSUME NEW S \in SUBSET (0 .. (n - 1)), Closed(nd2, S)
       PROVE  Closed(nd, (S \ {mp}) \cup {q \in {mp} : f \in S})
  <2> DEFINE U == (S \ {mp}) \cup {q \in {mp} : f \in S}
  <2>1. ASSUME NEW q \in U, Goes(nd, q)
        PROVE  To(nd, q) \in U
    <3>1. q \in 0 .. (n - 1) /\ q # f
      BY <1>2, <2>1
    <3>2. CASE q = mp
      <4>1. f \in S
        BY <3>2
      <4>2. To(nd2, f) \in S
        BY <1>13, <2>1, <3>2, <4>1 DEF Closed
      <4> QED BY <1>2, <2>1, <3>2, <4>2
    <3>3. CASE q = prev
      <4>1. f \in S
        BY <1>6, <1>13, <3>3 DEF Closed
      <4> QED BY <3>3, <4>1
    <3>4. CASE q # mp /\ q # prev
      <4>1. q \in S /\ Goes(nd2, q) /\ To(nd2, q) = To(nd, q)
        BY <1>1, <2>1, <3>1, <3>4
      <4>2. To(nd, q) \in S
        BY <1>13, <4>1 DEF Closed
      <4>3. To(nd, q) # mp
        BY <1>3, <2>1, <3>1, <3>4
      <4> QED BY <4>2, <4>3
    <3> QED BY <3>2, <3>3, <3>4
  <2> QED BY <2>1 DEF Closed
<1>14. ASSUME NEW m, NEW p, Reach(nd, n, m, p), m # mp, NEW S \in SUBSET (0 .. (n - 1)), m \in S, Closed(nd2, S)
       PROVE  (p # mp => p \in S) /\ (p = mp => f \in S)
  <2> DEFINE U == (S \ {mp}) \cup {q \in {mp} : f \in S}
  <2>1. Closed(nd, U) /\ U \in SUBSET (0 .. (n - 1)) /\ m \in U
    BY <1>13, <1>14
  <2>2. p \in U
    <3> HIDE DEF U
    <3> QED BY <1>14, <2>1 DEF Reach
  <2> QED BY <2>2
<1>15. \A m, p : Reach(nd, n, m, p) /\ m # mp /\ p # mp => Reach(nd2, n, m, p)
  BY <1>14 DEF Reach
<1>16. ASSUME NEW m, Reach(nd, n, m, mp), m # mp
       PROVE  Reach(nd2, n, m, f)
  <2>1. \A S \in SUBSET (0 .. (n - 1)) : m \in S /\ Closed(nd2, S) => f \in S
    BY <1>14, <1>16
  <2> QED BY <2>1 DEF Reach
<1>17. ASSUME NEW p, Reach(nd, n, mp, p), p # mp
       PROVE  Reach(nd2, n, f, p)
  <2>1. ASSUME NEW S \in SUBSET (0 .. (n - 1)), Closed(nd2, S), f \in S
        PROVE  p \in S
    <3> DEFINE U == S \cup {mp}
    <3>1. ASSUME NEW q \in U, Goes(nd, q)
          PROVE  To(nd, q) \in U
      <4>1. CASE q = mp
        <5>1. To(nd2, f) \in S
          BY <2>1, <3>1, <4>1 DEF Closed
        <5> QED BY <3>1, <4>1, <5>1
      <4>2. CASE q = prev
        BY <4>2
      <4>3. CASE q # mp /\ q # prev
        <5>1. q \in S /\ q \in 0 .. (n - 1) /\ q # f
          BY <1>2, <3>1, <4>3
        <5>2. Goes(nd2, q) /\ To(nd2, q) = To(nd, q)
          BY <1>1, <3>1, <4>3, <5>1
        <5> QED BY <2>1, <5>1, <5>2 DEF Closed
      <4> QED BY <4>1, <4>2, <4>3
    <3>2. U \in SUBSET (0 .. (n - 1)) /\ mp \in U /\ Closed(nd, U)
      BY <3>1 DEF Closed
    <3>3. p \in U
      <4> HIDE DEF U
      <4> QED BY ONLY <1>17, <3>2 DEF Reach
    <3> QED BY <1>17, <3>3
  <2> QED BY <2>1 DEF Reach
<1> QED BY <1>12, <1>15, <1>16, <1>17

\* The main position of k is taken by a key that belongs there: k goes to f, after it.
WithChained(nd, k, mp, f) ==
    [nd EXCEPT ![f] = WithKey(k, IF nd[mp].next = 0 THEN 0 ELSE (mp + nd[mp].next) - f),
               ![mp].next = f - mp]

LEMMA ChainsOn ==
  ASSUME NEW nd, NEW nd2, NEW n, NEW k, NEW mp, NEW f, HashInv(nd, n), n > 0, k \in Key,
         \A p \in 0 .. (n - 1) : ~HasKey(nd, p, k),
         mp = Home(n, k), nd[mp].val # Nil, Home(n, nd[mp].key) = mp, f \in 0 .. (n - 1), nd[f].key = Nil,
         nd2 = WithChained(nd, k, mp, f)
  PROVE  HashInv(nd2, n) /\ Inserted(nd, nd2, n, k, f) /\ \E g : Placed(nd, nd2, n, k, f, g)
<1>1. IsNodes(nd, n) /\ Linked(nd, n) /\ n \in Nat /\ mp \in 0 .. (n - 1) /\ nd \in [0 .. (n - 1) -> Node]
  BY HomeIs DEF HashInv, IsNodes
<1>2. /\ nd[mp].next \in Int /\ k # Nil /\ nd[mp] \in Node /\ nd[f] = Empty
      /\ nd[mp].key # Nil /\ f # mp /\ ~nd[mp].dead
  <2>1. nd[f] = Empty /\ nd[mp].key # Nil /\ (nd[mp].dead => nd[mp].val = Nil)
    BY <1>1 DEF HashInv, Empty
  <2> QED BY <1>1, <2>1, NodeIs, NilIsNoKey
<1>3. PICK d : d = IF nd[mp].next = 0 THEN 0 ELSE (mp + nd[mp].next) - f
  OBVIOUS
<1>4. PICK e : e = WithKey(k, d)
  OBVIOUS
<1>5. d \in Int /\ e \in Node /\ e.key = k /\ ~e.dead /\ e.val = Nil /\ e.next = d
  <2>1. d \in Int
    BY <1>1, <1>2, <1>3
  <2> QED BY <1>4, <2>1, NewNode
<1>6. PICK b : b = [nd[mp] EXCEPT !.next = f - mp]
  OBVIOUS
<1>7. b \in Node /\ b.key = nd[mp].key /\ b.dead = nd[mp].dead /\ b.val = nd[mp].val /\ b.next = f - mp
  BY <1>1, <1>2, <1>6 DEF Node
<1>8. nd2 = [nd EXCEPT ![f] = e, ![mp] = b]
  BY <1>1, <1>2, <1>3, <1>4, <1>6 DEF WithChained
<1>9. /\ nd2 \in [0 .. (n - 1) -> Node] /\ nd2[f] = e /\ nd2[mp] = b
      /\ \A p \in 0 .. (n - 1) : p # mp /\ p # f => nd2[p] = nd[p]
  BY <1>1, <1>2, <1>5, <1>7, <1>8
<1>10. IsNodes(nd2, n)
  BY <1>1, <1>9 DEF IsNodes
<1>11. \A p \in 0 .. (n - 1) : p # f => nd2[p].key = nd[p].key /\ nd2[p].dead = nd[p].dead /\ nd2[p].val = nd[p].val
  BY <1>7, <1>9
<1>12. \A p \in 0 .. (n - 1) : nd[p].key # Nil => p # f /\ nd2[p].key # Nil
  BY <1>11
<1>13. /\ Goes(nd2, mp) /\ To(nd2, mp) = f /\ ~Goes(nd, f)
       /\ Goes(nd2, f) <=> Goes(nd, mp)
       /\ Goes(nd, mp) => To(nd2, f) = To(nd, mp)
  <2>1. nd2[mp].next = f - mp /\ nd2[f].next = d /\ nd[f].next = 0
    BY <1>2, <1>5, <1>7, <1>9 DEF Empty
  <2>2. nd[mp].next # 0 => mp + nd[mp].next # f
    <3>1. Goes(nd, mp) => nd[To(nd, mp)].key # Nil
      BY <1>1, ToIs
    <3> QED BY <3>1 DEF Goes, To
  <2>3. PICK x : x = nd[mp].next
    OBVIOUS
  <2>4. x \in Int /\ mp \in Int /\ f \in Int
    BY <1>1, <1>2, <2>3
  <2>5. CASE x = 0
    BY <1>2, <1>3, <2>1, <2>3, <2>4, <2>5 DEF Goes, To
  <2>6. CASE x # 0
    <3>1. d = (mp + x) - f /\ mp + x # f
      BY <1>3, <2>2, <2>3, <2>6
    <3>2. d # 0 /\ f + d = mp + x /\ f - mp # 0 /\ mp + (f - mp) = f
      BY <1>2, <2>4, <3>1
    <3> QED BY <2>1, <2>3, <2>6, <3>2 DEF Goes, To
  <2> QED BY <2>5, <2>6
<1>14. nd2[f].key # Nil /\ \A p \in 0 .. (n - 1) : p # mp /\ p # f => nd2[p].next = nd[p].next
  BY <1>2, <1>5, <1>9
<1>15. /\ Linked(nd2, n) /\ (\A m, p : Reach(nd, n, m, p) => Reach(nd2, n, m, p)) /\ Reach(nd2, n, mp, f)
       /\ \A p : Reach(nd, n, mp, p) /\ p # mp => Reach(nd2, n, f, p)
  <2>1. \A p \in 0 .. (n - 1) : nd[p].key # Nil => nd2[p].key # Nil
    BY <1>12
  <2>2. NewLink(nd, nd2, n, mp, f)
    BY <1>1, <1>2, <1>10, <1>13, <1>14, <2>1 DEF NewLink
  <2>3. Linked(nd2, n)
    BY ONLY <2>2, LinkAfter
  <2>4. \A m, p : Reach(nd, n, m, p) => Reach(nd2, n, m, p)
    BY ONLY <2>2, LinkAfter
  <2>5. Reach(nd2, n, mp, f)
    BY ONLY <2>2, LinkAfter
  <2>6. \A p : Reach(nd, n, mp, p) /\ p # mp => Reach(nd2, n, f, p)
    BY ONLY <2>2, LinkAfter
  <2> QED BY ONLY <2>3, <2>4, <2>5, <2>6
<1>16. \A p \in 0 .. (n - 1) : nd2[p].key = Nil => nd2[p] = Empty
  BY <1>2, <1>7, <1>9, <1>14 DEF HashInv
<1>17. \A p \in 0 .. (n - 1) : nd2[p].dead => nd2[p].val = Nil
  BY <1>5, <1>9, <1>11 DEF HashInv
<1>18. ASSUME NEW p \in 0 .. (n - 1), nd2[p].key # Nil
       PROVE  Settled(nd2, n, p)
  <2>1. CASE p = f
    <3>1. nd2[p].key = k /\ Home(n, nd2[p].key) = mp /\ nd2[mp].key = nd[mp].key
      BY <1>5, <1>7, <1>9, <2>1
    <3> QED BY <1>2, <1>15, <2>1, <3>1 DEF Settled
  <2>2. CASE p # f
    <3>1. nd2[p].key = nd[p].key /\ nd[p].key # Nil /\ Settled(nd, n, p)
      BY <1>11, <1>18, <2>2 DEF HashInv
    <3>2. PICK m : m = Home(n, nd[p].key)
      OBVIOUS
    <3>3. Reach(nd, n, m, p) /\ nd[m].key # Nil /\ Home(n, nd[m].key) = m /\ m \in 0 .. (n - 1)
      BY <1>1, <3>1, <3>2, KeyIs DEF Settled
    <3>4. nd2[m].key = nd[m].key
      BY <1>11, <1>12, <3>3
    <3> QED BY <1>15, <3>1, <3>2, <3>3, <3>4 DEF Settled
  <2> QED BY <2>1, <2>2
<1>19. \A l \in 0 .. (n - 1) : \A x : l # f => (HasKey(nd2, l, x) <=> HasKey(nd, l, x))
  BY <1>11 DEF HasKey
<1>20. \A x : HasKey(nd2, f, x) <=> x = k
  BY <1>5, <1>9 DEF HasKey
<1>21. \A x \in Key : ~HasKey(nd, f, x)
  BY NilIsNoKey DEF HasKey
<1>22. ASSUME NEW p \in 0 .. (n - 1), NEW q \in 0 .. (n - 1), NEW x \in Key, HasKey(nd2, p, x), HasKey(nd2, q, x)
       PROVE  p = q
  <2>1. CASE x = k
    <3>1. \A l \in 0 .. (n - 1) : HasKey(nd2, l, x) => l = f
      BY <1>19, <2>1
    <3> QED BY <1>22, <3>1
  <2>2. CASE x # k
    <3>1. HasKey(nd, p, x) /\ HasKey(nd, q, x)
      BY <1>19, <1>20, <1>22, <2>2
    <3> QED BY <3>1 DEF HashInv
  <2> QED BY <2>1, <2>2
<1>23. HashInv(nd2, n)
  BY <1>10, <1>15, <1>16, <1>17, <1>18, <1>22 DEF HashInv
<1>24. HasKey(nd2, f, k) /\ nd2[f].val = Nil
  BY <1>5, <1>9, <1>20
<1>25. ASSUME NEW q \in 0 .. (n - 1), NEW x \in Key \ {k}, HasKey(nd, q, x), nd[q].val # Nil
       PROVE  HasKey(nd2, q, x) /\ nd2[q].val = nd[q].val
  BY <1>11, <1>19, <1>21, <1>25
<1>26. ASSUME NEW q \in 0 .. (n - 1), NEW x \in Key \ {k}, HasKey(nd2, q, x)
       PROVE  HasKey(nd, q, x) /\ nd[q].val = nd2[q].val
  BY <1>11, <1>19, <1>20, <1>26
<1>27. Inserted(nd, nd2, n, k, f)
  <2>1. (\A q \in 0 .. (n - 1) : ~nd[q].dead) => \A q \in 0 .. (n - 1) : ~nd2[q].dead
    BY <1>5, <1>9, <1>11
  <2> QED BY <1>12, <1>24, <1>25, <1>26, <2>1 DEF Inserted
<1>28. PICK g : g = [q \in 0 .. (n - 1) |-> q]
  OBVIOUS
<1>29. \A q \in 0 .. (n - 1) : g[q] = q
  BY ONLY <1>28
<1>30. ASSUME NEW r \in 0 .. (n - 1), r # f, nd2[r].key # Nil, nd2[r].dead, Alike(nd2[r].key, k)
       PROVE  Reach(nd2, n, f, r)
  <2>1. nd2[r].key = nd[r].key /\ nd[r].dead
    BY ONLY <1>11, <1>30
  <2>2. Reach(nd, n, mp, r)
    BY ONLY <1>30, <2>1, HashInv(nd, n), k \in Key, mp = Home(n, k), AlikeHome
  <2>3. r # mp
    BY ONLY <1>2, <2>1
  <2> QED BY ONLY <1>15, <2>2, <2>3
<1>31. nd2[f].key = k /\ ~nd2[f].dead
  BY ONLY <1>5, <1>9
<1>32. Placed(nd, nd2, n, k, f, g)
  BY ONLY <1>11, <1>15, <1>29, <1>30, <1>31, f \in 0 .. (n - 1) DEF Placed
<1> QED BY <1>23, <1>27, <1>32

\* The main position of k is taken by a key y that does not belong there: y moves to f.
LEMMA MovesOut ==
  ASSUME NEW nd, NEW nd2, NEW n, NEW k, NEW mp, NEW prev, NEW f, HashInv(nd, n), n > 0, k \in Key,
         \A p \in 0 .. (n - 1) : ~HasKey(nd, p, k),
         mp = Home(n, k), nd[mp].val # Nil, Home(n, nd[mp].key) # mp, f \in 0 .. (n - 1), nd[f].key = Nil,
         prev \in 0 .. (n - 1), Goes(nd, prev), To(nd, prev) = mp,
         nd2 = [nd EXCEPT ![prev].next = f - prev,
                          ![f] = [nd[mp] EXCEPT !.next = IF @ = 0 THEN 0 ELSE @ + (mp - f)],
                          ![mp] = WithKey(k, 0)]
  PROVE  /\ HashInv(nd2, n) /\ Inserted(nd, nd2, n, k, mp) /\ nd2[f].key # Nil
         /\ \E g : Placed(nd, nd2, n, k, mp, g)
<1>1. IsNodes(nd, n) /\ Linked(nd, n) /\ n \in Nat /\ mp \in 0 .. (n - 1) /\ nd \in [0 .. (n - 1) -> Node]
  BY HomeIs DEF HashInv, IsNodes
<1>2. /\ nd[mp].next \in Int /\ k # Nil /\ nd[mp] \in Node /\ nd[f] = Empty
      /\ nd[mp].key # Nil /\ f # mp /\ ~nd[mp].dead
  <2>1. nd[f] = Empty /\ nd[mp].key # Nil /\ (nd[mp].dead => nd[mp].val = Nil)
    BY <1>1 DEF HashInv, Empty
  <2> QED BY <1>1, <2>1, NodeIs, NilIsNoKey
<1>3. /\ nd[prev] \in Node /\ prev # mp /\ prev # f
  <2>1. ~Goes(nd, f)
    BY <1>2 DEF Goes, Empty
  <2> QED BY <1>1, <2>1, ToIs
<1>4. PICK e : e = WithKey(k, 0)
  OBVIOUS
<1>5. e \in Node /\ e.key = k /\ ~e.dead /\ e.val = Nil /\ e.next = 0
  BY <1>4, NewNode
<1>6. PICK y : y = [nd[mp] EXCEPT !.next = IF @ = 0 THEN 0 ELSE @ + (mp - f)]
  OBVIOUS
<1>7. /\ y \in Node /\ y.key = nd[mp].key /\ y.dead = nd[mp].dead /\ y.val = nd[mp].val
      /\ y.next = IF nd[mp].next = 0 THEN 0 ELSE nd[mp].next + (mp - f)
  <2>1. PICK d : d = IF nd[mp].next = 0 THEN 0 ELSE nd[mp].next + (mp - f)
    OBVIOUS
  <2>2. d \in Int
    BY <1>1, <1>2, <2>1
  <2>3. y = [nd[mp] EXCEPT !.next = d]
    BY <1>1, <1>2, <1>6, <2>1
  <2>4. y \in Node /\ y.key = nd[mp].key /\ y.dead = nd[mp].dead /\ y.val = nd[mp].val /\ y.next = d
    BY <1>2, <2>2, <2>3 DEF Node
  <2> QED BY <2>1, <2>4
<1>8. PICK b : b = [nd[prev] EXCEPT !.next = f - prev]
  OBVIOUS
<1>9. b \in Node /\ b.key = nd[prev].key /\ b.dead = nd[prev].dead /\ b.val = nd[prev].val /\ b.next = f - prev
  <2>1. PICK d : d = f - prev
    OBVIOUS
  <2>2. d \in Int
    BY ONLY <1>1, <2>1, f \in 0 .. (n - 1), prev \in 0 .. (n - 1)
  <2>3. b = [nd[prev] EXCEPT !.next = d]
    BY ONLY <1>8, <2>1
  <2>4. b \in Node /\ b.key = nd[prev].key /\ b.dead = nd[prev].dead /\ b.val = nd[prev].val /\ b.next = d
    BY ONLY <1>3, <2>2, <2>3 DEF Node
  <2> QED BY ONLY <2>1, <2>4
<1>10. nd2 = [nd EXCEPT ![prev] = b, ![f] = y, ![mp] = e]
  BY <1>1, <1>3, <1>4, <1>6, <1>8
<1>11. /\ nd2 \in [0 .. (n - 1) -> Node] /\ nd2[prev] = b /\ nd2[f] = y /\ nd2[mp] = e
       /\ \A p \in 0 .. (n - 1) : p # mp /\ p # f /\ p # prev => nd2[p] = nd[p]
  <2>1. nd \in [0 .. (n - 1) -> Node] /\ mp \in 0 .. (n - 1) /\ f # mp /\ prev # mp /\ prev # f
        /\ e \in Node /\ y \in Node /\ b \in Node
    BY <1>1, <1>2, <1>3, <1>5, <1>7, <1>9
  <2>2. PICK S : S = 0 .. (n - 1)
    OBVIOUS
  <2> QED BY ONLY <1>10, <2>1, <2>2, f \in 0 .. (n - 1), prev \in 0 .. (n - 1)
<1>12. IsNodes(nd2, n)
  BY ONLY <1>1, <1>11, n > 0 DEF IsNodes
<1>13. \A p \in 0 .. (n - 1) : p # f /\ p # mp =>
          nd2[p].key = nd[p].key /\ nd2[p].dead = nd[p].dead /\ nd2[p].val = nd[p].val
  BY <1>9, <1>11
<1>14. \A p \in 0 .. (n - 1) : nd[p].key # Nil => p # f /\ nd2[p].key # Nil
  BY <1>2, <1>5, <1>11, <1>13
<1>15. /\ Goes(nd2, prev) /\ To(nd2, prev) = f /\ ~Goes(nd, f) /\ ~Goes(nd2, mp)
       /\ Goes(nd2, f) <=> Goes(nd, mp)
       /\ Goes(nd, mp) => To(nd2, f) = To(nd, mp)
  <2>1. PICK x : x = nd[mp].next
    OBVIOUS
  <2>2. x \in Int /\ mp \in Int /\ f \in Int /\ prev \in Int
    BY <1>1, <1>2, <2>1
  <2>3. /\ nd2[prev].next = f - prev /\ nd2[f].next = IF x = 0 THEN 0 ELSE x + (mp - f)
        /\ nd[f].next = 0 /\ nd2[mp].next = 0
    BY <1>2, <1>5, <1>7, <1>9, <1>11, <2>1 DEF Empty
  <2>4. x # 0 => mp + x # f
    <3>1. Goes(nd, mp) => nd[To(nd, mp)].key # Nil
      BY <1>1, ToIs
    <3> QED BY <2>1, <3>1 DEF Goes, To
  <2>5. CASE x = 0
    BY <1>3, <2>1, <2>2, <2>3, <2>5 DEF Goes, To
  <2>6. CASE x # 0
    <3>1. /\ x + (mp - f) # 0 /\ f + (x + (mp - f)) = mp + x /\ f - prev # 0 /\ prev + (f - prev) = f
      BY <1>3, <2>2, <2>4, <2>6
    <3> QED BY <2>1, <2>3, <2>6, <3>1 DEF Goes, To
  <2> QED BY <2>5, <2>6
<1>16. nd2[f].key # Nil /\ \A p \in 0 .. (n - 1) : p # prev /\ p # mp /\ p # f => nd2[p].next = nd[p].next
  BY <1>2, <1>7, <1>11
<1>17. MovedLink(nd, nd2, n, prev, mp, f)
  BY <1>1, <1>2, <1>12, <1>14, <1>15, <1>16 DEF MovedLink
<1>18. Linked(nd2, n)
  BY ONLY <1>17, LinkMoves
<1>19. \A m, p : Reach(nd, n, m, p) /\ m # mp /\ p # mp => Reach(nd2, n, m, p)
  BY ONLY <1>17, LinkMoves
<1>20. \A m : Reach(nd, n, m, mp) /\ m # mp => Reach(nd2, n, m, f)
  BY ONLY <1>17, LinkMoves
<1>21. \A p \in 0 .. (n - 1) : nd2[p].key = Nil => nd2[p] = Empty
  <2>1. nd[prev].key # Nil
    BY DEF HashInv, Goes, Empty
  <2> QED BY <1>2, <1>5, <1>9, <1>11, <1>16, <2>1 DEF HashInv
<1>22. \A p \in 0 .. (n - 1) : nd2[p].dead => nd2[p].val = Nil
  BY <1>2, <1>5, <1>7, <1>11, <1>13 DEF HashInv
<1>23. \A m \in 0 .. (n - 1) : nd[m].key # Nil /\ Home(n, nd[m].key) = m => m # mp /\ nd2[m].key = nd[m].key
  BY <1>13, <1>14
<1>24. ASSUME NEW p \in 0 .. (n - 1), nd2[p].key # Nil
       PROVE  Settled(nd2, n, p)
  <2>1. CASE p = mp
    <3>1. nd2[p].key = k /\ Home(n, nd2[p].key) = mp
      BY <1>5, <1>11, <2>1
    <3> QED BY <1>2, <2>1, <3>1, ReachSelf DEF Settled
  <2>2. CASE p = f
    <3>1. nd2[p].key = nd[mp].key /\ Settled(nd, n, mp)
      BY <1>1, <1>2, <1>7, <1>11, <2>2 DEF HashInv
    <3>2. PICK m : m = Home(n, nd[mp].key)
      OBVIOUS
    <3>3. Reach(nd, n, m, mp) /\ nd[m].key # Nil /\ Home(n, nd[m].key) = m /\ m \in 0 .. (n - 1)
      BY <1>1, <1>2, <3>1, <3>2, KeyIs DEF Settled
    <3> QED BY <1>20, <1>23, <2>2, <3>1, <3>2, <3>3 DEF Settled
  <2>3. CASE p # f /\ p # mp
    <3>1. nd2[p].key = nd[p].key /\ nd[p].key # Nil /\ Settled(nd, n, p)
      BY <1>13, <1>24, <2>3 DEF HashInv
    <3>2. PICK m : m = Home(n, nd[p].key)
      OBVIOUS
    <3>3. Reach(nd, n, m, p) /\ nd[m].key # Nil /\ Home(n, nd[m].key) = m /\ m \in 0 .. (n - 1)
      BY <1>1, <3>1, <3>2, KeyIs DEF Settled
    <3> QED BY <1>19, <1>23, <2>3, <3>1, <3>2, <3>3 DEF Settled
  <2> QED BY <2>1, <2>2, <2>3
<1>25. \A l \in 0 .. (n - 1) : \A x : l # f /\ l # mp => (HasKey(nd2, l, x) <=> HasKey(nd, l, x))
  BY <1>13 DEF HasKey
<1>26. \A x : (HasKey(nd2, f, x) <=> HasKey(nd, mp, x)) /\ (HasKey(nd2, mp, x) <=> x = k)
  BY <1>5, <1>7, <1>11 DEF HasKey
<1>27. \A x \in Key : ~HasKey(nd, f, x)
  BY NilIsNoKey DEF HasKey
<1>28. ASSUME NEW p \in 0 .. (n - 1), NEW q \in 0 .. (n - 1), NEW x \in Key, HasKey(nd2, p, x), HasKey(nd2, q, x)
       PROVE  p = q
  <2>1. CASE x = k
    <3>1. \A l \in 0 .. (n - 1) : HasKey(nd2, l, x) => l = mp
      BY <1>1, <1>25, <1>26, <2>1
    <3> QED BY <1>28, <3>1
  <2>2. CASE x # k
    <3>1. p # mp /\ q # mp
      BY <1>26, <1>28, <2>2
    <3>2. \A l \in 0 .. (n - 1) : HasKey(nd2, l, x) /\ l # mp => IF l = f THEN HasKey(nd, mp, x) ELSE HasKey(nd, l, x)
      BY <1>25, <1>26
    <3>3. \A l, m \in 0 .. (n - 1) : HasKey(nd, l, x) /\ HasKey(nd, m, x) => l = m
      BY <1>28 DEF HashInv
    <3> QED BY <1>1, <1>28, <3>1, <3>2, <3>3
  <2> QED BY <2>1, <2>2
<1>29. HashInv(nd2, n)
  BY <1>12, <1>18, <1>21, <1>22, <1>24, <1>28 DEF HashInv
<1>30. HasKey(nd2, mp, k) /\ nd2[mp].val = Nil
  BY <1>5, <1>11, <1>26
<1>31. ASSUME NEW q \in 0 .. (n - 1), NEW x \in Key \ {k}, HasKey(nd, q, x), nd[q].val # Nil
       PROVE  \E q2 \in 0 .. (n - 1) : HasKey(nd2, q2, x) /\ nd2[q2].val = nd[q].val
  <2>1. CASE q = mp
    <3>1. HasKey(nd2, f, x) /\ nd2[f].val = nd[q].val
      BY <1>7, <1>11, <1>26, <1>31, <2>1
    <3> QED BY <3>1
  <2>2. CASE q # mp
    <3>1. q # f
      BY <1>27, <1>31
    <3> QED BY <1>13, <1>25, <1>31, <2>2, <3>1
  <2> QED BY <2>1, <2>2
<1>32. ASSUME NEW q \in 0 .. (n - 1), NEW x \in Key \ {k}, HasKey(nd2, q, x)
       PROVE  \E q2 \in 0 .. (n - 1) : HasKey(nd, q2, x) /\ nd[q2].val = nd2[q].val
  <2>1. CASE q = f
    <3>1. HasKey(nd, mp, x) /\ nd[mp].val = nd2[q].val
      BY <1>7, <1>11, <1>26, <1>32, <2>1
    <3> QED BY <1>1, <3>1
  <2>2. CASE q # f
    <3>1. q # mp
      BY <1>26, <1>32
    <3> QED BY <1>13, <1>25, <1>32, <2>2, <3>1
  <2> QED BY <2>1, <2>2
<1>33. Inserted(nd, nd2, n, k, mp)
  <2>1. (\A q \in 0 .. (n - 1) : ~nd[q].dead) => \A q \in 0 .. (n - 1) : ~nd2[q].dead
    <3> SUFFICES ASSUME \A q \in 0 .. (n - 1) : ~nd[q].dead, NEW q \in 0 .. (n - 1) PROVE ~nd2[q].dead
      OBVIOUS
    <3>1. ~nd2[f].dead /\ ~nd2[mp].dead
      BY ONLY <1>2, <1>5, <1>7, <1>11
    <3>2. q # f /\ q # mp => nd2[q].dead = nd[q].dead
      BY ONLY <1>13, q \in 0 .. (n - 1)
    <3> QED BY <3>1, <3>2
  <2> QED BY <1>1, <1>14, <1>30, <1>31, <1>32, <2>1 DEF Inserted
<1>34. PICK g : g = [q \in 0 .. (n - 1) |-> IF q = f THEN mp ELSE q]
  OBVIOUS
<1>35. \A q \in 0 .. (n - 1) : g[q] = IF q = f THEN mp ELSE q
  BY ONLY <1>34
<1>36. \A p : Reach(nd, n, mp, p) /\ p # mp => Reach(nd2, n, f, p)
  BY ONLY <1>17, LinkMoves
<1>37. nd2[f].key = nd[mp].key /\ nd2[f].dead = nd[mp].dead /\ nd2[mp].key = k /\ ~nd2[mp].dead
  BY ONLY <1>5, <1>7, <1>11
<1>38. ASSUME NEW r \in 0 .. (n - 1), r # mp, nd2[r].key # Nil, nd2[r].dead, Alike(nd2[r].key, k)
       PROVE  FALSE
  <2>1. r # f
    BY ONLY <1>2, <1>37, <1>38
  <2>2. nd2[r].key = nd[r].key
    BY ONLY <1>13, <1>38, <2>1
  <2>3. nd[r].key # Nil /\ Alike(nd[r].key, k)
    BY ONLY <1>38, <2>2
  <2>4. PICK m : m = Home(n, k)
    OBVIOUS
  <2>5. HomeTaken(nd, n, k)
    BY ONLY <2>3, HashInv(nd, n), k \in Key, r \in 0 .. (n - 1), AlikeHome
  <2>6. m = mp /\ Home(n, nd[m].key) = m
    BY <2>4, <2>5 DEF HomeTaken
  <2> QED BY <2>5, <2>6
<1>39. ASSUME NEW q \in 0 .. (n - 1), NEW r \in 0 .. (n - 1), q # mp, r # mp, q # r
       PROVE  g[q] # g[r] /\ (Reach(nd, n, g[q], g[r]) => Reach(nd2, n, q, r))
  <2>1. CASE q = f
    BY ONLY <1>35, <1>36, <1>39, <2>1
  <2>2. CASE q # f /\ r = f
    BY ONLY <1>20, <1>35, <1>39, <2>2
  <2>3. CASE q # f /\ r # f
    BY ONLY <1>19, <1>35, <1>39, <2>3
  <2> QED BY ONLY <2>1, <2>2, <2>3
<1>40. ASSUME NEW q \in 0 .. (n - 1), q # mp
       PROVE  g[q] \in 0 .. (n - 1) /\ nd[g[q]].key = nd2[q].key /\ nd[g[q]].dead = nd2[q].dead
  BY ONLY <1>1, <1>13, <1>35, <1>37, <1>40
<1>41. Placed(nd, nd2, n, k, mp, g)
  BY ONLY <1>1, <1>37, <1>38, <1>39, <1>40 DEF Placed
<1> QED BY <1>16, <1>29, <1>33, <1>41

-----------------------------------------------------------------------------
(* Tables                                                                   *)

Nodes(n) == IF n = 0 THEN {Dummy} ELSE [0 .. (n - 1) -> Node]

Tables(n) == [array : Seq(Value \cup {Nil}), node : Nodes(n), lastfree : Int, recursed : BOOLEAN]

\* A table with n nodes.  No node has a key of the array or the next after it, and the nodes
\* that a search for a free position has passed have keys.
TableInv(t, n) ==
    /\ n \in Nat /\ t \in Tables(n)
    /\ HashInv(t.node, n)
    /\ \A p \in 0 .. (n - 1) : \A k \in 1 .. (Len(t.array) + 1) : ~HasKey(t.node, p, k)
    /\ t.lastfree <= n /\ \A p \in 0 .. (n - 1) : p >= t.lastfree => t.node[p].key # Nil
    /\ \A i \in 1 .. Len(t.array) : t.array[i] # Nil => i <= MaxKey
    /\ t.lastfree < 0 => Len(t.array) > 0

LEMMA TableIs ==
  ASSUME NEW t, NEW n, t \in Tables(n), n \in Nat
  PROVE  /\ t.array \in Seq(Value \cup {Nil}) /\ Len(t.array) \in Nat /\ DOMAIN t.array = 1 .. Len(t.array)
         /\ \A i \in 1 .. Len(t.array) : t.array[i] \in Value \cup {Nil}
         /\ IsNodes(t.node, n) /\ t.lastfree \in Int /\ t.recursed \in BOOLEAN
         /\ SizeNode(t) = n /\ SizeArray(t) = Len(t.array)
<1>1. t.array \in Seq(Value \cup {Nil}) /\ t.node \in Nodes(n) /\ t.lastfree \in Int /\ t.recursed \in BOOLEAN
  BY DEF Tables
<1>2. IsNodes(t.node, n)
  BY <1>1 DEF IsNodes, Nodes
<1>3. SizeNode(t) = n
  BY <1>2, NodesAre DEF SizeNode
<1> QED BY <1>1, <1>2, <1>3, SeqIs DEF SizeArray

WithNode(t, l, nd) == [t EXCEPT !.lastfree = l, !.node = nd]

LEMMA ChangedNode ==
  ASSUME NEW t, NEW t2, NEW n, NEW nd, NEW l, t \in Tables(n), IsNodes(nd, n), l \in Int,
         t2 = WithNode(t, l, nd)
  PROVE  /\ t2 \in Tables(n) /\ t2.array = t.array /\ t2.node = nd /\ t2.lastfree = l
         /\ t2.recursed = t.recursed
<1>1. nd \in Nodes(n)
  BY DEF IsNodes, Nodes
<1> QED BY <1>1 DEF Tables, WithNode

\* newkey adds k, which has no node yet, and keeps the other entries.
LEMMA InsertIs ==
  ASSUME NEW t, NEW n, NEW k, TableInv(t, n), k \in Key, ~InArray(t, k), ~Overflows(t, k),
         \A p \in 0 .. (n - 1) : ~HasKey(t.node, p, k)
  PROVE  /\ TableInv(Insert(t, k), n) /\ Insert(t, k).array = t.array /\ Insert(t, k).recursed = t.recursed
         /\ \E p : Inserted(t.node, Insert(t, k).node, n, k, p)
         /\ Orderly(t.node, n) /\ Alone(t.node, n, k) => Orderly(Insert(t, k).node, n)
<1>1. PICK nd : nd = t.node
  OBVIOUS
<1>2. /\ n \in Nat /\ t \in Tables(n) /\ HashInv(nd, n) /\ IsNodes(nd, n) /\ Linked(nd, n)
      /\ t.lastfree \in Int /\ SizeNode(t) = n /\ SizeArray(t) = Len(t.array) /\ Len(t.array) \in Nat
  BY <1>1, TableIs DEF TableInv, HashInv
<1>3. n > 0 /\ k # Len(t.array) + 1 /\ k \notin 1 .. Len(t.array)
  <2>1. nd # Dummy /\ k # Len(t.array) + 1
    BY <1>1, <1>2 DEF Overflows
  <2>2. k \in 1 .. Len(t.array) => k \in IntKey
    BY NilIsNoKey DEF IntKey
  <2> QED BY <1>2, <2>1, <2>2, NodesAre DEF InArray
<1>4. PICK mp : mp = Home(n, k)
  OBVIOUS
<1>5. mp \in 0 .. (n - 1) /\ mp = MainPosition(t, k) /\ \A p \in 0 .. (n - 1) : ~HasKey(nd, p, k)
  <2>1. mp \in 0 .. (n - 1)
    BY <1>2, <1>3, <1>4, HomeIs
  <2>2. mp = MainPosition(t, k)
    BY <1>2, <1>4 DEF MainPosition, Home
  <2> QED BY <1>1, <2>1, <2>2
<1>6. ASSUME NEW nd2, NEW l, NEW p, Insert(t, k) = WithNode(t, l, nd2),
             l \in Int, HashInv(nd2, n), Inserted(nd, nd2, n, k, p), \E g : Placed(nd, nd2, n, k, p, g),
             l <= n, \A q \in 0 .. (n - 1) : q >= l => nd2[q].key # Nil, l < 0 => l = t.lastfree
      PROVE  /\ TableInv(Insert(t, k), n) /\ Insert(t, k).array = t.array /\ Insert(t, k).recursed = t.recursed
             /\ \E q : Inserted(t.node, Insert(t, k).node, n, k, q)
             /\ Orderly(t.node, n) /\ Alone(t.node, n, k) => Orderly(Insert(t, k).node, n)
  <2>1. PICK t2 : t2 = WithNode(t, l, nd2)
    OBVIOUS
  <2>2. IsNodes(nd2, n)
    BY <1>6 DEF HashInv
  <2>3. /\ t2 \in Tables(n) /\ t2.array = t.array /\ t2.node = nd2 /\ t2.lastfree = l
        /\ t2.recursed = t.recursed
    <3>1. t \in Tables(n) /\ l \in Int
      BY <1>2, <1>6
    <3> QED BY ONLY <2>1, <2>2, <3>1, ChangedNode
  <2>4. ASSUME NEW q \in 0 .. (n - 1), NEW x \in 1 .. (Len(t.array) + 1)
        PROVE  ~HasKey(nd2, q, x)
    <3>1. x # k
      BY <1>2, <1>3, <2>4
    <3>2. x \in Key => ~HasKey(nd2, q, x)
      BY <1>1, <1>6, <2>4, <3>1 DEF Inserted, TableInv
    <3>3. nd2[q].key \in Key \cup {Nil} /\ x # Nil
      BY <2>2, NodesAre, NodeIs, NilIsNoKey
    <3> QED BY <3>2, <3>3 DEF HasKey
  <2>5. TableInv(t2, n)
    BY <1>2, <1>6, <2>3, <2>4 DEF TableInv
  <2>6. Orderly(nd, n) /\ Alone(nd, n, k) => Orderly(nd2, n)
    <3>1. PICK g : Placed(nd, nd2, n, k, p, g)
      BY <1>6
    <3>2. HashInv(nd2, n)
      BY <1>6
    <3> QED BY ONLY <2>2, <3>1, <3>2, k \in Key, PlacedOrder
  <2> QED BY ONLY <1>1, <1>6, <2>1, <2>3, <2>5, <2>6
<1>7. CASE nd[mp].val = Nil
  <2>1. PICK nd2 : nd2 = [nd EXCEPT ![mp] = WithKey(k, @.next)]
    OBVIOUS
  <2>2. HashInv(nd2, n) /\ Inserted(nd, nd2, n, k, mp) /\ \E g : Placed(nd, nd2, n, k, mp, g)
    BY ONLY <1>2, <1>3, <1>4, <1>5, <1>7, <2>1, k \in Key, TakesMain
  <2>3. Insert(t, k) = [t EXCEPT !.node[mp] = WithKey(k, @.next)]
    BY <1>1, <1>5, <1>7 DEF Insert
  <2>4. Insert(t, k) = WithNode(t, t.lastfree, nd2)
    BY ONLY <1>1, <1>2, <2>1, <2>3 DEF Tables, WithNode
  <2>5. t.lastfree <= n /\ \A q \in 0 .. (n - 1) : q >= t.lastfree => nd2[q].key # Nil
    BY <1>1, <2>2 DEF TableInv, Inserted
  <2> QED BY <1>2, <1>6, <2>2, <2>4, <2>5
<1>8. CASE nd[mp].val # Nil
  <2>1. Free(t) # {}
    BY <1>1, <1>5, <1>8 DEF Overflows
  <2>2. Free(t) \subseteq 0 .. (n - 1)
    BY <1>1, <1>2, NodesAre DEF Free
  <2>3. \E p \in Free(t) : \A q \in Free(t) : q <= p
    <3>1. n - 1 \in Nat
      BY <1>2, <1>3
    <3> QED BY <2>1, <2>2, <3>1, GreatestNumber
  <2>4. PICK f : f = FreePos(t)
    OBVIOUS
  <2>5. f \in Free(t) /\ \A q \in Free(t) : q <= f
    BY <2>3, <2>4 DEF FreePos
  <2>6. /\ f \in 0 .. (n - 1) /\ f < t.lastfree /\ nd[f].key = Nil
        /\ \A q \in 0 .. (n - 1) : q > f => nd[q].key # Nil
    <3>1. f \in 0 .. (n - 1) /\ f < t.lastfree /\ nd[f].key = Nil
      BY <1>1, <2>2, <2>5 DEF Free
    <3>2. ASSUME NEW q \in 0 .. (n - 1), q > f
          PROVE  nd[q].key # Nil
      <4>1. CASE q >= t.lastfree
        BY <1>1, <4>1 DEF TableInv
      <4>2. CASE q < t.lastfree
        <5>1. q \notin Free(t)
          BY <1>2, <2>5, <3>1, <3>2
        <5>2. DOMAIN nd = 0 .. (n - 1)
          BY <1>2, NodesAre
        <5> QED BY <1>1, <4>2, <5>1, <5>2 DEF Free
      <4> QED BY <1>2, <4>1, <4>2
    <3> QED BY <3>1, <3>2
  <2>7. nd[mp].key # Nil
    BY <1>2, <1>5, <1>8 DEF HashInv, Empty
  <2>8. MainPosition(t, nd[mp].key) = Home(n, nd[mp].key)
    BY <1>2 DEF MainPosition, Home
  <2>9. ASSUME NEW nd2, NEW p, Insert(t, k) = WithNode(t, f, nd2),
               HashInv(nd2, n), Inserted(nd, nd2, n, k, p), \E g : Placed(nd, nd2, n, k, p, g), nd2[f].key # Nil
        PROVE  /\ TableInv(Insert(t, k), n) /\ Insert(t, k).array = t.array /\ Insert(t, k).recursed = t.recursed
               /\ \E q : Inserted(t.node, Insert(t, k).node, n, k, q)
               /\ Orderly(t.node, n) /\ Alone(t.node, n, k) => Orderly(Insert(t, k).node, n)
    <3>1. f \in Int /\ f <= n /\ ~(f < 0)
      BY <1>2, <2>6
    <3>2. \A q \in 0 .. (n - 1) : q >= f => nd2[q].key # Nil
      <4>1. \A q \in 0 .. (n - 1) : q >= f => q > f \/ q = f
        BY <3>1
      <4> QED BY <2>6, <2>9, <4>1 DEF Inserted
    <3> QED BY ONLY <1>6, <2>9, <3>1, <3>2
  <2>10. CASE Home(n, nd[mp].key) = mp
    <3>1. PICK nd2 : nd2 = WithChained(nd, k, mp, f)
      OBVIOUS
    <3>2. HashInv(nd2, n) /\ Inserted(nd, nd2, n, k, f) /\ \E g : Placed(nd, nd2, n, k, f, g)
      BY ONLY <1>2, <1>3, <1>4, <1>5, <1>8, <2>6, <2>10, <3>1, k \in Key, ChainsOn
    <3>3. Insert(t, k) = Chained(t, k, mp, f)
      BY <1>1, <1>5, <1>8, <2>4, <2>8, <2>10 DEF Insert
    <3>4. Insert(t, k) = WithNode(t, f, nd2)
      BY ONLY <1>1, <3>1, <3>3 DEF Chained, WithChained, WithNode
    <3>5. nd2[f].key # Nil
      BY <3>2, NilIsNoKey DEF Inserted, HasKey
    <3> QED BY ONLY <2>9, <3>2, <3>4, <3>5
  <2>11. CASE Home(n, nd[mp].key) # mp
    <3>1. PICK m : m = Home(n, nd[mp].key)
      OBVIOUS
    <3>2. m \in 0 .. (n - 1) /\ m # mp /\ Reach(nd, n, m, mp)
      BY <1>2, <1>5, <2>7, <2>11, <3>1, KeyIs DEF HashInv, Settled
    <3>3. PICK c : c = Chain(t, m)
      OBVIOUS
    <3>4. Walk(nd, n, m, c)
      BY <1>1, <1>2, <3>2, <3>3, ChainIs
    <3>5. Steps(nd, n, m, c) /\ Len(c) \in Nat /\ DOMAIN c = 1 .. Len(c)
      BY <3>4, StepsAre DEF Walk
    <3>6. PICK j \in 1 .. Len(c) : c[j] = mp
      BY <3>2, <3>4, WalkReaches
    <3>7. j - 1 \in DOMAIN c /\ (j - 1) + 1 \in DOMAIN c /\ c[(j - 1) + 1] = mp
      <4>1. j # 1
        BY <3>2, <3>5, <3>6 DEF Steps
      <4> QED BY <3>5, <3>6, <4>1
    <3>8. PICK i : i = CHOOSE l \in DOMAIN c : l + 1 \in DOMAIN c /\ c[l + 1] = mp
      OBVIOUS
    <3>9. i \in DOMAIN c /\ i + 1 \in DOMAIN c /\ c[i + 1] = mp
      BY <3>7, <3>8
    <3>10. PICK prev : prev = c[i]
      OBVIOUS
    <3>11. prev \in 0 .. (n - 1) /\ Goes(nd, prev) /\ To(nd, prev) = mp
      <4>1. i \in 1 .. (Len(c) - 1)
        BY <3>5, <3>9
      <4>2. prev \in 0 .. (n - 1)
        BY <3>5, <3>9, <3>10, StepsAre
      <4> QED BY <3>5, <3>9, <3>10, <4>1, <4>2 DEF Steps
    <3>12. PICK nd2 : nd2 = [nd EXCEPT ![prev].next = f - prev,
              ![f] = [nd[mp] EXCEPT !.next = IF @ = 0 THEN 0 ELSE @ + (mp - f)],
              ![mp] = WithKey(k, 0)]
      OBVIOUS
    <3>13. HashInv(nd2, n) /\ Inserted(nd, nd2, n, k, mp) /\ nd2[f].key # Nil /\ \E g : Placed(nd, nd2, n, k, mp, g)
      BY ONLY <1>2, <1>3, <1>4, <1>5, <1>8, <2>6, <2>11, <3>11, <3>12, k \in Key, MovesOut
    <3>14. Insert(t, k) = Displace(t, k, mp, f)
      BY <1>1, <1>5, <1>8, <2>4, <2>8, <2>11 DEF Insert
    <3>15. prev = c[CHOOSE i_1 \in DOMAIN c : i_1 + 1 \in DOMAIN c /\ c[i_1 + 1] = mp]
      BY <3>8, <3>10
    <3>16. c = Chain(t, MainPosition(t, t.node[mp].key))
      BY <1>1, <2>8, <3>1, <3>3
    <3>17. Insert(t, k) = WithNode(t, f, nd2)
      BY ONLY <1>1, <3>12, <3>14, <3>15, <3>16 DEF Displace, WithNode
    <3> QED BY ONLY <2>9, <3>13, <3>17
  <2> QED BY <2>10, <2>11
<1> QED BY <1>7, <1>8

\* What a key reads as
LEMMA GetIs ==
  ASSUME NEW t, NEW n, NEW k, TableInv(t, n), k \in Key
  PROVE  /\ InArray(t, k) <=> k \in 1 .. Len(t.array)
         /\ InArray(t, k) => Get(t, k) = t.array[k] /\ Get(t, k) \in Value \cup {Nil}
         /\ \A p \in 0 .. (n - 1) : HasKey(t.node, p, k) => Get(t, k) = t.node[p].val /\ ~InArray(t, k)
         /\ (\A p \in 0 .. (n - 1) : ~HasKey(t.node, p, k)) /\ ~InArray(t, k) => Get(t, k) = Nil
         /\ Get(t, k) \in Value \cup {Nil}
<1>1. n \in Nat /\ t \in Tables(n) /\ HashInv(t.node, n) /\ IsNodes(t.node, n) /\ n \notin {NotFound}
  BY NilIsNoKey DEF TableInv, HashInv
<1>2. /\ SizeArray(t) = Len(t.array) /\ Len(t.array) \in Nat
      /\ \A i \in 1 .. Len(t.array) : t.array[i] \in Value \cup {Nil}
  BY <1>1, TableIs
<1>3. InArray(t, k) <=> k \in 1 .. Len(t.array)
  BY <1>2, NilIsNoKey DEF InArray, IntKey
<1>4. InArray(t, k) => Get(t, k) = t.array[k] /\ Get(t, k) \in Value \cup {Nil}
  BY <1>2, <1>3 DEF Get
<1>5. ASSUME NEW p \in 0 .. (n - 1), HasKey(t.node, p, k)
      PROVE  Get(t, k) = t.node[p].val /\ ~InArray(t, k) /\ Get(t, k) \in Value \cup {Nil}
  <2>1. ~InArray(t, k)
    BY <1>2, <1>3, <1>5 DEF TableInv
  <2>2. NodeOf(t, k) = p
    BY <1>1, <1>5, NodeOfIs
  <2>3. p # NotFound
    BY NilIsNoKey
  <2>4. Get(t, k) = t.node[p].val
    BY <2>1, <2>2, <2>3 DEF Get
  <2>5. t.node[p].val \in Value \cup {Nil}
    BY <1>1, NodesAre, NodeIs
  <2> QED BY <2>1, <2>4, <2>5
<1>6. ASSUME \A p \in 0 .. (n - 1) : ~HasKey(t.node, p, k), ~InArray(t, k)
      PROVE  Get(t, k) = Nil
  <2>1. NodeOf(t, k) = NotFound
    BY <1>1, <1>6, NodeOfIs
  <2> QED BY <1>6, <2>1 DEF Get
<1> QED BY <1>3, <1>4, <1>5, <1>6

\* Values may change, and keys without a value may die.
SameKeys(nd, nd2, n) ==
    \A p \in 0 .. (n - 1) :
        /\ nd2[p].key = nd[p].key /\ nd2[p].next = nd[p].next
        /\ nd[p].dead => nd2[p].dead
        /\ nd2[p].dead => nd2[p].val = Nil
        /\ nd[p].key = Nil => nd2[p] = nd[p]

LEMMA ValuesChange ==
  ASSUME NEW nd, NEW nd2, NEW n, HashInv(nd, n), IsNodes(nd2, n), SameKeys(nd, nd2, n)
  PROVE  HashInv(nd2, n) /\ \A p \in 0 .. (n - 1) : \A k : HasKey(nd2, p, k) => HasKey(nd, p, k)
<1>1. IsNodes(nd, n) /\ Linked(nd, n)
  BY DEF HashInv
<1>2. \A p \in 0 .. (n - 1) : nd2[p].next = nd[p].next /\ (nd[p].key # Nil => nd2[p].key # Nil)
  BY DEF SameKeys
<1>3. Linked(nd2, n) /\ \A m, p : Reach(nd, n, m, p) => Reach(nd2, n, m, p)
  BY ONLY <1>1, <1>2, IsNodes(nd2, n), LinksKept
<1>4. \A p \in 0 .. (n - 1) : nd2[p].key = Nil => nd2[p] = Empty
  BY DEF SameKeys, HashInv
<1>5. \A p \in 0 .. (n - 1) : nd2[p].dead => nd2[p].val = Nil
  BY DEF SameKeys
<1>6. \A p \in 0 .. (n - 1) : nd2[p].key = nd[p].key
  BY DEF SameKeys
<1>7. ASSUME NEW p \in 0 .. (n - 1), nd2[p].key # Nil
      PROVE  Settled(nd2, n, p)
  <2>1. nd[p].key # Nil /\ nd2[p].key = nd[p].key /\ Settled(nd, n, p)
    BY <1>6, <1>7 DEF HashInv
  <2>2. PICK m : m = Home(n, nd[p].key)
    OBVIOUS
  <2>3. Reach(nd, n, m, p) /\ nd[m].key # Nil /\ Home(n, nd[m].key) = m /\ m \in 0 .. (n - 1)
    BY <1>1, <2>1, <2>2, KeyIs DEF Settled
  <2>4. nd2[m].key = nd[m].key
    BY <1>6, <2>3
  <2> QED BY <1>3, <2>1, <2>2, <2>3, <2>4 DEF Settled
<1>8. \A p \in 0 .. (n - 1) : \A k : HasKey(nd2, p, k) => HasKey(nd, p, k)
  BY DEF SameKeys, HasKey
<1>9. \A p, q \in 0 .. (n - 1) : \A k \in Key : HasKey(nd2, p, k) /\ HasKey(nd2, q, k) => p = q
  BY <1>8 DEF HashInv
<1> QED BY <1>3, <1>4, <1>5, <1>7, <1>8, <1>9 DEF HashInv

\* Keys and links stay, and only objects die.
SameChains(nd, nd2, n) ==
    \A p \in 0 .. (n - 1) :
        /\ nd2[p].key = nd[p].key /\ nd2[p].next = nd[p].next
        /\ nd[p].dead => nd2[p].dead
        /\ nd2[p].dead => nd[p].dead \/ nd[p].key \in Obj

LEMMA SameOrder ==
  ASSUME NEW nd, NEW nd2, NEW n, HashInv(nd, n), IsNodes(nd2, n), SameChains(nd, nd2, n), Orderly(nd, n)
  PROVE  Orderly(nd2, n)
<1>1. IsNodes(nd, n) /\ Linked(nd, n)
  BY DEF HashInv
<1>2. \A p \in 0 .. (n - 1) : nd2[p].next = nd[p].next /\ (nd[p].key # Nil => nd2[p].key # Nil)
  BY DEF SameChains
<1>3. \A m, p : Reach(nd, n, m, p) => Reach(nd2, n, m, p)
  BY ONLY <1>1, <1>2, IsNodes(nd2, n), LinksKept
<1>4. ASSUME NEW p \in 0 .. (n - 1), nd2[p].dead
      PROVE  nd2[p].key \in Obj
  <2>1. nd2[p].key = nd[p].key /\ (nd[p].dead \/ nd[p].key \in Obj)
    BY ONLY <1>4, SameChains(nd, nd2, n), p \in 0 .. (n - 1) DEF SameChains
  <2> QED BY ONLY <2>1, Orderly(nd, n), p \in 0 .. (n - 1) DEF Orderly
<1>5. ASSUME NEW q \in 0 .. (n - 1), NEW r \in 0 .. (n - 1), q # r, nd2[q].key # Nil, ~nd2[q].dead,
             nd2[r].key # Nil, Alike(nd2[r].key, nd2[q].key)
      PROVE  Reach(nd2, n, q, r)
  <2>1. nd2[q].key = nd[q].key /\ nd2[r].key = nd[r].key /\ ~nd[q].dead
    BY ONLY <1>5, SameChains(nd, nd2, n), q \in 0 .. (n - 1), r \in 0 .. (n - 1) DEF SameChains
  <2>2. Reach(nd, n, q, r)
    BY ONLY <1>5, <2>1, Orderly(nd, n) DEF Orderly
  <2> QED BY ONLY <1>3, <2>2
<1> QED BY ONLY <1>4, <1>5 DEF Orderly

\* What an operation that only changes values, or takes them, does to a table
Stays(t, t2, n) ==
    /\ Len(t2.array) = Len(t.array) /\ SameChains(t.node, t2.node, n)
    /\ \A i \in 1 .. Len(t.array) : t2.array[i] # Nil => t.array[i] # Nil
    /\ \A p \in 0 .. (n - 1) : t2.node[p].val # Nil => t.node[p].val # Nil

\* t2 differs from t in the value of k.
Assigns(t, t2, k, v) == \A x \in Key : Get(t2, x) = IF x = k THEN v ELSE Get(t, x)

KeysKept(nd, nd2, n) == \A p \in 0 .. (n - 1) : nd2[p].key = nd[p].key /\ nd2[p].dead = nd[p].dead

\* There is a place for k.
Present(t, n, k) == InArray(t, k) \/ \E p \in 0 .. (n - 1) : HasKey(t.node, p, k)

LEMMA StoreIs ==
  ASSUME NEW t, NEW n, NEW k, NEW v, TableInv(t, n), k \in Key, v \in Value \cup {Nil}, Present(t, n, k)
  PROVE  /\ TableInv(Store(t, k, v), n) /\ Assigns(t, Store(t, k, v), k, v)
         /\ Len(Store(t, k, v).array) = Len(t.array) /\ Store(t, k, v).recursed = t.recursed
         /\ KeysKept(t.node, Store(t, k, v).node, n) /\ SameChains(t.node, Store(t, k, v).node, n)
         /\ Get(t, k) # Nil => Stays(t, Store(t, k, v), n)
<1>1. /\ n \in Nat /\ t \in Tables(n) /\ HashInv(t.node, n) /\ IsNodes(t.node, n)
      /\ t.array \in Seq(Value \cup {Nil}) /\ Len(t.array) \in Nat
  BY TableIs DEF TableInv, HashInv
<1>2. PICK t2 : t2 = Store(t, k, v)
  OBVIOUS
<1>3. CASE InArray(t, k)
  <2>1. k \in 1 .. Len(t.array)
    BY <1>3, GetIs
  <2>2. t2 = [t EXCEPT !.array[k] = v]
    BY <1>2, <1>3 DEF Store
  <2>3. PICK a : a = [t.array EXCEPT ![k] = v]
    OBVIOUS
  <2>4. /\ a \in Seq(Value \cup {Nil}) /\ Len(a) = Len(t.array) /\ a[k] = v
        /\ \A i \in 1 .. Len(t.array) : i # k => a[i] = t.array[i]
    BY ONLY <1>1, <2>1, <2>3, v \in Value \cup {Nil}
  <2>5. /\ t2 \in Tables(n) /\ t2.array = a /\ t2.node = t.node /\ t2.lastfree = t.lastfree
        /\ t2.recursed = t.recursed
    BY ONLY <1>1, <2>2, <2>3, <2>4 DEF Tables
  <2>6. k \in Int /\ k \in 1 .. MaxKey
    BY <2>1, NilIsNoKey
  <2>7. TableInv(t2, n)
    <3>1. \A i \in 1 .. Len(a) : a[i] # Nil => i <= MaxKey
      BY <2>4, <2>6 DEF TableInv
    <3> QED BY <2>4, <2>5, <3>1 DEF TableInv
  <2>8. ASSUME NEW x \in Key
        PROVE  Get(t2, x) = IF x = k THEN v ELSE Get(t, x)
    <3>1. CASE x \in 1 .. Len(t.array)
      <4>1. Get(t, x) = t.array[x] /\ Get(t2, x) = t2.array[x]
        BY <2>4, <2>5, <2>7, <3>1, GetIs
      <4> QED BY <2>4, <2>5, <3>1, <4>1
    <3>2. CASE x \notin 1 .. Len(t.array)
      <4>1. ~InArray(t, x) /\ ~InArray(t2, x) /\ x # k
        BY <2>1, <2>4, <2>5, <2>7, <3>2, GetIs
      <4>2. CASE \E p \in 0 .. (n - 1) : HasKey(t.node, p, x)
        <5>1. PICK p \in 0 .. (n - 1) : HasKey(t.node, p, x)
          BY <4>2
        <5>2. Get(t, x) = t.node[p].val
          BY <5>1, GetIs
        <5>3. Get(t2, x) = t2.node[p].val
          BY <2>5, <2>7, <5>1, GetIs
        <5> QED BY <2>5, <4>1, <5>2, <5>3
      <4>3. CASE \A p \in 0 .. (n - 1) : ~HasKey(t.node, p, x)
        BY <2>5, <2>7, <4>1, <4>3, GetIs
      <4> QED BY <4>2, <4>3
    <3> QED BY <3>1, <3>2
  <2>9. KeysKept(t.node, t2.node, n) /\ SameChains(t.node, t2.node, n)
    BY <2>5 DEF KeysKept, SameChains
  <2>10. Get(t, k) = t.array[k]
    BY ONLY <1>3, TableInv(t, n), k \in Key, GetIs
  <2>11. Get(t, k) # Nil => Stays(t, t2, n)
    BY ONLY <2>4, <2>5, <2>9, <2>10 DEF Stays
  <2> QED BY <1>2, <2>4, <2>5, <2>7, <2>8, <2>9, <2>11 DEF Assigns
<1>4. CASE ~InArray(t, k)
  <2>1. PICK p \in 0 .. (n - 1) : HasKey(t.node, p, k)
    BY <1>4 DEF Present
  <2>2. PICK nd : nd = t.node
    OBVIOUS
  <2>3. HashInv(nd, n) /\ IsNodes(nd, n) /\ nd \in [0 .. (n - 1) -> Node] /\ HasKey(nd, p, k)
    BY <1>1, <2>1, <2>2 DEF IsNodes
  <2>4. t2 = [t EXCEPT !.node[p].val = v]
    <3>1. NodeOf(t, k) = p
      BY <1>1, <2>1, NodeOfIs
    <3> QED BY <1>2, <1>4, <3>1 DEF Store
  <2>5. PICK e : e = [nd[p] EXCEPT !.val = v]
    OBVIOUS
  <2>6. e \in Node /\ e.key = nd[p].key /\ e.dead = nd[p].dead /\ e.val = v /\ e.next = nd[p].next
    <3>1. nd[p] \in Node
      BY <2>3
    <3> QED BY ONLY <2>5, <3>1, v \in Value \cup {Nil} DEF Node
  <2>7. PICK nd2 : nd2 = [nd EXCEPT ![p] = e]
    OBVIOUS
  <2>8. /\ nd2 \in [0 .. (n - 1) -> Node] /\ nd2[p] = e
        /\ \A q \in 0 .. (n - 1) : q # p => nd2[q] = nd[q]
    BY ONLY <2>3, <2>6, <2>7, p \in 0 .. (n - 1)
  <2>9. IsNodes(nd2, n)
    BY <1>1, <2>8 DEF IsNodes
  <2>10. t2 = WithNode(t, t.lastfree, nd2)
    BY ONLY <1>1, <2>2, <2>4, <2>5, <2>7 DEF WithNode, Tables
  <2>11. t.lastfree \in Int
    BY <1>1, TableIs
  <2>12. /\ t2 \in Tables(n) /\ t2.array = t.array /\ t2.node = nd2 /\ t2.lastfree = t.lastfree
         /\ t2.recursed = t.recursed
    BY ONLY <1>1, <2>9, <2>10, <2>11, ChangedNode
  <2>13. SameKeys(nd, nd2, n)
    <3>1. \A q \in 0 .. (n - 1) : nd[q].dead => nd[q].val = Nil
      BY <2>3 DEF HashInv
    <3>2. ~nd[p].dead /\ nd[p].key # Nil
      BY <2>3, NilIsNoKey DEF HasKey
    <3> QED BY <2>6, <2>8, <3>1, <3>2 DEF SameKeys
  <2>14. HashInv(nd2, n)
    BY <2>3, <2>9, <2>13, ValuesChange
  <2>15. \A q \in 0 .. (n - 1) : nd2[q].dead = nd[q].dead /\ nd2[q].key = nd[q].key
    BY <2>6, <2>8
  <2>16. \A q \in 0 .. (n - 1) : \A x : HasKey(nd2, q, x) <=> HasKey(nd, q, x)
    BY <2>15 DEF HasKey
  <2>17. TableInv(t2, n)
    BY <2>2, <2>12, <2>14, <2>15, <2>16 DEF TableInv
  <2>18. ASSUME NEW x \in Key
         PROVE  Get(t2, x) = IF x = k THEN v ELSE Get(t, x)
    <3>1. CASE InArray(t, x)
      <4>1. x # k /\ InArray(t2, x)
        BY <1>4, <2>12, <2>17, <3>1, GetIs
      <4>2. Get(t2, x) = t2.array[x] /\ Get(t, x) = t.array[x]
        BY <2>17, <3>1, <4>1, GetIs
      <4> QED BY <2>12, <4>1, <4>2
    <3>2. CASE ~InArray(t, x)
      <4>1. ~InArray(t2, x)
        BY <2>12, <2>17, <3>2, GetIs
      <4>2. CASE \E q \in 0 .. (n - 1) : HasKey(nd, q, x)
        <5>1. PICK q \in 0 .. (n - 1) : HasKey(nd, q, x)
          BY <4>2
        <5>2. Get(t, x) = nd[q].val
          BY <2>2, <5>1, GetIs
        <5>3. Get(t2, x) = nd2[q].val
          BY <2>12, <2>16, <2>17, <5>1, GetIs
        <5>4. q = p <=> x = k
          BY <2>3, <5>1 DEF HashInv, HasKey
        <5> QED BY <2>6, <2>8, <5>2, <5>3, <5>4
      <4>3. CASE \A q \in 0 .. (n - 1) : ~HasKey(nd, q, x)
        <5>1. Get(t, x) = Nil
          BY <2>2, <3>2, <4>3, GetIs
        <5>2. Get(t2, x) = Nil
          BY <2>12, <2>16, <2>17, <4>1, <4>3, GetIs
        <5> QED BY <2>3, <4>3, <5>1, <5>2
      <4> QED BY <4>2, <4>3
    <3> QED BY <3>1, <3>2
  <2>19. SameChains(nd, nd2, n)
    BY ONLY <2>6, <2>8, <2>15 DEF SameChains
  <2>20. Get(t, k) = nd[p].val
    BY ONLY <2>2, <2>3, TableInv(t, n), k \in Key, p \in 0 .. (n - 1), GetIs
  <2>21. Get(t, k) # Nil => Stays(t, t2, n)
    BY ONLY <2>2, <2>8, <2>12, <2>19, <2>20 DEF Stays
  <2> QED BY <1>2, <2>2, <2>12, <2>15, <2>17, <2>18, <2>19, <2>21 DEF Assigns, KeysKept
<1> QED BY <1>3, <1>4

LEMMA InsertGets ==
  ASSUME NEW t, NEW n, NEW k, TableInv(t, n), k \in Key, ~InArray(t, k), ~Overflows(t, k),
         \A p \in 0 .. (n - 1) : ~HasKey(t.node, p, k)
  PROVE  Assigns(t, Insert(t, k), k, Nil)
<1>1. PICK t2 : t2 = Insert(t, k)
  OBVIOUS
<1>2. PICK nd, nd2 : nd = t.node /\ nd2 = t2.node
  OBVIOUS
<1>3. /\ TableInv(t2, n) /\ t2.array = t.array
      /\ \E p : Inserted(nd, nd2, n, k, p)
  BY <1>1, <1>2, InsertIs
<1>4. PICK p : Inserted(nd, nd2, n, k, p)
  BY <1>3
<1>5. HashInv(nd, n) /\ HashInv(nd2, n) /\ Get(t, k) = Nil
  BY <1>2, <1>3, GetIs DEF TableInv
<1>6. Get(t2, k) = Nil
  <2>1. p \in 0 .. (n - 1) /\ HasKey(nd2, p, k) /\ nd2[p].val = Nil
    BY <1>4 DEF Inserted
  <2> QED BY <1>2, <1>3, <2>1, GetIs
<1>7. ASSUME NEW x \in Key, x # k
      PROVE  Get(t2, x) = Get(t, x)
  <2>1. CASE InArray(t, x)
    <3>1. InArray(t2, x)
      BY <1>3, <2>1, GetIs
    <3>2. Get(t2, x) = t2.array[x] /\ Get(t, x) = t.array[x]
      BY <1>3, <2>1, <3>1, GetIs
    <3> QED BY <1>3, <3>2
  <2>2. CASE ~InArray(t, x)
    <3>1. ~InArray(t2, x)
      BY <1>3, <2>2, GetIs
    <3>2. CASE \E q \in 0 .. (n - 1) : HasKey(nd2, q, x)
      <4>1. PICK q \in 0 .. (n - 1) : HasKey(nd2, q, x)
        BY <3>2
      <4>2. PICK r \in 0 .. (n - 1) : HasKey(nd, r, x) /\ nd[r].val = nd2[q].val
        BY <1>4, <1>7, <4>1 DEF Inserted
      <4>3. Get(t2, x) = nd2[q].val
        BY <1>2, <1>3, <4>1, GetIs
      <4>4. Get(t, x) = nd[r].val
        BY <1>2, <4>2, GetIs
      <4> QED BY <4>2, <4>3, <4>4
    <3>3. CASE \A q \in 0 .. (n - 1) : ~HasKey(nd2, q, x)
      <4>1. Get(t2, x) = Nil
        BY <1>2, <1>3, <3>1, <3>3, GetIs
      <4>2. \A q \in 0 .. (n - 1) : HasKey(nd, q, x) => nd[q].val = Nil
        BY <1>4, <1>7, <3>3 DEF Inserted
      <4>3. Get(t, x) = Nil
        <5>1. CASE \E q \in 0 .. (n - 1) : HasKey(nd, q, x)
          BY <1>2, <4>2, <5>1, GetIs
        <5>2. CASE \A q \in 0 .. (n - 1) : ~HasKey(nd, q, x)
          BY <1>2, <2>2, <5>2, GetIs
        <5> QED BY <5>1, <5>2
      <4> QED BY <4>1, <4>3
    <3> QED BY <3>2, <3>3
  <2> QED BY <2>1, <2>2
<1> QED BY <1>1, <1>5, <1>6, <1>7 DEF Assigns

-----------------------------------------------------------------------------
(* Migration                                                                *)

\* The keys M, none of which belongs in an array of size a or is the next after it, fit in n nodes.
Fits(M, a, n) == IsFiniteSet(M) /\ Cardinality(M) <= n /\ a + 1 \notin M /\ \A i \in 1 .. a : i \notin M

\* A table of n nodes, being filled with the contents c: the keys in D have been placed, those
\* of M in nodes.
Filled(c, s, n, a, D, M) ==
    /\ TableInv(s, n) /\ Len(s.array) = a
    /\ \A p \in 0 .. (n - 1) : ~s.node[p].dead /\ (s.node[p].key # Nil => s.node[p].key \in D \cap M)
    /\ ~s.recursed => \A k \in Key : Get(s, k) = IF k \in D THEN c[k] ELSE Nil
    /\ Fits(M, a, n) => ~s.recursed

\* There is room while not all of M has been placed.
LEMMA RoomLeft ==
  ASSUME NEW s, NEW n, NEW D, NEW M, NEW k, TableInv(s, n), Fits(M, Len(s.array), n), k \in M \ D, k \in Key,
         \A p \in 0 .. (n - 1) : ~s.node[p].dead /\ (s.node[p].key # Nil => s.node[p].key \in D \cap M)
  PROVE  ~Overflows(s, k)
<1>1. /\ n \in Nat /\ s \in Tables(n) /\ HashInv(s.node, n) /\ IsNodes(s.node, n) /\ SizeArray(s) = Len(s.array)
      /\ SizeNode(s) = n /\ DOMAIN s.node = 0 .. (n - 1)
  BY TableIs, NodesAre DEF TableInv, HashInv
<1>2. IsFiniteSet(M) /\ Cardinality(M) <= n /\ Len(s.array) + 1 \notin M /\ Cardinality(M) \in Nat
  BY FS_CardinalityType DEF Fits
<1>3. k # SizeArray(s) + 1
  BY <1>1, <1>2
<1>4. IsFiniteSet(M \ {k}) /\ Cardinality(M \ {k}) = Cardinality(M) - 1
  BY <1>2, FS_RemoveElement
<1>5. n > 0
  BY <1>1, <1>2, <1>4, FS_CardinalityType
<1>6. s.node # Dummy
  BY <1>1, <1>5, NodesAre
<1>7. ASSUME \A p \in 0 .. (n - 1) : s.node[p].key # Nil
      PROVE  FALSE
  <2> DEFINE f == [p \in 0 .. (n - 1) |-> s.node[p].key]
  <2>1. \A p \in 0 .. (n - 1) : f[p] \in M \ {k} /\ f[p] \in Key /\ HasKey(s.node, p, f[p])
    <3>1. \A p \in 0 .. (n - 1) : s.node[p].key \in Key
      BY <1>1, <1>7, KeyIs
    <3> QED BY <1>7, <3>1 DEF HasKey
  <2>2. f \in [0 .. (n - 1) -> M \ {k}]
    BY <2>1
  <2>3. IsFiniteSet(0 .. (n - 1)) /\ Cardinality(0 .. (n - 1)) = n
    <3>1. IsFiniteSet(0 .. (n - 1)) /\ Cardinality(0 .. (n - 1)) = IF 0 > n - 1 THEN 0 ELSE (n - 1) - 0 + 1
      BY <1>1, FS_Interval
    <3> QED BY <1>1, <1>5, <3>1
  <2>4. Cardinality(M \ {k}) < Cardinality(0 .. (n - 1))
    BY <1>1, <1>2, <1>4, <2>3
  <2> HIDE DEF f
  <2>5. PICK p, q \in 0 .. (n - 1) : p # q /\ f[p] = f[q]
    BY <1>4, <2>2, <2>3, <2>4, FS_PigeonHole
  <2> QED BY <1>1, <2>1, <2>5 DEF HashInv
<1>8. PICK p \in 0 .. (n - 1) : s.node[p].key = Nil
  BY <1>7
<1>9. p < s.lastfree
  BY <1>1, <1>8, TableIs DEF TableInv
<1>10. Free(s) # {}
  BY <1>1, <1>8, <1>9 DEF Free
<1> QED BY <1>3, <1>6, <1>10 DEF Overflows

\* Migrate places one key more.
LEMMA MigrateFills ==
  ASSUME NEW c, NEW s, NEW n, NEW a, NEW D, NEW M, NEW k, NEW v, Filled(c, s, n, a, D, M), k \in Key, k \notin D,
         k \in 1 .. a \/ k \in M, v = c[k], v \in Value \cup {Nil}
  PROVE  Filled(c, Migrate(s, k, v), n, a, D \cup {k}, M)
<1>1. /\ TableInv(s, n) /\ Len(s.array) = a /\ s \in Tables(n) /\ n \in Nat /\ IsNodes(s.node, n) /\ s.recursed \in BOOLEAN
      /\ \A p \in 0 .. (n - 1) : ~s.node[p].dead /\ (s.node[p].key # Nil => s.node[p].key \in D \cap M)
  BY TableIs DEF Filled, TableInv
<1>2. \A p \in 0 .. (n - 1) : ~HasKey(s.node, p, k)
  BY <1>1, NilIsNoKey DEF HasKey
<1>3. PICK s2 : s2 = Migrate(s, k, v)
  OBVIOUS
<1>4. InArray(s, k) <=> k \in 1 .. a
  BY <1>1, GetIs
<1>5. ASSUME NEW s1, TableInv(s1, n), Len(s1.array) = a, s1.recursed = s.recursed, Assigns(s, s1, k, Nil) \/ s1 = s,
             s2 = Store(s1, k, v), Present(s1, n, k),
             \A p \in 0 .. (n - 1) : ~s1.node[p].dead /\ (s1.node[p].key # Nil => s1.node[p].key \in (D \cup {k}) \cap M)
      PROVE  Filled(c, s2, n, a, D \cup {k}, M)
  <2>1. /\ TableInv(s2, n) /\ Assigns(s1, s2, k, v) /\ Len(s2.array) = a /\ s2.recursed = s.recursed
        /\ KeysKept(s1.node, s2.node, n)
    <3>1. /\ TableInv(s1, n) /\ s2 = Store(s1, k, v) /\ Len(s1.array) = a /\ s1.recursed = s.recursed
          /\ Present(s1, n, k)
      BY <1>5
    <3>2. /\ TableInv(Store(s1, k, v), n) /\ Assigns(s1, Store(s1, k, v), k, v)
          /\ Len(Store(s1, k, v).array) = Len(s1.array) /\ Store(s1, k, v).recursed = s1.recursed
          /\ KeysKept(s1.node, Store(s1, k, v).node, n) /\ SameChains(s1.node, Store(s1, k, v).node, n)
          /\ Get(s1, k) # Nil => Stays(s1, Store(s1, k, v), n)
      <4>1. TableInv(s1, n) /\ Present(s1, n, k)
        BY ONLY <3>1
      <4> QED BY ONLY <4>1, k \in Key, v \in Value \cup {Nil}, StoreIs, ZenonT(60)
    <3> QED BY ONLY <3>1, <3>2
  <2>2. ASSUME NEW p \in 0 .. (n - 1)
        PROVE  ~s2.node[p].dead /\ (s2.node[p].key # Nil => s2.node[p].key \in (D \cup {k}) \cap M)
    <3>1. s2.node[p].key = s1.node[p].key /\ s2.node[p].dead = s1.node[p].dead
      BY <2>1 DEF KeysKept
    <3> QED BY <1>5, <3>1
  <2>3. ASSUME ~s2.recursed, NEW x \in Key
        PROVE  Get(s2, x) = IF x \in D \cup {k} THEN c[x] ELSE Nil
    <3>1. Get(s2, x) = IF x = k THEN v ELSE Get(s1, x)
      BY <2>1 DEF Assigns
    <3>2. x # k => Get(s1, x) = Get(s, x)
      BY <1>5 DEF Assigns
    <3>3. Get(s, x) = IF x \in D THEN c[x] ELSE Nil
      BY <2>1, <2>3 DEF Filled
    <3> QED BY <3>1, <3>2, <3>3
  <2>4. Fits(M, a, n) => ~s2.recursed
    BY <2>1 DEF Filled
  <2> QED BY <2>1, <2>2, <2>3, <2>4 DEF Filled
<1>6. CASE InArray(s, k)
  <2>1. s2 = Store(s, k, v)
    BY <1>3, <1>6 DEF Migrate
  <2>2. \A p \in 0 .. (n - 1) : ~s.node[p].dead /\ (s.node[p].key # Nil => s.node[p].key \in (D \cup {k}) \cap M)
    BY <1>1
  <2>3. Present(s, n, k)
    BY <1>6 DEF Present
  <2> QED BY <1>1, <1>3, <1>5, <2>1, <2>2, <2>3
<1>7. CASE ~InArray(s, k) /\ Overflows(s, k)
  <2>1. s2 = [s EXCEPT !.recursed = TRUE]
    BY <1>3, <1>7 DEF Migrate
  <2>2. /\ s2 \in Tables(n) /\ s2.array = s.array /\ s2.node = s.node /\ s2.lastfree = s.lastfree /\ s2.recursed
    BY <1>1, <2>1 DEF Tables
  <2>3. TableInv(s2, n)
    BY <1>1, <2>2 DEF TableInv
  <2>4. ~Fits(M, a, n)
    <3>1. k \in M \ D
      BY <1>4, <1>7
    <3> QED BY <1>1, <1>7, <3>1, RoomLeft
  <2> QED BY <1>1, <1>3, <2>2, <2>3, <2>4 DEF Filled
<1>8. CASE ~InArray(s, k) /\ ~Overflows(s, k)
  <2>1. PICK s1 : s1 = Insert(s, k)
    OBVIOUS
  <2>2. s2 = Store(s1, k, v)
    BY <1>3, <1>8, <2>1 DEF Migrate
  <2>3. /\ TableInv(s1, n) /\ s1.array = s.array /\ s1.recursed = s.recursed
        /\ \E p : Inserted(s.node, s1.node, n, k, p)
    BY <1>1, <1>2, <1>8, <2>1, InsertIs
  <2>4. PICK p : Inserted(s.node, s1.node, n, k, p)
    BY <2>3
  <2>5. Assigns(s, s1, k, Nil)
    BY <1>1, <1>2, <1>8, <2>1, InsertGets
  <2>6. p \in 0 .. (n - 1) /\ HasKey(s1.node, p, k)
    BY <2>4 DEF Inserted
  <2>7. \A q \in 0 .. (n - 1) : ~s1.node[q].dead
    BY <1>1, <2>4 DEF Inserted
  <2>8. ASSUME NEW q \in 0 .. (n - 1), s1.node[q].key # Nil
        PROVE  s1.node[q].key \in (D \cup {k}) \cap M
    <3>1. PICK x : x = s1.node[q].key
      OBVIOUS
    <3>2. x \in Key /\ HasKey(s1.node, q, x)
      <4>1. IsNodes(s1.node, n)
        BY <2>3 DEF TableInv, HashInv
      <4> QED BY <2>7, <2>8, <3>1, <4>1, KeyIs DEF HasKey
    <3>3. CASE x = k
      BY <1>4, <1>8, <3>1, <3>3
    <3>4. CASE x # k
      <4>1. PICK r \in 0 .. (n - 1) : HasKey(s.node, r, x)
        BY <2>4, <3>2, <3>4 DEF Inserted
      <4> QED BY <1>1, <3>1, <3>2, <4>1, NilIsNoKey DEF HasKey
    <3> QED BY <3>3, <3>4
  <2>9. Present(s1, n, k)
    BY <2>6 DEF Present
  <2>10. Len(s1.array) = a
    BY <1>1, <2>3
  <2> QED BY <1>3, <1>5, <2>2, <2>3, <2>5, <2>7, <2>8, <2>9, <2>10
<1> QED BY <1>6, <1>7, <1>8

LEMMA Pow2Is ==
  ASSUME NEW n, n \in Nat
  PROVE  /\ \A s \in Pow2(n) : s \in Nat /\ s > 0
         /\ \E s \in Pow2(n) : s >= n
<1> DEFINE f == CHOOSE f : f = [i \in 0 .. n |-> IF i = 0 THEN 1 ELSE 2 * f[i - 1]]
           F == [i \in 1 .. n |-> [x \in Nat |-> 2 * x]]
<1>1. \E g : g = [i \in 0 .. n |-> IF i = 0 THEN 1 ELSE 2 * g[i - 1]]
  <2>1. F \in [1 .. n -> [Nat -> Nat]]
    OBVIOUS
  <2>2. PICK g : Up(g, n, Nat, 1, F)
    <3>1. PICK one : one = 1
      OBVIOUS
    <3> HIDE DEF F
    <3> QED BY <2>1, <3>1, RecursionUp
  <2>3. g \in [0 .. n -> Nat] /\ g[0] = 1 /\ \A i \in 1 .. n : g[i] = F[i][g[i - 1]]
    BY <2>2 DEF Up
  <2>4. \A i \in 0 .. n : g[i] = IF i = 0 THEN 1 ELSE 2 * g[i - 1]
    <3> TAKE i \in 0 .. n
    <3>1. CASE i = 0
      BY <2>3, <3>1
    <3>2. CASE i # 0
      <4>1. i \in 1 .. n /\ i - 1 \in 0 .. n
        BY <3>2
      <4>2. g[i - 1] \in Nat
        BY <2>3, <4>1
      <4> QED BY <2>3, <3>2, <4>1, <4>2
    <3> QED BY <3>1, <3>2
  <2>5. g = [i \in 0 .. n |-> g[i]]
    BY <2>3
  <2>6. g = [i \in 0 .. n |-> IF i = 0 THEN 1 ELSE 2 * g[i - 1]]
    BY <2>4, <2>5
  <2> QED BY <2>6
<1>2. f = [i \in 0 .. n |-> IF i = 0 THEN 1 ELSE 2 * f[i - 1]]
  <2> HIDE DEF F
  <2> QED BY <1>1, Zenon
<1>3. Pow2(n) = {f[i] : i \in 0 .. n}
  BY DEF Pow2
<1> HIDE DEF f, F
<1> DEFINE S == {i \in 0 .. n : f[i] \in Nat /\ f[i] >= i + 1}
<1>4. 0 \in S
  BY <1>2
<1>5. ASSUME NEW i \in 1 .. n, i - 1 \in S
      PROVE  i \in S
  <2>1. f[i] = 2 * f[i - 1]
    BY <1>2
  <2> QED BY <1>5, <2>1
<1> HIDE DEF S
<1>6. 0 .. n \subseteq S
  BY <1>4, <1>5, UpTo
<1>7. \A i \in 0 .. n : f[i] \in Nat /\ f[i] >= i + 1
  BY <1>6 DEF S
<1>8. \A s \in Pow2(n) : s \in Nat /\ s > 0
  BY <1>3, <1>7
<1>9. f[n] \in Pow2(n) /\ f[n] >= n
  <2>1. n \in 0 .. n
    OBVIOUS
  <2> QED BY <1>3, <1>7, <2>1
<1> QED BY <1>8, <1>9

LEMMA RoundUpIs ==
  ASSUME NEW n, n \in Nat
  PROVE  RoundUp(n) \in Nat /\ RoundUp(n) >= n
<1> DEFINE S == {s \in Pow2(n) : s >= n}
<1>1. S \subseteq Nat /\ S # {}
  BY Pow2Is
<1>2. PICK m \in S : \A r \in S : m <= r
  <2> HIDE DEF S
  <2> QED BY <1>1, LeastNumber
<1>3. \E s \in Pow2(n) : s >= n /\ \A r \in Pow2(n) : r >= n => s <= r
  BY <1>2
<1>4. RoundUp(n) \in Pow2(n) /\ RoundUp(n) >= n
  BY <1>3 DEF RoundUp
<1> QED BY <1>4, Pow2Is

\* The number of nodes that setnodevector makes
VectorSize(h) == IF h <= 0 THEN 0 ELSE RoundUp(h)

LEMMA EmptyNodes ==
  ASSUME NEW nd, NEW n, IsNodes(nd, n), \A p \in 0 .. (n - 1) : nd[p] = Empty
  PROVE  HashInv(nd, n)
<1>1. \A p \in 0 .. (n - 1) : ~Goes(nd, p) /\ nd[p].key = Nil /\ ~nd[p].dead
  BY DEF Goes, Empty
<1>2. PICK r : r = [p \in 0 .. (n - 1) |-> 0]
  OBVIOUS
<1>3. Ranked(nd, n, r)
  BY <1>1, <1>2 DEF Ranked
<1>4. Linked(nd, n)
  BY <1>1, <1>3 DEF Linked
<1> QED BY <1>1, <1>4, NilIsNoKey DEF HashInv, HasKey

LEMMA NodeVectorIs ==
  ASSUME NEW h, h \in Int
  PROVE  /\ VectorSize(h) \in Nat /\ VectorSize(h) >= h
         /\ IsNodes(NodeVector(h), VectorSize(h)) /\ HashInv(NodeVector(h), VectorSize(h))
         /\ \A p \in 0 .. (VectorSize(h) - 1) : NodeVector(h)[p] = Empty
<1>1. PICK n : n = VectorSize(h)
  OBVIOUS
<1>2. PICK nd : nd = NodeVector(h)
  OBVIOUS
<1>3. n \in Nat /\ n >= h /\ (h > 0 => n = RoundUp(h) /\ n > 0) /\ (h <= 0 => n = 0)
  <2>1. h > 0 => RoundUp(h) \in Nat /\ RoundUp(h) >= h
    BY RoundUpIs
  <2> QED BY <1>1, <2>1 DEF VectorSize
<1>4. Empty \in Node
  BY DEF Empty, Node
<1>5. IsNodes(nd, n) /\ \A p \in 0 .. (n - 1) : nd[p] = Empty
  <2>1. CASE h <= 0
    <3>1. nd = Dummy /\ n = 0
      BY <1>2, <1>3, <2>1 DEF NodeVector
    <3> QED BY <3>1 DEF IsNodes
  <2>2. CASE h > 0
    <3>1. nd = [p \in 0 .. (n - 1) |-> Empty]
      BY <1>2, <1>3, <2>2 DEF NodeVector
    <3> QED BY <1>3, <1>4, <2>2, <3>1 DEF IsNodes
  <2> QED BY <2>1, <2>2
<1>6. HashInv(nd, n)
  BY ONLY <1>5, EmptyNodes
<1> QED BY <1>1, <1>2, <1>3, <1>5, <1>6

\* The keys of the array slots up to i that are still there or have been visited
InSlots(t, a, i) == {k \in Key : k \in 1 .. Len(t.array) /\ (k <= a \/ k <= i)}

\* With those of the nodes from p
InNodes(t, n, p) ==
    {k \in Key : k \in 1 .. Len(t.array) \/ \E q \in 0 .. (n - 1) : q >= p /\ HasKey(t.node, q, k)}

\* The arguments of resize: M has the keys that do not stay in the array or come into it.
Resizing(t, n, a, h, M) ==
    /\ TableInv(t, n) /\ ~t.recursed /\ a \in Nat /\ h \in Int
    /\ \A k \in Key : Get(t, k) # Nil => k \in 1 .. a \/ k \in M

\* The table before anything has migrated
Bare(t, a, h) ==
    [t EXCEPT !.array = ArrayVector(t, a), !.node = NodeVector(h), !.lastfree = Cardinality(DOMAIN NodeVector(h))]

LEMMA BareIs ==
  ASSUME NEW t, NEW n, NEW a, NEW h, NEW M, Resizing(t, n, a, h, M)
  PROVE  Filled(Contents(t), Bare(t, a, h), VectorSize(h), a, InSlots(t, a, 0), M)
<1>1. /\ TableInv(t, n) /\ t \in Tables(n) /\ n \in Nat /\ ~t.recursed /\ a \in Nat /\ h \in Int
      /\ t.array \in Seq(Value \cup {Nil}) /\ Len(t.array) \in Nat /\ SizeArray(t) = Len(t.array)
      /\ \A i \in 1 .. Len(t.array) : t.array[i] \in Value \cup {Nil}
  BY TableIs DEF Resizing, TableInv
<1>2. PICK m : m = VectorSize(h)
  OBVIOUS
<1>3. PICK nd : nd = NodeVector(h)
  OBVIOUS
<1>4. m \in Nat /\ IsNodes(nd, m) /\ HashInv(nd, m) /\ \A p \in 0 .. (m - 1) : nd[p] = Empty
  BY <1>1, <1>2, <1>3, NodeVectorIs
<1>5. Cardinality(DOMAIN nd) = m
  BY <1>4, NodesAre
<1>6. PICK b : b = ArrayVector(t, a)
  OBVIOUS
<1>7. b = [i \in 1 .. a |-> IF i <= Len(t.array) THEN t.array[i] ELSE Nil]
  BY <1>1, <1>6 DEF ArrayVector
<1>8. \A i \in 1 .. a : b[i] \in Value \cup {Nil}
  <2>1. \A i \in 1 .. a : i <= Len(t.array) => i \in 1 .. Len(t.array)
    BY <1>1
  <2> QED BY <1>1, <1>7, <2>1
<1>9. b \in Seq(Value \cup {Nil}) /\ Len(b) = a
  BY <1>1, <1>7, <1>8
<1>10. PICK s : s = Bare(t, a, h)
  OBVIOUS
<1>11. s = [t EXCEPT !.array = b, !.node = nd, !.lastfree = m]
  BY <1>3, <1>5, <1>6, <1>10 DEF Bare
<1>12. nd \in Nodes(m)
  BY <1>4 DEF IsNodes, Nodes
<1>13. /\ s \in Tables(m) /\ s.array = b /\ s.node = nd /\ s.lastfree = m /\ s.recursed = t.recursed
  <2>1. t \in Tables(n) /\ b \in Seq(Value \cup {Nil}) /\ nd \in Nodes(m) /\ m \in Int
    BY <1>1, <1>4, <1>9, <1>12
  <2> QED BY ONLY <2>1, <1>11 DEF Tables
<1>14. \A p \in 0 .. (m - 1) : nd[p].key = Nil /\ ~nd[p].dead
  BY <1>4 DEF Empty
<1>15. TableInv(s, m)
  <2>1. \A p \in 0 .. (m - 1) : \A k \in 1 .. (Len(s.array) + 1) : ~HasKey(s.node, p, k)
    BY <1>13, <1>14, NilIsNoKey DEF HasKey
  <2>2. \A p \in 0 .. (m - 1) : ~(p >= s.lastfree)
    BY <1>4, <1>13
  <2>3. \A i \in 1 .. a : b[i] # Nil => i <= MaxKey
    <3>1. \A i \in 1 .. a : b[i] # Nil => i \in 1 .. Len(t.array) /\ b[i] = t.array[i]
      BY <1>1, <1>7
    <3> QED BY <1>1, <3>1 DEF TableInv
  <2> QED BY <1>4, <1>9, <1>13, <2>1, <2>2, <2>3 DEF TableInv
<1>16. ASSUME NEW k \in Key
       PROVE  Get(s, k) = IF k \in InSlots(t, a, 0) THEN Contents(t)[k] ELSE Nil
  <2>1. Contents(t)[k] = Get(t, k)
    BY DEF Contents
  <2>2. CASE k \in 1 .. a
    <3>1. InArray(s, k) /\ Get(s, k) = b[k]
      BY <1>9, <1>13, <1>15, <2>2, GetIs
    <3>2. CASE k \in 1 .. Len(t.array)
      <4>1. Get(t, k) = t.array[k]
        BY <1>1, <3>2, GetIs
      <4>2. b[k] = t.array[k] /\ k \in InSlots(t, a, 0)
        BY <1>1, <1>7, <2>2, <3>2 DEF InSlots
      <4> QED BY <2>1, <3>1, <4>1, <4>2
    <3>3. CASE k \notin 1 .. Len(t.array)
      <4>1. b[k] = Nil /\ k \notin InSlots(t, a, 0)
        BY <1>1, <1>7, <2>2, <3>3 DEF InSlots
      <4> QED BY <3>1, <4>1
    <3> QED BY <3>2, <3>3
  <2>3. CASE k \notin 1 .. a
    <3>1. ~InArray(s, k)
      BY <1>9, <1>13, <1>15, <2>3, GetIs
    <3>2. \A p \in 0 .. (m - 1) : ~HasKey(s.node, p, k)
      BY <1>13, <1>14, NilIsNoKey DEF HasKey
    <3>3. Get(s, k) = Nil
      BY <1>15, <3>1, <3>2, GetIs
    <3>4. k \notin InSlots(t, a, 0)
      BY <1>1, <2>3 DEF InSlots
    <3> QED BY <3>3, <3>4
  <2> QED BY <2>2, <2>3
<1>17. Filled(Contents(t), s, m, a, InSlots(t, a, 0), M)
  BY <1>1, <1>9, <1>13, <1>14, <1>15, <1>16 DEF Filled
<1> QED BY <1>2, <1>10, <1>17

\* Keys without a value need not migrate.
LEMMA FilledMore ==
  ASSUME NEW c, NEW s, NEW n, NEW a, NEW D, NEW E, NEW M, Filled(c, s, n, a, D, M), D \subseteq E,
         \A k \in E \ D : c[k] = Nil
  PROVE  Filled(c, s, n, a, E, M)
BY DEF Filled

\* No two keys of M are alike.
Apart(M) == \A x, y \in M : Alike(x, y) => x = y

LEMMA FilledOrder ==
  ASSUME NEW c, NEW s, NEW n, NEW a, NEW D, NEW M, Filled(c, s, n, a, D, M), Apart(M)
  PROVE  Orderly(s.node, n)
<1>1. \A p \in 0 .. (n - 1) : ~s.node[p].dead /\ (s.node[p].key # Nil => s.node[p].key \in D \cap M)
  BY DEF Filled
<1>2. HashInv(s.node, n) /\ IsNodes(s.node, n)
  BY DEF Filled, TableInv, HashInv
<1>3. ASSUME NEW q \in 0 .. (n - 1), NEW r \in 0 .. (n - 1), q # r, s.node[q].key # Nil, s.node[r].key # Nil,
             Alike(s.node[r].key, s.node[q].key)
      PROVE  FALSE
  <2>1. PICK k : k = s.node[q].key
    OBVIOUS
  <2>2. s.node[r].key = k
    BY ONLY <1>1, <1>3, <2>1, Apart(M), q \in 0 .. (n - 1), r \in 0 .. (n - 1) DEF Apart
  <2>3. k \in Key
    BY ONLY <1>2, <1>3, <2>1, q \in 0 .. (n - 1), KeyIs
  <2>4. HasKey(s.node, q, k) /\ HasKey(s.node, r, k)
    BY ONLY <1>1, <2>1, <2>2, q \in 0 .. (n - 1), r \in 0 .. (n - 1) DEF HasKey
  <2> QED BY ONLY <1>2, <1>3, <2>3, <2>4, q \in 0 .. (n - 1), r \in 0 .. (n - 1) DEF HashInv
<1> QED BY ONLY <1>1, <1>3 DEF Orderly

\* resize brings over every entry of t, if M fits in the new nodes.
LEMMA ResizeFills ==
  ASSUME NEW t, NEW n, NEW a, NEW h, NEW M, Resizing(t, n, a, h, M)
  PROVE  Filled(Contents(t), Resize(t, a, h), VectorSize(h), a, InNodes(t, n, 0), M)
<1>1. PICK L : L = Len(t.array)
  OBVIOUS
<1>2. /\ TableInv(t, n) /\ n \in Nat /\ a \in Nat /\ L \in Nat /\ SizeArray(t) = L /\ SizeNode(t) = n
      /\ \A i \in 1 .. L : t.array[i] \in Value \cup {Nil}
      /\ \A k \in Key : Get(t, k) # Nil => k \in 1 .. a \/ k \in M
  BY <1>1, TableIs DEF Resizing, TableInv
<1>3. HashInv(t.node, n) /\ IsNodes(t.node, n)
  BY <1>2 DEF TableInv, HashInv
<1>4. PICK c : c = Contents(t)
  OBVIOUS
<1>5. \A k \in Key : c[k] = Get(t, k)
  BY <1>4 DEF Contents
<1>6. PICK m, bare : m = VectorSize(h) /\ bare = Bare(t, a, h)
  OBVIOUS
<1>7. Filled(c, bare, m, a, InSlots(t, a, 0), M)
  BY <1>4, <1>6, BareIs
<1> DEFINE Slot(i, g) == IF i <= a THEN bare ELSE IF t.array[i] = Nil THEN g[i - 1] ELSE Migrate(g[i - 1], i, t.array[i])
           Nd(p, g, x) == IF p = n THEN x
                          ELSE IF t.node[p].val = Nil THEN g[p + 1]
                          ELSE Migrate(g[p + 1], t.node[p].key, t.node[p].val)
           f == CHOOSE f : f = [i \in 0 .. L |-> Slot(i, f)]
           e == CHOOSE e : e = [p \in 0 .. n |-> Nd(p, e, f[L])]
<1>8. Resize(t, a, h) = e[0]
  BY <1>2, <1>6 DEF Resize, Bare
<1>9. f = [i \in 0 .. L |-> Slot(i, f)]
  <2> DEFINE S == {i \in 0 .. L : \E g : g = [j \in 0 .. i |-> Slot(j, g)]}
  <2>1. 0 \in S
    <3>1. PICK g : g = [j \in 0 .. 0 |-> bare]
      OBVIOUS
    <3>2. g = [j \in 0 .. 0 |-> Slot(j, g)]
      <4>1. \A j \in 0 .. 0 : j <= a
        BY <1>2
      <4> QED BY <3>1, <4>1
    <3> HIDE DEF Slot
    <3> QED BY <1>2, <3>2
  <2>2. ASSUME NEW i \in 1 .. L, i - 1 \in S
        PROVE  i \in S
    <3>1. PICK g : g = [j \in 0 .. (i - 1) |-> Slot(j, g)]
      BY <2>2
    <3>2. PICK l : l = [j \in 0 .. i |-> IF j = i THEN Slot(i, g) ELSE g[j]]
      OBVIOUS
    <3>3. \A j \in 0 .. i : l[j] = Slot(j, l)
      <4> TAKE j \in 0 .. i
      <4>1. j # 0 => l[j - 1] = g[j - 1]
        BY <3>2
      <4>2. Slot(j, l) = Slot(j, g)
        BY <1>2, <4>1
      <4>3. l[j] = Slot(j, g)
        <5> HIDE DEF Slot
        <5>1. CASE j = i
          BY <3>2, <5>1
        <5>2. CASE j # i
          <6>1. j \in 0 .. (i - 1)
            BY <5>2
          <6> QED BY <3>1, <3>2, <5>2, <6>1
        <5> QED BY <5>1, <5>2
      <4> QED BY <4>2, <4>3
    <3> HIDE DEF Slot
    <3>4. l = [j \in 0 .. i |-> l[j]]
      BY <3>2
    <3>5. l = [j \in 0 .. i |-> Slot(j, l)]
      BY <3>3, <3>4
    <3> QED BY <3>5
  <2> HIDE DEF S
  <2>3. 0 .. L \subseteq S
    BY <1>2, <2>1, <2>2, UpTo
  <2>4. L \in S
    BY <1>2, <2>3
  <2>5. \E g : g = [j \in 0 .. L |-> Slot(j, g)]
    BY <2>4 DEF S
  <2> HIDE DEF Slot
  <2> QED BY <2>5, Zenon
<1> HIDE DEF f
<1> DEFINE S == {i \in 0 .. L : Filled(c, f[i], m, a, InSlots(t, a, i), M)}
<1>10. 0 \in S
  <2>1. f[0] = bare
    BY <1>2, <1>9
  <2> QED BY <1>2, <1>7, <2>1
<1>11. ASSUME NEW i \in 1 .. L, i - 1 \in S
       PROVE  i \in S
  <2>0. i \in 0 .. L
    BY <1>2
  <2>1. f[i] = Slot(i, f)
    <3> HIDE DEF Slot
    <3> QED BY <1>9, <2>0
  <2>2. Filled(c, f[i - 1], m, a, InSlots(t, a, i - 1), M)
    BY <1>11
  <2>3. CASE i <= a
    <3>1. f[i] = bare
      BY <2>1, <2>3
    <3>2. InSlots(t, a, i) = InSlots(t, a, 0)
      <4>1. \A k \in 1 .. L : (k <= a \/ k <= i) <=> k <= a
        BY <1>2, <2>3
      <4>2. \A k \in 1 .. L : (k <= a \/ k <= 0) <=> k <= a
        BY <1>2
      <4> QED BY <1>1, <4>1, <4>2 DEF InSlots
    <3> QED BY <1>7, <3>1, <3>2
  <2>4. CASE ~(i <= a) /\ t.array[i] = Nil
    <3>1. f[i] = f[i - 1]
      BY <2>1, <2>4
    <3>2. InSlots(t, a, i - 1) \subseteq InSlots(t, a, i)
      BY <1>1, <1>2 DEF InSlots
    <3>3. \A k \in InSlots(t, a, i) \ InSlots(t, a, i - 1) : c[k] = Nil
      <4> TAKE k \in InSlots(t, a, i) \ InSlots(t, a, i - 1)
      <4>1. k \in Key /\ k = i
        BY <1>1, <1>2 DEF InSlots
      <4>2. Get(t, k) = t.array[k]
        BY <1>1, <1>2, <4>1, GetIs
      <4> QED BY <1>5, <2>4, <4>1, <4>2
    <3>4. Filled(c, f[i - 1], m, a, InSlots(t, a, i), M)
      BY <2>2, <3>2, <3>3, FilledMore
    <3> QED BY <3>1, <3>4
  <2>5. CASE ~(i <= a) /\ t.array[i] # Nil
    <3>1. f[i] = Migrate(f[i - 1], i, t.array[i])
      BY <2>1, <2>5
    <3>2. i \in 1 .. MaxKey /\ i \in Key
      <4>1. i <= MaxKey
        BY <1>1, <1>2, <2>5 DEF TableInv
      <4> QED BY <4>1, TableAssumption DEF Key, IntKey
    <3>3. Get(t, i) = t.array[i]
      BY <1>1, <1>2, <3>2, GetIs
    <3>4. /\ i \notin InSlots(t, a, i - 1) /\ i \in M /\ t.array[i] = c[i] /\ t.array[i] \in Value \cup {Nil}
      BY <1>2, <1>5, <2>5, <3>2, <3>3 DEF InSlots
    <3>5. Filled(c, Migrate(f[i - 1], i, t.array[i]), m, a, InSlots(t, a, i - 1) \cup {i}, M)
      BY <2>2, <3>2, <3>4, MigrateFills
    <3>6. InSlots(t, a, i - 1) \cup {i} = InSlots(t, a, i)
      <4>1. \A k \in 1 .. L : (k <= a \/ k <= i) <=> (k <= a \/ k <= i - 1 \/ k = i)
        BY <1>2
      <4> QED BY <1>1, <3>2, <4>1 DEF InSlots
    <3> QED BY <2>0, <3>1, <3>5, <3>6
  <2> QED BY <2>3, <2>4, <2>5
<1> HIDE DEF S
<1>12. 0 .. L \subseteq S
  BY <1>2, <1>10, <1>11, UpTo
<1>13. Filled(c, f[L], m, a, InNodes(t, n, n), M)
  <2>1. Filled(c, f[L], m, a, InSlots(t, a, L), M)
    BY <1>2, <1>12 DEF S
  <2>2. \A q \in 0 .. (n - 1) : ~(q >= n)
    BY <1>2
  <2>3. \A k \in 1 .. L : k <= L
    OBVIOUS
  <2>4. InSlots(t, a, L) = InNodes(t, n, n)
    BY <1>1, <2>2, <2>3 DEF InSlots, InNodes
  <2> QED BY <2>1, <2>4
<1>14. PICK last : last = f[L]
  OBVIOUS
<1>15. e = [p \in 0 .. n |-> Nd(p, e, last)]
  <2> DEFINE U == {p \in 0 .. n : \E g : g = [j \in p .. n |-> Nd(j, g, last)]}
  <2>1. n \in U
    <3>1. PICK g : g = [j \in n .. n |-> last]
      OBVIOUS
    <3>2. g = [j \in n .. n |-> Nd(j, g, last)]
      <4>1. \A j \in n .. n : j = n
        BY <1>2
      <4> QED BY <3>1, <4>1
    <3> HIDE DEF Nd
    <3> QED BY <1>2, <3>2
  <2>2. ASSUME NEW p \in 0 .. (n - 1), p + 1 \in U
        PROVE  p \in U
    <3>1. PICK g : g = [j \in (p + 1) .. n |-> Nd(j, g, last)]
      BY <2>2
    <3>2. PICK l : l = [j \in p .. n |-> IF j = p THEN Nd(p, g, last) ELSE g[j]]
      OBVIOUS
    <3>3. \A j \in p .. n : l[j] = Nd(j, l, last)
      <4> TAKE j \in p .. n
      <4>1. j # n => l[j + 1] = g[j + 1]
        BY <1>2, <3>2
      <4>2. Nd(j, l, last) = Nd(j, g, last)
        BY <1>2, <4>1
      <4>3. l[j] = Nd(j, g, last)
        <5> HIDE DEF Nd
        <5>1. CASE j = p
          BY <3>2, <5>1
        <5>2. CASE j # p
          <6>1. j \in (p + 1) .. n
            BY <1>2, <5>2
          <6> QED BY <3>1, <3>2, <5>2, <6>1
        <5> QED BY <5>1, <5>2
      <4> QED BY <4>2, <4>3
    <3> HIDE DEF Nd
    <3>4. l = [j \in p .. n |-> l[j]]
      BY <3>2
    <3>5. l = [j \in p .. n |-> Nd(j, l, last)]
      BY <3>3, <3>4
    <3>6. p \in 0 .. n
      BY <1>2
    <3> QED BY <3>5, <3>6
  <2> HIDE DEF U
  <2>3. 0 .. n \subseteq U
    BY <1>2, <2>1, <2>2, DownFrom
  <2>4. 0 \in U
    BY <1>2, <2>3
  <2>5. \E g : g = [j \in 0 .. n |-> Nd(j, g, last)]
    BY <2>4 DEF U
  <2> HIDE DEF Nd
  <2> QED BY <1>14, <2>5, Zenon
<1> HIDE DEF e
<1> DEFINE U == {p \in 0 .. n : Filled(c, e[p], m, a, InNodes(t, n, p), M)}
<1>16. n \in U
  <2>1. e[n] = f[L]
    BY <1>2, <1>14, <1>15
  <2> QED BY <1>2, <1>13, <2>1
<1>17. ASSUME NEW p \in 0 .. (n - 1), p + 1 \in U
       PROVE  p \in U
  <2>1. p \in 0 .. n /\ e[p] = Nd(p, e, last)
    BY <1>2, <1>15
  <2>2. Filled(c, e[p + 1], m, a, InNodes(t, n, p + 1), M)
    BY <1>17
  <2>3. PICK k : k = t.node[p].key
    OBVIOUS
  <2>4. \A x \in Key : x \in InNodes(t, n, p) <=> x \in InNodes(t, n, p + 1) \/ HasKey(t.node, p, x)
    <3>1. \A q \in 0 .. (n - 1) : q >= p <=> (q >= p + 1 \/ q = p)
      BY <1>2
    <3> QED BY <3>1 DEF InNodes
  <2>5. \A x \in Key : HasKey(t.node, p, x) => c[x] = t.node[p].val
    BY <1>2, <1>5, GetIs
  <2>6. CASE t.node[p].val = Nil
    <3>1. e[p] = e[p + 1]
      BY <1>2, <2>1, <2>6
    <3>2. InNodes(t, n, p + 1) \subseteq InNodes(t, n, p) /\ \A x \in InNodes(t, n, p) \ InNodes(t, n, p + 1) : c[x] = Nil
      BY <2>4, <2>5, <2>6 DEF InNodes
    <3>3. Filled(c, e[p + 1], m, a, InNodes(t, n, p), M)
      BY <2>2, <3>2, FilledMore
    <3> QED BY <2>1, <3>1, <3>3
  <2>7. CASE t.node[p].val # Nil
    <3>1. e[p] = Migrate(e[p + 1], k, t.node[p].val)
      BY <1>2, <2>1, <2>3, <2>7
    <3>2. HasKey(t.node, p, k) /\ k \in Key /\ t.node[p].val \in Value \cup {Nil}
      <4>1. t.node[p].key # Nil /\ ~t.node[p].dead
        BY <1>3, <2>7 DEF HashInv, Empty
      <4>2. t.node[p] \in Node
        BY <1>3, NodesAre
      <4> QED BY <2>3, <4>1, <4>2, NodeIs DEF HasKey
    <3>3. Get(t, k) = t.node[p].val /\ k \notin 1 .. L
      BY <1>1, <1>2, <3>2, GetIs
    <3>4. k \notin InNodes(t, n, p + 1)
      <4>1. \A q \in 0 .. (n - 1) : HasKey(t.node, q, k) => q = p
        BY <1>3, <3>2 DEF HashInv
      <4>2. ~(p >= p + 1)
        OBVIOUS
      <4> QED BY <1>1, <3>3, <4>1, <4>2 DEF InNodes
    <3>5. t.node[p].val = c[k] /\ (k \in 1 .. a \/ k \in M)
      BY <1>2, <1>5, <2>7, <3>2, <3>3
    <3>6. Filled(c, Migrate(e[p + 1], k, t.node[p].val), m, a, InNodes(t, n, p + 1) \cup {k}, M)
      BY <2>2, <3>2, <3>4, <3>5, MigrateFills
    <3>7. InNodes(t, n, p + 1) \cup {k} = InNodes(t, n, p)
      <4>1. \A x : HasKey(t.node, p, x) <=> x = k
        BY <2>3, <3>2 DEF HasKey
      <4>2. InNodes(t, n, p + 1) \subseteq Key /\ InNodes(t, n, p) \subseteq Key
        BY DEF InNodes
      <4> QED BY <2>4, <3>2, <4>1, <4>2
    <3> QED BY <2>1, <3>1, <3>6, <3>7
  <2> QED BY <2>6, <2>7
<1> HIDE DEF U
<1>18. 0 .. n \subseteq U
  BY <1>2, <1>16, <1>17, DownFrom
<1>19. Filled(c, e[0], m, a, InNodes(t, n, 0), M)
  BY <1>2, <1>18 DEF U
<1> QED BY <1>4, <1>6, <1>8, <1>19

-----------------------------------------------------------------------------
(* Counting keys                                                            *)

\* Nodes with values have different keys.
NodeKeys(nd, P) == {nd[p].key : p \in P}

LEMMA KeysOf ==
  ASSUME NEW nd, NEW n, NEW P, NEW B, HashInv(nd, n), P \subseteq 0 .. (n - 1),
         \A p \in P : nd[p].val # Nil, B = NodeKeys(nd, P)
  PROVE  IsFiniteSet(P) /\ IsFiniteSet(B) /\ Cardinality(B) = Cardinality(P) /\ B \subseteq Key
<1>1. n \in Nat /\ IsNodes(nd, n)
  BY NodesAre DEF HashInv
<1>2. IsFiniteSet(P)
  <2>1. IsFiniteSet(0 .. (n - 1))
    BY <1>1, FS_Interval
  <2> QED BY <2>1, FS_Subset
<1>3. \A p \in P : nd[p].key \in Key /\ HasKey(nd, p, nd[p].key)
  <2>1. \A p \in P : nd[p].key # Nil /\ ~nd[p].dead
    BY DEF HashInv, Empty
  <2> QED BY <1>1, <2>1, KeyIs DEF HasKey
<1> USE DEF NodeKeys
<1> DEFINE f == [p \in P |-> nd[p].key]
<1>4. \A p, q \in P : nd[p].key = nd[q].key => p = q
  BY <1>3 DEF HashInv
<1>5. f \in Bijection(P, B)
  <2>1. f \in [P -> B] /\ \A b \in B : \E p \in P : f[p] = b
    OBVIOUS
  <2>2. \A p, q \in P : f[p] = f[q] => p = q
    BY <1>4
  <2> HIDE DEF f
  <2> QED BY <2>1, <2>2 DEF Bijection, Injection, Surjection, IsInjective
<1>6. ExistsBijection(P, B)
  <2> HIDE DEF f
  <2> QED BY <1>5 DEF ExistsBijection
<1> QED BY <1>2, <1>3, <1>6, FS_Bijection

\* The keys with values
Used(t) == {k \in Key : Get(t, k) # Nil}

\* The keys of the nodes with values
KeysIn(t) == NodeKeys(t.node, UsedNodes(t))

LEMMA UsedIs ==
  ASSUME NEW t, NEW n, TableInv(t, n)
  PROVE  /\ Used(t) = UsedSlots(t) \cup KeysIn(t) /\ UsedSlots(t) \cap KeysIn(t) = {}
         /\ UsedNodes(t) \subseteq 0 .. (n - 1) /\ UsedSlots(t) \subseteq 1 .. Len(t.array)
         /\ KeysIn(t) \cap 1 .. (Len(t.array) + 1) = {}
         /\ IsFiniteSet(UsedSlots(t)) /\ IsFiniteSet(UsedNodes(t)) /\ IsFiniteSet(KeysIn(t)) /\ IsFiniteSet(Used(t))
         /\ Cardinality(KeysIn(t)) = Cardinality(UsedNodes(t)) /\ Cardinality(UsedNodes(t)) <= n
<1>1. /\ n \in Nat /\ t \in Tables(n) /\ HashInv(t.node, n) /\ IsNodes(t.node, n) /\ DOMAIN t.node = 0 .. (n - 1)
      /\ Len(t.array) \in Nat /\ DOMAIN t.array = 1 .. Len(t.array)
  BY TableIs, NodesAre DEF TableInv, HashInv
<1>2. UsedNodes(t) \subseteq 0 .. (n - 1) /\ UsedSlots(t) \subseteq 1 .. Len(t.array)
  BY <1>1 DEF UsedNodes, UsedSlots
<1>3. /\ IsFiniteSet(UsedNodes(t)) /\ IsFiniteSet(KeysIn(t)) /\ Cardinality(KeysIn(t)) = Cardinality(UsedNodes(t))
      /\ KeysIn(t) \subseteq Key
  <2>1. \A p \in UsedNodes(t) : t.node[p].val # Nil
    BY DEF UsedNodes
  <2> QED BY <1>1, <1>2, <2>1, KeysOf DEF KeysIn
<1>4. \A p \in UsedNodes(t) : t.node[p].key \in Key /\ HasKey(t.node, p, t.node[p].key) /\ t.node[p].val # Nil
  <2>1. \A p \in UsedNodes(t) : t.node[p].key # Nil /\ ~t.node[p].dead /\ t.node[p].val # Nil
    BY <1>1, <1>2 DEF HashInv, Empty, UsedNodes
  <2> QED BY <1>1, <1>2, <2>1, KeyIs DEF HasKey
<1>5. KeysIn(t) \cap 1 .. (Len(t.array) + 1) = {}
  <2>1. \A p \in UsedNodes(t) : t.node[p].key \notin 1 .. (Len(t.array) + 1)
    BY <1>2, <1>4 DEF TableInv
  <2> QED BY <2>1 DEF KeysIn, NodeKeys
<1>6. UsedSlots(t) \cap KeysIn(t) = {}
  BY <1>1, <1>2, <1>5
<1>7. IsFiniteSet(UsedSlots(t))
  <2>1. IsFiniteSet(1 .. Len(t.array))
    BY <1>1, FS_Interval
  <2> QED BY <1>2, <2>1, FS_Subset
<1>8. \A k \in UsedSlots(t) : k \in Key /\ Get(t, k) # Nil
  <2> TAKE k \in UsedSlots(t)
  <2>1. k \in 1 .. Len(t.array) /\ t.array[k] # Nil
    BY <1>1 DEF UsedSlots
  <2>2. k <= MaxKey
    BY <2>1 DEF TableInv
  <2>3. k \in Key
    BY <2>1, <2>2, TableAssumption DEF Key, IntKey
  <2> QED BY <2>1, <2>3, GetIs
<1>9. \A k \in KeysIn(t) : k \in Key /\ Get(t, k) # Nil
  <2> TAKE k \in KeysIn(t)
  <2>1. PICK p \in UsedNodes(t) : k = t.node[p].key
    BY DEF KeysIn, NodeKeys
  <2>2. k \in Key /\ HasKey(t.node, p, k) /\ t.node[p].val # Nil /\ p \in 0 .. (n - 1)
    BY <1>2, <1>4, <2>1
  <2> QED BY <2>2, GetIs
<1>10. \A k \in Used(t) : k \in UsedSlots(t) \cup KeysIn(t)
  <2> TAKE k \in Used(t)
  <2>1. k \in Key /\ Get(t, k) # Nil
    BY DEF Used
  <2>2. CASE InArray(t, k)
    BY <1>1, <2>1, <2>2, GetIs DEF UsedSlots
  <2>3. CASE ~InArray(t, k)
    <3>1. PICK p \in 0 .. (n - 1) : HasKey(t.node, p, k)
      BY <2>1, <2>3, GetIs
    <3>2. t.node[p].val # Nil /\ t.node[p].key = k
      BY <2>1, <3>1, GetIs DEF HasKey
    <3> QED BY <1>1, <3>2 DEF KeysIn, NodeKeys, UsedNodes
  <2> QED BY <2>2, <2>3
<1>11. Used(t) = UsedSlots(t) \cup KeysIn(t)
  BY <1>8, <1>9, <1>10 DEF Used
<1>12. IsFiniteSet(Used(t))
  BY <1>3, <1>7, <1>11, FS_Union
<1>13. Cardinality(UsedNodes(t)) <= n
  <2>1. IsFiniteSet(0 .. (n - 1)) /\ Cardinality(0 .. (n - 1)) = IF 0 > n - 1 THEN 0 ELSE (n - 1) - 0 + 1
    BY <1>1, FS_Interval
  <2>2. Cardinality(0 .. (n - 1)) = n
    BY <1>1, <2>1
  <2> QED BY <1>2, <2>1, <2>2, FS_Subset
<1> QED BY <1>2, <1>3, <1>5, <1>6, <1>7, <1>11, <1>12, <1>13

\* No live key but k itself is like k.
Sole(nd, n, k) == \A q \in 0 .. (n - 1) : nd[q].key # Nil /\ ~nd[q].dead /\ Alike(nd[q].key, k) => nd[q].key = k

\* No two keys that are in use are alike.
LEMMA UsedApart ==
  ASSUME NEW t, NEW n, TableInv(t, n), Orderly(t.node, n)
  PROVE  Apart(Used(t)) /\ \A k \in Key : Sole(t.node, n, k) => Apart(Used(t) \cup {k})
<1>1. HashInv(t.node, n) /\ IsNodes(t.node, n) /\ Linked(t.node, n)
  BY DEF TableInv, HashInv
<1>2. ASSUME NEW x \in Used(t), x \in Obj
      PROVE  \E p \in 0 .. (n - 1) : HasKey(t.node, p, x) /\ t.node[p].key # Nil /\ ~t.node[p].dead
  <2>1. x \in Key /\ Get(t, x) # Nil
    BY DEF Used
  <2>2. x \notin 1 .. Len(t.array)
    BY <1>2, TableAssumption
  <2>3. ~InArray(t, x)
    BY ONLY <2>1, <2>2, TableInv(t, n), GetIs
  <2>4. \E p \in 0 .. (n - 1) : HasKey(t.node, p, x)
    BY ONLY <2>1, <2>3, TableInv(t, n), GetIs
  <2> QED BY ONLY <2>1, <2>4, NilIsNoKey DEF HasKey
<1>3. ASSUME NEW x \in Used(t), NEW y \in Used(t), Alike(x, y), x # y
      PROVE  FALSE
  <2>1. x \in Obj /\ y \in Obj
    BY ONLY <1>3 DEF Alike
  <2>2. x \in Key /\ y \in Key
    BY DEF Used
  <2>3. Alike(y, x)
    BY ONLY <1>3, <2>2, AlikeHash
  <2>4. PICK p \in 0 .. (n - 1) : HasKey(t.node, p, x) /\ t.node[p].key # Nil /\ ~t.node[p].dead
    BY ONLY <1>2, <2>1, x \in Used(t)
  <2>5. PICK q \in 0 .. (n - 1) : HasKey(t.node, q, y) /\ t.node[q].key # Nil /\ ~t.node[q].dead
    BY ONLY <1>2, <2>1, y \in Used(t)
  <2>6. t.node[p].key = x /\ t.node[q].key = y /\ p # q
    BY ONLY <1>3, <2>4, <2>5 DEF HasKey
  <2>7. Reach(t.node, n, p, q) /\ Reach(t.node, n, q, p)
    BY ONLY <1>3, <2>3, <2>4, <2>5, <2>6, Orderly(t.node, n) DEF Orderly
  <2> QED BY ONLY <1>1, <2>6, <2>7, ReachOneWay
<1>4. ASSUME NEW k \in Key, Sole(t.node, n, k), NEW x \in Used(t), Alike(x, k)
      PROVE  x = k
  <2> SUFFICES ASSUME x # k PROVE FALSE
    OBVIOUS
  <2>1. x \in Obj
    BY ONLY <1>4, x # k DEF Alike
  <2>2. PICK p \in 0 .. (n - 1) : HasKey(t.node, p, x) /\ t.node[p].key # Nil /\ ~t.node[p].dead
    BY ONLY <1>2, <2>1, x \in Used(t)
  <2> QED BY ONLY <1>4, <2>2, x # k DEF HasKey, Sole
<1>5. ASSUME NEW k \in Key, Sole(t.node, n, k)
      PROVE  Apart(Used(t) \cup {k})
  <2> SUFFICES ASSUME NEW x \in Used(t) \cup {k}, NEW y \in Used(t) \cup {k}, Alike(x, y) PROVE x = y
    BY DEF Apart
  <2>1. x \in Key /\ y \in Key
    BY DEF Used
  <2>2. Alike(y, x)
    BY ONLY <2>1, Alike(x, y), AlikeHash
  <2> QED BY ONLY <1>3, <1>4, <1>5, <2>2, Alike(x, y), x \in Used(t) \cup {k}, y \in Used(t) \cup {k}, k \in Key
<1> QED BY ONLY <1>3, <1>5 DEF Apart

LEMMA ApartSubset ==
  ASSUME NEW M, NEW K, Apart(K), M \subseteq K
  PROVE  Apart(M)
BY DEF Apart

LEMMA Disjoint ==
  ASSUME NEW S, NEW T, IsFiniteSet(S), IsFiniteSet(T), S \cap T = {}
  PROVE  /\ IsFiniteSet(S \cup T) /\ Cardinality(S \cup T) = Cardinality(S) + Cardinality(T)
         /\ Cardinality(S) \in Nat /\ Cardinality(T) \in Nat
<1>1. Cardinality(S \cup T) = Cardinality(S) + Cardinality(T) - Cardinality(S \cap T) /\ IsFiniteSet(S \cup T)
  BY FS_Union
<1>2. Cardinality(S) \in Nat /\ Cardinality(T) \in Nat /\ Cardinality(S \cap T) = 0
  BY FS_CardinalityType, FS_EmptySet
<1> QED BY <1>1, <1>2

\* countint counts the keys up to m, once each, with k, which has no value yet.
LEMMA CountIs ==
  ASSUME NEW t, NEW n, NEW m, NEW k, TableInv(t, n), m \in Nat, k \in Key, Get(t, k) = Nil
  PROVE  /\ CountInt(t, m, k) = Cardinality((Used(t) \cup {k}) \cap 1 .. m)
         /\ IsFiniteSet(Used(t) \cup {k})
         /\ Cardinality(UsedSlots(t)) + Cardinality(UsedNodes(t)) + 1 = Cardinality(Used(t) \cup {k})
<1>1. PICK A, N, K : A = UsedSlots(t) /\ N = UsedNodes(t) /\ K = KeysIn(t)
  OBVIOUS
<1>2. /\ Used(t) = A \cup K /\ A \cap K = {} /\ IsFiniteSet(A) /\ IsFiniteSet(N) /\ IsFiniteSet(K)
      /\ IsFiniteSet(Used(t)) /\ Cardinality(K) = Cardinality(N) /\ N \subseteq 0 .. (n - 1)
  BY <1>1, UsedIs
<1>3. k \notin Used(t)
  BY DEF Used
<1>4. Cardinality(A) + Cardinality(N) + 1 = Cardinality(Used(t) \cup {k}) /\ IsFiniteSet(Used(t) \cup {k})
  <2>1. Cardinality(A \cup K) = Cardinality(A) + Cardinality(K)
    BY <1>2, Disjoint
  <2>2. /\ IsFiniteSet(Used(t) \cup {k})
        /\ Cardinality(Used(t) \cup {k}) = IF k \in Used(t) THEN Cardinality(Used(t)) ELSE Cardinality(Used(t)) + 1
    BY ONLY <1>2, FS_AddElement
  <2> QED BY <1>2, <1>3, <2>1, <2>2
<1>5. PICK P, B : P = {p \in N : t.node[p].key \in 1 .. m} /\ B = NodeKeys(t.node, P)
  OBVIOUS
<1>6. IsFiniteSet(B) /\ Cardinality(B) = Cardinality(P)
  <2>1. HashInv(t.node, n) /\ P \subseteq 0 .. (n - 1) /\ \A p \in P : t.node[p].val # Nil
    BY <1>1, <1>2, <1>5 DEF TableInv, UsedNodes
  <2> QED BY <1>5, <2>1, KeysOf
<1>7. B = K \cap 1 .. m
  BY <1>1, <1>5 DEF KeysIn, NodeKeys
<1>8. CountInt(t, m, k) = Cardinality(A \cap 1 .. m) + Cardinality(P) + Cardinality({k} \cap 1 .. m)
  BY <1>1, <1>5 DEF CountInt
<1>9. PICK C, E : C = A \cap 1 .. m /\ E = {k} \cap 1 .. m
  OBVIOUS
<1>10. IsFiniteSet(C) /\ IsFiniteSet(E) /\ C \cap B = {} /\ (C \cup B) \cap E = {} /\ (Used(t) \cup {k}) \cap 1 .. m = (C \cup B) \cup E
  <2>1. IsFiniteSet(C)
    BY <1>2, <1>9, FS_Intersection
  <2>2. IsFiniteSet(E)
    BY <1>9, FS_Singleton, FS_Intersection
  <2> QED BY <1>2, <1>3, <1>7, <1>9, <2>1, <2>2
<1>11. IsFiniteSet(C \cup B) /\ Cardinality(C \cup B) = Cardinality(C) + Cardinality(B)
  BY <1>6, <1>10, Disjoint
<1>12. Cardinality((C \cup B) \cup E) = Cardinality(C \cup B) + Cardinality(E)
  BY <1>10, <1>11, Disjoint
<1> QED BY <1>1, <1>4, <1>6, <1>8, <1>9, <1>10, <1>11, <1>12

\* The assertion of computesizes
LEMMA ArraySizeIs ==
  ASSUME NEW t, NEW n, NEW k, TableInv(t, n), k \in Key, Get(t, k) = Nil
  PROVE  /\ ArraySize(t, k) \in Nat
         /\ ArraySize(t, k) \div 2 <= CountInt(t, ArraySize(t, k), k)
         /\ CountInt(t, ArraySize(t, k), k) <= ArraySize(t, k)
<1>1. \A m \in Nat : CountInt(t, m, k) \in Nat /\ CountInt(t, m, k) <= m
  <2> TAKE m \in Nat
  <2>1. CountInt(t, m, k) = Cardinality((Used(t) \cup {k}) \cap 1 .. m)
    BY ONLY TableInv(t, n), k \in Key, Get(t, k) = Nil, m \in Nat, CountIs, ZenonT(60)
  <2>2. IsFiniteSet(1 .. m) /\ Cardinality(1 .. m) = m
    <3>1. IsFiniteSet(1 .. m) /\ Cardinality(1 .. m) = IF 1 > m THEN 0 ELSE m - 1 + 1
      BY FS_Interval
    <3> QED BY <3>1
  <2>3. PICK S : S = (Used(t) \cup {k}) \cap 1 .. m
    OBVIOUS
  <2>4. S \in SUBSET (1 .. m)
    BY <2>3
  <2>5. IsFiniteSet(S) /\ Cardinality(S) <= Cardinality(1 .. m)
    BY ONLY <2>2, <2>4, FS_Subset
  <2> QED BY <2>1, <2>2, <2>3, <2>5, FS_CardinalityType
<1>2. PICK total : total = CountInt(t, MaxKey, k)
  OBVIOUS
<1>3. total \in Nat
  BY <1>1, <1>2, TableAssumption
<1> DEFINE fit == {m \in Pow2(total) : /\ m \div 2 < total
                                      /\ CountInt(t, m, k) > m \div 2
                                      /\ CountInt(t, m, k) > CountInt(t, m \div 2, k)}
<1>4. ArraySize(t, k) = IF fit = {} THEN 0 ELSE CHOOSE m \in fit : \A l \in fit : l <= m
  BY <1>2 DEF ArraySize
<1>5. \A m \in fit : m \in Nat /\ m \div 2 < total /\ CountInt(t, m, k) > m \div 2
  BY <1>3, Pow2Is
<1> HIDE DEF fit
<1>6. CASE fit = {}
  BY <1>1, <1>4, <1>6
<1>7. CASE fit # {}
  <2>1. PICK b : b = 2 * total
    OBVIOUS
  <2>2. b \in Nat /\ fit \subseteq 0 .. b
    <3>1. \A m \in Nat : m \div 2 < total => m <= 2 * total
      BY <1>3
    <3> QED BY <1>3, <1>5, <2>1, <3>1
  <2>3. \E m \in fit : \A l \in fit : l <= m
    BY <1>7, <2>2, GreatestNumber
  <2>4. ArraySize(t, k) \in fit
    BY <1>4, <1>7, <2>3
  <2>5. PICK m : m = ArraySize(t, k)
    OBVIOUS
  <2>6. m \in Nat /\ CountInt(t, m, k) > m \div 2
    BY <1>5, <2>4, <2>5
  <2>7. CountInt(t, m, k) \in Nat /\ CountInt(t, m, k) <= m /\ m \div 2 \in Int
    BY <1>1, <2>6
  <2>8. m \div 2 <= CountInt(t, m, k)
    BY <2>6, <2>7
  <2> QED BY <2>5, <2>6, <2>7, <2>8
<1> QED BY <1>6, <1>7

\* The keys that adjustasize takes into the array are there, and the next one is not.
LEMMA AdjustIs ==
  ASSUME NEW t, NEW n, NEW s, NEW k, TableInv(t, n), s \in Nat, k \in Key \cup {Nil}
  PROVE  /\ AdjustASize(t, s, k) \in Nat /\ AdjustASize(t, s, k) >= s
         /\ \A r \in (s + 1) .. AdjustASize(t, s, k) : r = k \/ r \in Used(t)
         /\ AdjustASize(t, s, k) + 1 # k /\ AdjustASize(t, s, k) + 1 \notin Used(t)
<1> DEFINE bound == t.node # Dummy \/ s < SizeArray(t)
           Wanted(i) == \/ i = k
                        \/ bound /\ i \in IntKey /\ Get(t, i) # Nil
           S == {i \in s .. s + MaxKey + 1 : ~Wanted(i + 1)}
<1>1. MaxKey \in Nat /\ \A x \in Obj \cup {Nil} : x \notin Int
  BY TableAssumption
<1>2. S \subseteq Nat /\ S # {}
  <2>1. s + MaxKey + 1 # k
    BY <1>1 DEF Key, IntKey
  <2>2. s + MaxKey + 1 \notin IntKey
    BY <1>1 DEF IntKey
  <2>3. s + MaxKey \in s .. s + MaxKey + 1
    BY <1>1
  <2>4. s + MaxKey \in S
    BY <2>1, <2>2, <2>3
  <2>5. S \subseteq Nat
    BY <1>1
  <2> QED BY <2>4, <2>5
<1> HIDE DEF bound
<1>3. PICK m \in S : \A i \in S : m <= i
  <2> HIDE DEF S
  <2> QED BY <1>2, LeastNumber
<1>4. \E a \in s .. s + MaxKey + 1 : ~Wanted(a + 1) /\ \A r \in s + 1 .. a : Wanted(r)
  <2>1. ASSUME NEW r \in s + 1 .. m
        PROVE  Wanted(r)
    <3>1. r - 1 \in s .. s + MaxKey + 1 /\ ~(m <= r - 1) /\ (r - 1) + 1 = r
      BY <1>1, <1>3
    <3>2. Wanted((r - 1) + 1)
      <4> HIDE DEF Wanted
      <4> QED BY <1>3, <3>1
    <3> QED BY <3>1, <3>2
  <2> HIDE DEF Wanted
  <2> QED BY <1>3, <2>1
<1>5. PICK a : a = AdjustASize(t, s, k)
  OBVIOUS
<1>6. a = CHOOSE a_1 \in s .. s + MaxKey + 1 : ~Wanted(a_1 + 1) /\ \A r \in s + 1 .. a_1 : Wanted(r)
  BY <1>5 DEF AdjustASize, bound
<1>7. a \in s .. s + MaxKey + 1 /\ ~Wanted(a + 1) /\ \A r \in s + 1 .. a : Wanted(r)
  <2> HIDE DEF Wanted
  <2> QED BY <1>4, <1>6
<1>8. a \in Nat /\ a >= s
  BY <1>1, <1>7
<1>9. \A r \in s + 1 .. a : r = k \/ r \in Used(t)
  BY <1>7 DEF Used, Key
<1>10. a + 1 # k
  BY <1>7
<1>11. ASSUME a + 1 \in Used(t)
       PROVE  FALSE
  <2>1. a + 1 \in Key /\ Get(t, a + 1) # Nil
    BY <1>11 DEF Used
  <2>2. a + 1 \in IntKey
    BY <1>1, <1>8, <2>1 DEF Key
  <2>3. ~bound
    BY <1>7, <2>1, <2>2
  <2>4. n \in Nat /\ t \in Tables(n) /\ IsNodes(t.node, n) /\ SizeArray(t) = Len(t.array) /\ Len(t.array) \in Nat
    BY TableIs DEF TableInv, HashInv
  <2>5. n = 0 /\ a + 1 \notin 1 .. Len(t.array)
    BY <1>8, <2>3, <2>4, NodesAre DEF bound
  <2>6. ~InArray(t, a + 1) /\ \A p \in 0 .. (n - 1) : FALSE
    BY <2>1, <2>5, GetIs
  <2> QED BY <2>1, <2>6, GetIs
<1> QED BY <1>5, <1>8, <1>9, <1>10, <1>11

\* What rehash resizes to holds every key with a value, and k.
LEMMA RehashFills ==
  ASSUME NEW t, NEW n, NEW k, TableInv(t, n), ~t.recursed, k \in Key, Get(t, k) = Nil
  PROVE  \E m, a, M : /\ Filled(Contents(t), Rehash(t, k), m, a, InNodes(t, n, 0), M)
                      /\ Fits(M, a, m) /\ (k \in 1 .. a \/ k \in M) /\ M \subseteq Used(t) \cup {k}
<1>1. PICK nasize : nasize = ArraySize(t, k)
  OBVIOUS
<1>2. nasize \in Nat
  BY <1>1, ArraySizeIs
<1>3. PICK K, na, total, adjusted : /\ K = Used(t) \cup {k} /\ na = CountInt(t, nasize, k)
                                    /\ total = Cardinality(UsedSlots(t)) + Cardinality(UsedNodes(t)) + 1
                                    /\ adjusted = AdjustASize(t, nasize, k)
  OBVIOUS
<1>4. /\ na = Cardinality(K \cap 1 .. nasize) /\ IsFiniteSet(K) /\ total = Cardinality(K)
  BY <1>2, <1>3, CountIs
<1>5. /\ adjusted \in Nat /\ adjusted >= nasize /\ \A r \in (nasize + 1) .. adjusted : r \in K
      /\ adjusted + 1 \notin K
  BY <1>2, <1>3, AdjustIs
<1>6. PICK extra, nh : extra = adjusted - nasize /\ nh = (total - na) - extra
  OBVIOUS
<1>7. PICK M0 : M0 = K \ 1 .. adjusted
  OBVIOUS
<1>8. IsFiniteSet(M0) /\ Cardinality(M0) = nh /\ nh \in Int
  <2>1. PICK A, B : A = K \cap 1 .. nasize /\ B = (nasize + 1) .. adjusted
    OBVIOUS
  <2>2. A \cap B = {} /\ A \cup B = K \cap 1 .. adjusted
    BY <1>2, <1>5, <2>1
  <2>3. IsFiniteSet(A)
    BY <1>4, <2>1, FS_Intersection
  <2>4. IsFiniteSet(B) /\ Cardinality(B) = extra
    <3>1. PICK l : l = nasize + 1
      OBVIOUS
    <3>2. l \in Int /\ adjusted \in Int /\ B = l .. adjusted
      BY <1>2, <1>5, <2>1, <3>1
    <3>3. IsFiniteSet(B) /\ Cardinality(B) = IF l > adjusted THEN 0 ELSE adjusted - l + 1
      BY <3>2, FS_Interval
    <3> QED BY <1>2, <1>5, <1>6, <3>1, <3>3
  <2>5. Cardinality(A \cup B) = Cardinality(A) + Cardinality(B) /\ Cardinality(A) \in Nat
    BY <2>2, <2>3, <2>4, Disjoint
  <2>6. PICK I : I = 1 .. adjusted
    OBVIOUS
  <2>7. IsFiniteSet(K \ I) /\ Cardinality(K \ I) = Cardinality(K) - Cardinality(K \cap I)
    BY ONLY <1>4, FS_Difference
  <2>8. Cardinality(K) \in Nat /\ extra \in Int
    BY <1>2, <1>4, <1>5, <1>6, FS_CardinalityType
  <2>9. Cardinality(K \cap I) = na + extra /\ na \in Int /\ total \in Int /\ total = Cardinality(K)
    <3>1. K \cap I = A \cup B
      BY <2>2, <2>6
    <3>2. Cardinality(A) = na
      BY <1>4, <2>1
    <3>3. Cardinality(K \cap I) = na + extra
      BY ONLY <2>4, <2>5, <3>1, <3>2
    <3> QED BY ONLY <1>4, <2>5, <2>8, <3>2, <3>3
  <2>10. M0 = K \ I
    BY <1>7, <2>6
  <2>11. IsFiniteSet(M0) /\ Cardinality(M0) = total - (na + extra)
    BY ONLY <2>7, <2>9, <2>10
  <2> QED BY ONLY <1>6, <2>8, <2>9, <2>11
<1>9. PICK a : a = IF extra = 0 THEN nasize ELSE AdjustASize(t, adjusted + extra, k)
  OBVIOUS
<1>10. Rehash(t, k) = Resize(t, a, nh)
  BY <1>1, <1>3, <1>6, <1>9 DEF Rehash
<1>11. a \in Nat /\ a >= adjusted /\ a + 1 \notin K
  <2>1. CASE extra = 0
    BY <1>2, <1>5, <1>6, <1>9, <2>1
  <2>2. CASE extra # 0
    <3>1. PICK s : s = adjusted + extra
      OBVIOUS
    <3>2. s \in Nat /\ s >= adjusted
      BY <1>2, <1>5, <1>6, <3>1
    <3>3. a = AdjustASize(t, s, k)
      BY <1>9, <2>2, <3>1
    <3>4. a \in Nat /\ a >= s /\ a + 1 # k /\ a + 1 \notin Used(t)
      BY <3>2, <3>3, AdjustIs
    <3> QED BY <1>3, <1>5, <3>2, <3>4
  <2> QED BY <2>1, <2>2
<1>12. PICK M : M = K \ 1 .. a
  OBVIOUS
<1>13. PICK m : m = VectorSize(nh)
  OBVIOUS
<1>14. m \in Nat /\ m >= nh
  BY <1>8, <1>13, NodeVectorIs
<1>15. Fits(M, a, m)
  <2>1. M \in SUBSET M0
    BY <1>5, <1>7, <1>11, <1>12
  <2>2. IsFiniteSet(M) /\ Cardinality(M) <= Cardinality(M0)
    BY ONLY <1>8, <2>1, FS_Subset
  <2>3. Cardinality(M) \in Nat
    BY <2>2, FS_CardinalityType
  <2> QED BY <1>8, <1>11, <1>12, <1>14, <2>2, <2>3 DEF Fits
<1>16. Resizing(t, n, a, nh, M)
  BY <1>3, <1>8, <1>11, <1>12 DEF Resizing, Used
<1>17. Filled(Contents(t), Rehash(t, k), m, a, InNodes(t, n, 0), M)
  BY <1>10, <1>13, <1>16, ResizeFills
<1>18. (k \in 1 .. a \/ k \in M) /\ M \subseteq Used(t) \cup {k}
  BY <1>3, <1>12
<1> QED BY ONLY <1>15, <1>17, <1>18

-----------------------------------------------------------------------------
(* The boundary                                                             *)

\* n is a boundary of the array.
BorderIn(t, n) ==
    /\ n \in 0 .. Len(t.array)
    /\ n # 0 => t.array[n] # Nil
    /\ n < Len(t.array) => t.array[n + 1] = Nil

\* Where the binary search is: the slot base + 1 is not nil, unless it is the first, and
\* one not far beyond the last that is left is.
Searching(t, i, s) ==
    /\ s = [base |-> s.base, rest |-> s.rest] /\ s.base \in Nat /\ s.rest \in Nat /\ s.rest >= 1
    /\ s.base + s.rest <= Len(t.array) /\ (s.rest = 1 \/ s.rest <= Len(t.array) - i)
    /\ s.base # 0 => t.array[s.base + 1] # Nil
    /\ \/ s.base + s.rest + 1 <= Len(t.array) /\ t.array[s.base + s.rest + 1] = Nil
       \/ t.array[s.base + s.rest] = Nil /\ (s.rest >= 2 \/ s.base = 0)

HalfOf(t, s) ==
    LET half == s.rest \div 2
    IN IF half = 0 THEN s
       ELSE [base |-> IF IsNil(t, s.base + half + 1) THEN s.base ELSE s.base + half,
             rest |-> s.rest - half]

LEMMA SearchStep ==
  ASSUME NEW t, NEW i, NEW s, Len(t.array) \in Nat, i \in Nat, Searching(t, i, s)
  PROVE  Searching(t, i + 1, HalfOf(t, s))
<1>1. PICK b, r, L : b = s.base /\ r = s.rest /\ L = Len(t.array)
  OBVIOUS
<1>2. /\ s = [base |-> b, rest |-> r] /\ b \in Nat /\ r \in Nat /\ r >= 1 /\ b + r <= L /\ L \in Nat
      /\ (r = 1 \/ r <= L - i) /\ (b # 0 => t.array[b + 1] # Nil)
      /\ \/ b + r + 1 <= L /\ t.array[b + r + 1] = Nil
         \/ t.array[b + r] = Nil /\ (r >= 2 \/ b = 0)
  BY <1>1 DEF Searching
<1>3. PICK h : h = r \div 2
  OBVIOUS
<1>4. h \in Nat /\ (r = 2 * h \/ r = 2 * h + 1)
  BY <1>2, <1>3
<1>5. CASE h = 0
  <2>1. HalfOf(t, s) = s /\ r = 1
    BY <1>1, <1>2, <1>3, <1>4, <1>5 DEF HalfOf
  <2> QED BY <1>1, <1>2, <2>1 DEF Searching
<1>6. CASE h # 0 /\ IsNil(t, b + h + 1)
  <2>1. PICK q : q = r - h
    OBVIOUS
  <2>2. HalfOf(t, s) = [base |-> b, rest |-> q]
    BY <1>1, <1>3, <1>6, <2>1 DEF HalfOf
  <2>3. q \in Nat /\ q >= 1 /\ b + q <= L /\ (q = 1 \/ q <= L - (i + 1))
    BY <1>2, <1>4, <1>6, <2>1
  <2>4. \/ b + q + 1 <= L /\ t.array[b + q + 1] = Nil
        \/ t.array[b + q] = Nil /\ q >= 2
    <3>1. CASE r = 2 * h
      <4>1. b + h + 1 = b + q + 1 /\ b + q + 1 <= L
        BY <1>2, <1>4, <1>6, <2>1, <3>1
      <4> QED BY <1>6, <4>1 DEF IsNil
    <3>2. CASE r = 2 * h + 1
      <4>1. b + h + 1 = b + q /\ q >= 2
        BY <1>2, <1>4, <1>6, <2>1, <3>2
      <4> QED BY <1>6, <4>1 DEF IsNil
    <3> QED BY <1>4, <3>1, <3>2
  <2>5. PICK s2 : s2 = HalfOf(t, s)
    OBVIOUS
  <2>6. s2 = [base |-> s2.base, rest |-> s2.rest] /\ s2.base = b /\ s2.rest = q
    BY ONLY <2>2, <2>5
  <2>7. Searching(t, i + 1, s2)
    BY ONLY <1>1, <1>2, <2>3, <2>4, <2>6 DEF Searching
  <2> QED BY ONLY <2>5, <2>7
<1>7. CASE h # 0 /\ ~IsNil(t, b + h + 1)
  <2>1. PICK q, d : q = r - h /\ d = b + h
    OBVIOUS
  <2>2. HalfOf(t, s) = [base |-> d, rest |-> q]
    BY <1>1, <1>3, <1>7, <2>1 DEF HalfOf
  <2>3. q \in Nat /\ q >= 1 /\ d \in Nat /\ d + q = b + r /\ (q = 1 \/ q <= L - (i + 1)) /\ d + q <= L
    BY <1>2, <1>4, <1>7, <2>1
  <2>4. t.array[d + 1] # Nil
    BY <1>7, <2>1 DEF IsNil
  <2>5. \/ d + q + 1 <= L /\ t.array[d + q + 1] = Nil
        \/ t.array[d + q] = Nil /\ q >= 2
    <3>1. CASE b + r + 1 <= L /\ t.array[b + r + 1] = Nil
      BY <2>3, <3>1
    <3>2. CASE t.array[b + r] = Nil
      <4>1. b + h + 1 # b + r
        BY <1>7, <3>2 DEF IsNil
      <4>2. q >= 2
        BY <1>2, <1>4, <1>7, <2>1, <4>1
      <4> QED BY <2>3, <3>2, <4>2
    <3> QED BY <1>2, <3>1, <3>2
  <2>6. PICK s2 : s2 = HalfOf(t, s)
    OBVIOUS
  <2>7. s2 = [base |-> s2.base, rest |-> s2.rest] /\ s2.base = d /\ s2.rest = q
    BY ONLY <2>2, <2>6
  <2>8. Searching(t, i + 1, s2)
    BY ONLY <1>1, <2>3, <2>4, <2>5, <2>7 DEF Searching
  <2> QED BY ONLY <2>6, <2>8
<1> QED BY <1>5, <1>6, <1>7

\* The binary search of an array that ends with nil finds a boundary.
LEMMA HalfSearchIs ==
  ASSUME NEW t, Len(t.array) \in Nat, Len(t.array) > 0, t.array[Len(t.array)] = Nil
  PROVE  BorderIn(t, HalfSearch(t))
<1>1. PICK L : L = Len(t.array)
  OBVIOUS
<1> DEFINE Turn(i, g) == IF i = 0 THEN [base |-> 0, rest |-> L] ELSE HalfOf(t, g[i - 1])
           f == CHOOSE f : f = [i \in 0 .. L |-> Turn(i, f)]
<1>2. L \in Nat /\ L > 0 /\ SizeArray(t) = L
  BY <1>1 DEF SizeArray
<1>3. HalfSearch(t) = IF IsNil(t, f[L].base + 1) THEN f[L].base ELSE f[L].base + 1
  BY <1>1 DEF HalfSearch, HalfOf, SizeArray
<1>4. f = [i \in 0 .. L |-> Turn(i, f)]
  <2> DEFINE S == {i \in 0 .. L : \E g : g = [j \in 0 .. i |-> Turn(j, g)]}
  <2>1. 0 \in S
    <3>1. PICK g : g = [j \in 0 .. 0 |-> [base |-> 0, rest |-> L]]
      OBVIOUS
    <3>2. g = [j \in 0 .. 0 |-> Turn(j, g)]
      <4>1. \A j \in 0 .. 0 : j = 0
        OBVIOUS
      <4> QED BY <3>1, <4>1
    <3> HIDE DEF Turn
    <3> QED BY <1>2, <3>2
  <2>2. ASSUME NEW i \in 1 .. L, i - 1 \in S
        PROVE  i \in S
    <3>1. PICK g : g = [j \in 0 .. (i - 1) |-> Turn(j, g)]
      BY <2>2
    <3>2. PICK l : l = [j \in 0 .. i |-> IF j = i THEN Turn(i, g) ELSE g[j]]
      OBVIOUS
    <3>3. \A j \in 0 .. i : l[j] = Turn(j, l)
      <4> TAKE j \in 0 .. i
      <4>1. j # 0 => l[j - 1] = g[j - 1]
        BY <3>2
      <4>2. Turn(j, l) = Turn(j, g)
        BY <4>1
      <4>3. l[j] = Turn(j, g)
        <5> HIDE DEF Turn
        <5>1. CASE j = i
          BY <3>2, <5>1
        <5>2. CASE j # i
          <6>1. j \in 0 .. (i - 1)
            BY <5>2
          <6> QED BY <3>1, <3>2, <5>2, <6>1
        <5> QED BY <5>1, <5>2
      <4> QED BY <4>2, <4>3
    <3> HIDE DEF Turn
    <3>4. l = [j \in 0 .. i |-> l[j]]
      BY <3>2
    <3>5. l = [j \in 0 .. i |-> Turn(j, l)]
      BY <3>3, <3>4
    <3> QED BY <3>5
  <2> HIDE DEF S
  <2>3. 0 .. L \subseteq S
    BY <1>2, <2>1, <2>2, UpTo
  <2>4. L \in S
    BY <1>2, <2>3
  <2>5. \E g : g = [j \in 0 .. L |-> Turn(j, g)]
    BY <2>4 DEF S
  <2> HIDE DEF Turn
  <2> QED BY <2>5, Zenon
<1> HIDE DEF f
<1> DEFINE S == {i \in 0 .. L : Searching(t, i, f[i])}
<1>5. 0 \in S
  <2>1. f[0] = [base |-> 0, rest |-> L]
    BY <1>2, <1>4
  <2>2. PICK s : s = f[0]
    OBVIOUS
  <2>3. s = [base |-> s.base, rest |-> s.rest] /\ s.base = 0 /\ s.rest = L
    BY <2>1, <2>2
  <2>4. Searching(t, 0, s)
    BY <1>1, <1>2, <2>3 DEF Searching
  <2> QED BY <1>2, <2>2, <2>4
<1>6. ASSUME NEW i \in 1 .. L, i - 1 \in S
      PROVE  i \in S
  <2>1. i \in 0 .. L /\ i - 1 \in Nat /\ (i - 1) + 1 = i /\ i # 0
    BY <1>2
  <2>2. f[i] = HalfOf(t, f[i - 1])
    BY <1>4, <2>1
  <2>3. Searching(t, i - 1, f[i - 1])
    BY <1>6
  <2>4. PICK j : j = i - 1
    OBVIOUS
  <2>5. Searching(t, j + 1, HalfOf(t, f[j]))
    BY <1>1, <1>2, <2>1, <2>3, <2>4, SearchStep
  <2> QED BY <2>1, <2>2, <2>4, <2>5
<1> HIDE DEF S
<1>7. 0 .. L \subseteq S
  BY <1>2, <1>5, <1>6, UpTo
<1>8. Searching(t, L, f[L])
  BY <1>2, <1>7 DEF S
<1>9. PICK b : b = f[L].base
  OBVIOUS
<1>10. /\ b \in Nat /\ b + 1 <= L /\ (b # 0 => t.array[b + 1] # Nil)
       /\ \/ b + 2 <= L /\ t.array[b + 2] = Nil
          \/ t.array[b + 1] = Nil /\ b = 0
  <2>1. f[L].rest = 1
    BY <1>1, <1>2, <1>8 DEF Searching
  <2>2. b + 1 + 1 = b + 2 \/ b \notin Nat
    OBVIOUS
  <2> QED BY <1>1, <1>8, <1>9, <2>1, <2>2 DEF Searching
<1>11. CASE IsNil(t, b + 1)
  <2>1. b = 0 /\ t.array[1] = Nil
    BY <1>10, <1>11 DEF IsNil
  <2> QED BY <1>1, <1>2, <1>3, <1>9, <1>11, <2>1 DEF BorderIn
<1>12. CASE ~IsNil(t, b + 1)
  <2>1. t.array[b + 1] # Nil /\ b + 2 <= L /\ t.array[b + 2] = Nil
    BY <1>10, <1>12 DEF IsNil
  <2>2. (b + 1) + 1 = b + 2 /\ b + 1 \in 0 .. L
    BY <1>2, <1>10
  <2>3. HalfSearch(t) = b + 1
    BY <1>3, <1>9, <1>12
  <2> QED BY <1>1, <2>1, <2>2, <2>3 DEF BorderIn
<1> QED BY <1>11, <1>12

\* What luaH_getn finds, and what it keeps
LEMMA GetNIs ==
  ASSUME NEW t, NEW n, TableInv(t, n)
  PROVE  /\ BorderIn(t, GetN(t).n)
         /\ GetN(t).keep # NotFound => GetN(t).keep \in Nat /\ Len(t.array) > 0
<1>1. PICK L, b, u : L = Len(t.array) /\ b = Boundary(t) /\ u = UpdatedBoundary(t, b)
  OBVIOUS
<1>2. t \in Tables(n) /\ n \in Nat /\ (t.lastfree < 0 => Len(t.array) > 0)
  BY DEF TableInv
<1>3. L \in Nat /\ SizeArray(t) = L /\ t.lastfree \in Int
  BY ONLY <1>1, <1>2, TableIs
<1>4. b \in Nat /\ (b > 0 => L > 0)
  BY ONLY <1>1, <1>2, <1>3 DEF Boundary
<1>5. GetN(t) =
        CASE b > 0 /\ t.array[L] # Nil /\ t.node = Dummy -> [n |-> L, keep |-> NotFound]
          [] OTHER ->
             IF b > 0 /\ b < L /\ t.array[b] # Nil /\ t.array[b + 1] = Nil THEN [n |-> b, keep |-> NotFound]
             ELSE IF b > 0 /\ u > 0 THEN [n |-> u, keep |-> u]
             ELSE IF L > 0 /\ t.array[L] = Nil THEN [n |-> HalfSearch(t), keep |-> HalfSearch(t)]
             ELSE [n |-> L, keep |-> NotFound]
  BY ONLY <1>1, <1>3 DEF GetN, IsNil
<1>6. CASE b > 0 /\ t.array[L] # Nil /\ t.node = Dummy
  <2>1. GetN(t) = [n |-> L, keep |-> NotFound]
    BY ONLY <1>5, <1>6
  <2> QED BY ONLY <1>1, <1>3, <1>6, <2>1 DEF BorderIn
<1>7. CASE ~(b > 0 /\ t.array[L] # Nil /\ t.node = Dummy)
  <2>1. GetN(t) =
             IF b > 0 /\ b < L /\ t.array[b] # Nil /\ t.array[b + 1] = Nil THEN [n |-> b, keep |-> NotFound]
             ELSE IF b > 0 /\ u > 0 THEN [n |-> u, keep |-> u]
             ELSE IF L > 0 /\ t.array[L] = Nil THEN [n |-> HalfSearch(t), keep |-> HalfSearch(t)]
             ELSE [n |-> L, keep |-> NotFound]
    BY ONLY <1>5, <1>7
  <2>2. CASE b > 0 /\ b < L /\ t.array[b] # Nil /\ t.array[b + 1] = Nil
    <3>1. GetN(t) = [n |-> b, keep |-> NotFound]
      BY ONLY <2>1, <2>2
    <3> QED BY ONLY <1>1, <1>3, <1>4, <2>2, <3>1 DEF BorderIn
  <2>3. CASE ~(b > 0 /\ b < L /\ t.array[b] # Nil /\ t.array[b + 1] = Nil) /\ b > 0 /\ u > 0
    <3>1. GetN(t) = [n |-> u, keep |-> u]
      BY ONLY <2>1, <2>3
    <3>2. u = IF b < L /\ t.array[b] = Nil
              THEN IF b >= 2 /\ t.array[b - 1] # Nil THEN b - 1 ELSE 0
              ELSE IF b + 1 < L /\ t.array[b + 1] # Nil /\ t.array[b + 2] = Nil THEN b + 1 ELSE 0
      BY ONLY <1>1, <1>3 DEF UpdatedBoundary, IsNil
    <3>3. \/ u = b - 1 /\ b >= 2 /\ b < L /\ t.array[b] = Nil /\ t.array[b - 1] # Nil
          \/ u = b + 1 /\ b + 1 < L /\ t.array[b + 1] # Nil /\ t.array[b + 2] = Nil
      BY ONLY <2>3, <3>2, <1>4
    <3>4. u \in Nat /\ u <= L /\ t.array[u] # Nil /\ (u < L => t.array[u + 1] = Nil)
      <4>1. CASE u = b - 1 /\ b >= 2 /\ b < L /\ t.array[b] = Nil /\ t.array[b - 1] # Nil
        <5>1. u + 1 = b
          BY ONLY <1>4, <4>1
        <5> QED BY ONLY <1>3, <1>4, <4>1, <5>1
      <4>2. CASE u = b + 1 /\ b + 1 < L /\ t.array[b + 1] # Nil /\ t.array[b + 2] = Nil
        <5>1. u + 1 = b + 2
          BY ONLY <1>4, <4>2
        <5> QED BY ONLY <1>3, <1>4, <4>2, <5>1
      <4> QED BY ONLY <3>3, <4>1, <4>2
    <3> QED BY ONLY <1>1, <1>3, <1>4, <2>3, <3>1, <3>4 DEF BorderIn
  <2>4. CASE /\ ~(b > 0 /\ b < L /\ t.array[b] # Nil /\ t.array[b + 1] = Nil) /\ ~(b > 0 /\ u > 0)
             /\ L > 0 /\ t.array[L] = Nil
    <3>1. GetN(t) = [n |-> HalfSearch(t), keep |-> HalfSearch(t)]
      BY ONLY <2>1, <2>4
    <3>2. BorderIn(t, HalfSearch(t))
      BY ONLY <1>1, <1>3, <2>4, HalfSearchIs
    <3>3. HalfSearch(t) \in Nat
      BY ONLY <1>1, <1>3, <3>2 DEF BorderIn
    <3> QED BY ONLY <1>1, <2>4, <3>1, <3>2, <3>3
  <2>5. CASE /\ ~(b > 0 /\ b < L /\ t.array[b] # Nil /\ t.array[b + 1] = Nil) /\ ~(b > 0 /\ u > 0)
             /\ ~(L > 0 /\ t.array[L] = Nil)
    <3>1. GetN(t) = [n |-> L, keep |-> NotFound]
      BY ONLY <2>1, <2>5
    <3> QED BY ONLY <1>1, <1>3, <2>5, <3>1 DEF BorderIn
  <2> QED BY ONLY <2>2, <2>3, <2>4, <2>5
<1> QED BY ONLY <1>6, <1>7

\* A boundary of the array is a border of the table: what the array is full up to is not
\* continued in the nodes.
LEMMA BorderIs ==
  ASSUME NEW t, NEW n, NEW m, TableInv(t, n), BorderIn(t, m)
  PROVE  /\ m # 0 => m \in Key /\ Get(t, m) # Nil
         /\ m + 1 \in Key => Get(t, m + 1) = Nil
<1>1. PICK L : L = Len(t.array)
  OBVIOUS
<1>2. t \in Tables(n) /\ n \in Nat /\ \A i \in 1 .. L : t.array[i] # Nil => i <= MaxKey
  BY <1>1 DEF TableInv
<1>3. L \in Nat
  BY ONLY <1>1, <1>2, TableIs
<1>4. m \in 0 .. L /\ (m # 0 => t.array[m] # Nil) /\ (m < L => t.array[m + 1] = Nil)
  BY <1>1 DEF BorderIn
<1>5. m # 0 => m \in Key /\ Get(t, m) # Nil
  <2> SUFFICES ASSUME m # 0 PROVE m \in Key /\ Get(t, m) # Nil
    OBVIOUS
  <2>1. m \in 1 .. L
    BY <1>3, <1>4
  <2>2. m \in Key
    BY <1>2, <1>4, <2>1, TableAssumption DEF Key, IntKey
  <2>3. Get(t, m) = t.array[m]
    BY ONLY <1>1, <2>1, <2>2, TableInv(t, n), GetIs
  <2> QED BY <1>4, <2>2, <2>3
<1>6. m + 1 \in Key => Get(t, m + 1) = Nil
  <2> SUFFICES ASSUME m + 1 \in Key PROVE Get(t, m + 1) = Nil
    OBVIOUS
  <2>1. PICK k : k = m + 1
    OBVIOUS
  <2>2. k \in Key
    BY <2>1
  <2>3. CASE m < L
    <3>1. k \in 1 .. L /\ t.array[k] = Nil
      BY <1>3, <1>4, <2>1, <2>3
    <3>2. Get(t, k) = t.array[k]
      BY ONLY <1>1, <3>1, <2>2, TableInv(t, n), GetIs
    <3> QED BY ONLY <2>1, <3>1, <3>2
  <2>4. CASE m = L
    <3>1. k \in 1 .. (L + 1) /\ k \notin 1 .. L
      BY <1>3, <2>1, <2>4
    <3>2. \A p \in 0 .. (n - 1) : ~HasKey(t.node, p, k)
      BY <1>1, <3>1 DEF TableInv
    <3>3. Get(t, k) = Nil
      BY ONLY <1>1, <3>1, <3>2, <2>2, TableInv(t, n), GetIs
    <3> QED BY ONLY <2>1, <3>3
  <2> QED BY <1>3, <1>4, <2>3, <2>4
<1> QED BY <1>5, <1>6

-----------------------------------------------------------------------------
(* Assignment                                                               *)

LEMMA MissingIs ==
  ASSUME NEW t, NEW n, NEW k, TableInv(t, n), k \in Key, NodeOf(t, k) = NotFound
  PROVE  \A p \in 0 .. (n - 1) : ~HasKey(t.node, p, k)
<1>1. n \in Nat /\ HashInv(t.node, n)
  BY DEF TableInv
<1> SUFFICES ASSUME NEW p \in 0 .. (n - 1), HasKey(t.node, p, k) PROVE FALSE
  OBVIOUS
<1>2. NodeOf(t, k) = p
  BY ONLY <1>1, k \in Key, p \in 0 .. (n - 1), HasKey(t.node, p, k), NodeOfIs
<1> QED BY <1>1, <1>2, NilIsNoKey

\* luaH_set and the assignment of v: no other key is touched, whether the key is there, is
\* inserted, or has the table rehashed.
LEMMA AssignedIs ==
  ASSUME NEW t, NEW n, NEW k, NEW v, TableInv(t, n), ~t.recursed, k \in Key, v \in Value \cup {Nil}
  PROVE  /\ \E m : /\ TableInv(Assigned(t, k, v), m)
                   /\ Orderly(t.node, n) /\ Sole(t.node, n, k) => Orderly(Assigned(t, k, v).node, m)
         /\ ~Assigned(t, k, v).recursed /\ Assigns(t, Assigned(t, k, v), k, v)
         /\ Get(t, k) # Nil => Stays(t, Assigned(t, k, v), n) /\ TableInv(Assigned(t, k, v), n)
<1>1. CASE InArray(t, k) \/ NodeOf(t, k) # NotFound
  <2>1. Assigned(t, k, v) = Store(t, k, v)
    BY ONLY <1>1 DEF Assigned
  <2>2. Present(t, n, k)
    <3> SUFFICES ASSUME ~InArray(t, k), \A p \in 0 .. (n - 1) : ~HasKey(t.node, p, k) PROVE FALSE
      BY DEF Present
    <3>1. HashInv(t.node, n)
      BY DEF TableInv
    <3>2. NodeOf(t, k) = NotFound
      BY ONLY <3>1, k \in Key, \A p \in 0 .. (n - 1) : ~HasKey(t.node, p, k), NodeOfIs
    <3> QED BY <1>1, <3>2
  <2>3. /\ TableInv(Store(t, k, v), n) /\ Assigns(t, Store(t, k, v), k, v)
        /\ Store(t, k, v).recursed = t.recursed /\ SameChains(t.node, Store(t, k, v).node, n)
        /\ Get(t, k) # Nil => Stays(t, Store(t, k, v), n)
    BY ONLY <2>2, TableInv(t, n), k \in Key, v \in Value \cup {Nil}, StoreIs
  <2>4. ASSUME Orderly(t.node, n) PROVE Orderly(Store(t, k, v).node, n)
    <3>1. HashInv(t.node, n) /\ IsNodes(Store(t, k, v).node, n)
      BY <2>3 DEF TableInv, HashInv
    <3> QED BY ONLY <2>3, <2>4, <3>1, SameOrder
  <2> QED BY ONLY <2>1, <2>3, <2>4, ~t.recursed
<1>2. CASE ~InArray(t, k) /\ NodeOf(t, k) = NotFound /\ Overflows(t, k)
  <2>1. Assigned(t, k, v) = Migrate(Rehash(t, k), k, v)
    BY ONLY <1>2 DEF Assigned, Grows
  <2>2. \A p \in 0 .. (n - 1) : ~HasKey(t.node, p, k)
    BY ONLY <1>2, TableInv(t, n), k \in Key, MissingIs
  <2>3. Get(t, k) = Nil
    BY ONLY <1>2, <2>2, TableInv(t, n), k \in Key, GetIs
  <2>4. PICK m, a, M : /\ Filled(Contents(t), Rehash(t, k), m, a, InNodes(t, n, 0), M)
                       /\ Fits(M, a, m) /\ (k \in 1 .. a \/ k \in M) /\ M \subseteq Used(t) \cup {k}
    BY ONLY <2>3, TableInv(t, n), ~t.recursed, k \in Key, RehashFills
  <2>5. PICK s, D : s = Rehash(t, k) /\ D = InNodes(t, n, 0)
    OBVIOUS
  <2>6. k \notin D /\ Used(t) \subseteq D
    <3>1. k \notin D
      <4>1. k \notin 1 .. Len(t.array)
        BY ONLY <1>2, TableInv(t, n), k \in Key, GetIs
      <4> QED BY ONLY <2>2, <2>5, <4>1 DEF InNodes
    <3>2. ASSUME NEW x \in Used(t) PROVE x \in D
      <4>1. x \in Key /\ Get(t, x) # Nil
        BY <3>2 DEF Used
      <4>2. x \in 1 .. Len(t.array) \/ \E q \in 0 .. (n - 1) : HasKey(t.node, q, x)
        BY ONLY <4>1, TableInv(t, n), GetIs
      <4>3. \A q \in 0 .. (n - 1) : q >= 0
        BY DEF TableInv
      <4> QED BY ONLY <2>5, <4>1, <4>2, <4>3 DEF InNodes
    <3> QED BY <3>1, <3>2
  <2>7. PICK c : c = [Contents(t) EXCEPT ![k] = v]
    OBVIOUS
  <2>8. c[k] = v /\ \A x \in Key : x # k => c[x] = Get(t, x)
    BY ONLY <2>7, k \in Key DEF Contents
  <2>9. Filled(c, s, m, a, D, M)
    <3>1. \A x \in D : c[x] = Contents(t)[x]
      BY <2>5, <2>6, <2>7 DEF InNodes, Contents
    <3>2. Filled(Contents(t), s, m, a, D, M)
      BY ONLY <2>4, <2>5
    <3> QED BY ONLY <3>1, <3>2 DEF Filled
  <2>10. Filled(c, Migrate(s, k, v), m, a, D \cup {k}, M)
    BY ONLY <2>4, <2>6, <2>8, <2>9, k \in Key, v \in Value \cup {Nil}, MigrateFills
  <2>11. PICK s2 : s2 = Migrate(s, k, v)
    OBVIOUS
  <2>12. TableInv(s2, m) /\ ~s2.recursed
    BY ONLY <2>4, <2>10, <2>11 DEF Filled
  <2>13. \A x \in Key : Get(s2, x) = IF x \in D \cup {k} THEN c[x] ELSE Nil
    BY ONLY <2>10, <2>11, <2>12 DEF Filled
  <2>14. Assigns(t, s2, k, v)
    <3> SUFFICES ASSUME NEW x \in Key PROVE Get(s2, x) = IF x = k THEN v ELSE Get(t, x)
      BY DEF Assigns
    <3>1. CASE x = k
      BY ONLY <2>8, <2>13, <3>1, x \in Key
    <3>2. CASE x # k /\ x \in D
      BY ONLY <2>8, <2>13, <3>2, x \in Key
    <3>3. CASE x # k /\ x \notin D
      <4>1. Get(t, x) = Nil
        BY ONLY <2>6, <3>3, x \in Key DEF Used
      <4> QED BY ONLY <2>13, <3>3, <4>1, x \in Key
    <3> QED BY ONLY <3>1, <3>2, <3>3
  <2>15. ASSUME Orderly(t.node, n), Sole(t.node, n, k) PROVE Orderly(s2.node, m)
    <3>1. Apart(Used(t) \cup {k})
      BY ONLY <2>15, TableInv(t, n), k \in Key, UsedApart
    <3>2. Apart(M)
      BY ONLY <2>4, <3>1, ApartSubset
    <3> QED BY ONLY <2>10, <2>11, <3>2, FilledOrder
  <2> QED BY ONLY <2>1, <2>3, <2>5, <2>11, <2>12, <2>14, <2>15
<1>3. CASE ~InArray(t, k) /\ NodeOf(t, k) = NotFound /\ ~Overflows(t, k)
  <2>1. PICK s : s = Insert(t, k)
    OBVIOUS
  <2>2. Assigned(t, k, v) = Store(s, k, v)
    BY ONLY <1>3, <2>1 DEF Assigned, Grows
  <2>3. \A p \in 0 .. (n - 1) : ~HasKey(t.node, p, k)
    BY ONLY <1>3, TableInv(t, n), k \in Key, MissingIs
  <2>4. /\ TableInv(s, n) /\ s.recursed = t.recursed /\ \E p : Inserted(t.node, s.node, n, k, p)
        /\ Orderly(t.node, n) /\ Alone(t.node, n, k) => Orderly(s.node, n)
    BY ONLY <1>3, <2>1, <2>3, TableInv(t, n), k \in Key, InsertIs
  <2>5. Assigns(t, s, k, Nil)
    BY ONLY <1>3, <2>1, <2>3, TableInv(t, n), k \in Key, InsertGets
  <2>6. Present(s, n, k)
    BY ONLY <2>4 DEF Inserted, Present
  <2>7. /\ TableInv(Store(s, k, v), n) /\ Assigns(s, Store(s, k, v), k, v)
        /\ Store(s, k, v).recursed = s.recursed /\ SameChains(s.node, Store(s, k, v).node, n)
    BY ONLY <2>4, <2>6, k \in Key, v \in Value \cup {Nil}, StoreIs
  <2>8. Assigns(t, Store(s, k, v), k, v)
    BY ONLY <2>5, <2>7 DEF Assigns
  <2>9. ASSUME Orderly(t.node, n), Sole(t.node, n, k) PROVE Orderly(Store(s, k, v).node, n)
    <3>1. Alone(t.node, n, k)
      BY ONLY <2>3, <2>9 DEF Sole, Alone, HasKey
    <3>2. HashInv(s.node, n) /\ IsNodes(Store(s, k, v).node, n)
      BY ONLY <2>4, <2>7 DEF TableInv, HashInv
    <3> QED BY ONLY <2>4, <2>7, <2>9, <3>1, <3>2, SameOrder
  <2>10. Get(t, k) = Nil
    BY ONLY <1>3, <2>3, TableInv(t, n), k \in Key, GetIs
  <2> QED BY ONLY <2>2, <2>4, <2>7, <2>8, <2>9, <2>10, ~t.recursed
<1> QED BY ONLY <1>1, <1>2, <1>3

-----------------------------------------------------------------------------
(* The other operations                                                     *)

\* Two tables that hold the same entries
SameEntries(t, t2, n) ==
    /\ t2.array = t.array
    /\ \A p \in 0 .. (n - 1) : \A k \in Key :
          /\ HasKey(t.node, p, k) => HasKey(t2.node, p, k) \/ t.node[p].val = Nil
          /\ HasKey(t2.node, p, k) => HasKey(t.node, p, k) /\ t2.node[p].val = t.node[p].val

LEMMA SameGets ==
  ASSUME NEW t, NEW t2, NEW n, NEW k, TableInv(t, n), TableInv(t2, n), SameEntries(t, t2, n), k \in Key
  PROVE  Get(t2, k) = Get(t, k)
<1>1. t2.array = t.array
  BY DEF SameEntries
<1>2. CASE k \in 1 .. Len(t.array)
  <2>1. Get(t, k) = t.array[k]
    BY ONLY <1>2, TableInv(t, n), k \in Key, GetIs
  <2>2. Get(t2, k) = t2.array[k]
    BY ONLY <1>1, <1>2, TableInv(t2, n), k \in Key, GetIs
  <2> QED BY ONLY <1>1, <2>1, <2>2
<1>3. CASE k \notin 1 .. Len(t.array)
  <2>1. ~InArray(t, k) /\ ~InArray(t2, k)
    <3>1. ~InArray(t, k)
      BY ONLY <1>3, TableInv(t, n), k \in Key, GetIs
    <3>2. ~InArray(t2, k)
      BY ONLY <1>1, <1>3, TableInv(t2, n), k \in Key, GetIs
    <3> QED BY ONLY <3>1, <3>2
  <2>2. CASE \E p \in 0 .. (n - 1) : HasKey(t2.node, p, k)
    <3>1. PICK p \in 0 .. (n - 1) : HasKey(t2.node, p, k)
      BY <2>2
    <3>2. HasKey(t.node, p, k) /\ t2.node[p].val = t.node[p].val
      BY ONLY <3>1, SameEntries(t, t2, n), k \in Key, p \in 0 .. (n - 1) DEF SameEntries
    <3>3. Get(t2, k) = t2.node[p].val
      BY ONLY <3>1, TableInv(t2, n), k \in Key, p \in 0 .. (n - 1), GetIs
    <3>4. Get(t, k) = t.node[p].val
      BY ONLY <3>2, TableInv(t, n), k \in Key, p \in 0 .. (n - 1), GetIs
    <3> QED BY ONLY <3>2, <3>3, <3>4
  <2>3. CASE \A p \in 0 .. (n - 1) : ~HasKey(t2.node, p, k)
    <3>1. Get(t2, k) = Nil
      BY ONLY <2>1, <2>3, TableInv(t2, n), k \in Key, GetIs
    <3>2. CASE \E p \in 0 .. (n - 1) : HasKey(t.node, p, k)
      <4>1. PICK p \in 0 .. (n - 1) : HasKey(t.node, p, k)
        BY <3>2
      <4>2. t.node[p].val = Nil
        BY ONLY <2>3, <4>1, SameEntries(t, t2, n), k \in Key, p \in 0 .. (n - 1) DEF SameEntries
      <4>3. Get(t, k) = t.node[p].val
        BY ONLY <4>1, TableInv(t, n), k \in Key, p \in 0 .. (n - 1), GetIs
      <4> QED BY ONLY <3>1, <4>2, <4>3
    <3>3. CASE \A p \in 0 .. (n - 1) : ~HasKey(t.node, p, k)
      <4>1. Get(t, k) = Nil
        BY ONLY <2>1, <3>3, TableInv(t, n), k \in Key, GetIs
      <4> QED BY ONLY <3>1, <4>1
    <3> QED BY ONLY <3>2, <3>3
  <2> QED BY ONLY <2>2, <2>3
<1> QED BY ONLY <1>2, <1>3

\* A boundary is kept only while no free position is.
LEMMA BoundaryKept ==
  ASSUME NEW t, NEW t2, NEW n, NEW b, TableInv(t, n), b \in Nat, t.lastfree <= 0, Len(t.array) > 0,
         t2 = [t EXCEPT !.lastfree = -b]
  PROVE  /\ TableInv(t2, n) /\ t2.recursed = t.recursed /\ \A k \in Key : Get(t2, k) = Get(t, k)
         /\ t2.array = t.array /\ t2.node = t.node
<1>1. PICK l : l = -b
  OBVIOUS
<1>2. /\ n \in Nat /\ t \in Tables(n) /\ HashInv(t.node, n) /\ l \in Int /\ l <= 0 /\ t.lastfree \in Int
      /\ \A p \in 0 .. (n - 1) : p >= t.lastfree => t.node[p].key # Nil
  BY <1>1, TableIs DEF TableInv
<1>3. /\ t2.array = t.array /\ t2.node = t.node /\ t2.lastfree = l /\ t2.recursed = t.recursed
      /\ t2 \in Tables(n)
  BY ONLY <1>1, <1>2, t2 = [t EXCEPT !.lastfree = -b] DEF Tables
<1>4. \A p \in 0 .. (n - 1) : t.node[p].key # Nil
  BY ONLY <1>2, t.lastfree <= 0
<1>5. TableInv(t2, n)
  BY <1>2, <1>3, <1>4 DEF TableInv
<1>6. SameEntries(t, t2, n)
  BY ONLY <1>3 DEF SameEntries
<1>7. ASSUME NEW k \in Key PROVE Get(t2, k) = Get(t, k)
  BY ONLY <1>5, <1>6, TableInv(t, n), k \in Key, SameGets
<1> QED BY ONLY <1>3, <1>5, <1>7

LEMMA KeepIs ==
  ASSUME NEW t, NEW n, NEW b, TableInv(t, n), b \in Nat, Len(t.array) > 0
  PROVE  /\ TableInv(KeepBoundary(t, b), n) /\ KeepBoundary(t, b).recursed = t.recursed
         /\ \A k \in Key : Get(KeepBoundary(t, b), k) = Get(t, k)
         /\ KeepBoundary(t, b).array = t.array /\ KeepBoundary(t, b).node = t.node
<1>1. CASE t.lastfree <= 0
  <2>1. KeepBoundary(t, b) = [t EXCEPT !.lastfree = -b]
    BY ONLY <1>1 DEF KeepBoundary
  <2> QED BY ONLY <1>1, <2>1, TableInv(t, n), b \in Nat, Len(t.array) > 0, BoundaryKept
<1>2. CASE ~(t.lastfree <= 0)
  <2>1. KeepBoundary(t, b) = t
    BY ONLY <1>2 DEF KeepBoundary
  <2> QED BY ONLY <2>1, TableInv(t, n)
<1> QED BY ONLY <1>1, <1>2

\* The collector empties the nodes S, and keys of empty nodes die.
LEMMA KillIs ==
  ASSUME NEW t, NEW n, NEW S, TableInv(t, n), S \subseteq UsedNodes(t), \A p \in S : t.node[p].key \in Obj
  PROVE  /\ TableInv(Kill(t, S), n) /\ Kill(t, S).recursed = t.recursed
         /\ NodeKeys(t.node, S) \subseteq Obj
         /\ \A k \in Key : Get(Kill(t, S), k) = IF k \in NodeKeys(t.node, S) THEN Nil ELSE Get(t, k)
         /\ Stays(t, Kill(t, S), n)
<1>1. PICK nd, t2, nd2 : nd = t.node /\ t2 = Kill(t, S) /\ nd2 = t2.node
  OBVIOUS
<1>2. /\ n \in Nat /\ t \in Tables(n) /\ HashInv(nd, n) /\ IsNodes(nd, n) /\ t.lastfree \in Int
  BY <1>1, TableIs DEF TableInv
<1>3. DOMAIN nd = 0 .. (n - 1) /\ (nd = Dummy <=> n = 0) /\ \A p \in 0 .. (n - 1) : nd[p] \in Node
  BY ONLY <1>2, NodesAre
<1>4. /\ nd2 = [p \in DOMAIN nd |->
             [nd[p] EXCEPT !.val = IF p \in S THEN Nil ELSE @,
                           !.dead = @ \/ (nd[p].key \in Obj /\ (p \in S \/ nd[p].val = Nil))]]
      /\ t2.array = t.array /\ t2.lastfree = t.lastfree /\ t2.recursed = t.recursed
  BY ONLY <1>1, <1>2 DEF Kill, Tables
<1>5. ASSUME NEW p \in 0 .. (n - 1)
      PROVE  /\ nd2[p] \in Node /\ nd2[p].key = nd[p].key /\ nd2[p].next = nd[p].next
             /\ nd2[p].val = IF p \in S THEN Nil ELSE nd[p].val
             /\ nd2[p].dead <=> nd[p].dead \/ (nd[p].key \in Obj /\ (p \in S \/ nd[p].val = Nil))
  <2>1. PICK x : x = nd[p]
    OBVIOUS
  <2>2. x \in Node /\ nd2[p] = [x EXCEPT !.val = IF p \in S THEN Nil ELSE @,
                           !.dead = @ \/ (x.key \in Obj /\ (p \in S \/ x.val = Nil))]
    BY ONLY <1>3, <1>4, <2>1, p \in 0 .. (n - 1)
  <2>3. x.dead \in BOOLEAN
    BY ONLY <2>2, NodeIs
  <2> QED BY ONLY <2>1, <2>2, <2>3 DEF Node
<1>6. IsNodes(nd2, n)
  <2>1. CASE n = 0
    <3>1. nd2 = Dummy
      <4>1. DOMAIN nd = {} /\ nd = Dummy
        BY ONLY <1>2, <1>3, <2>1
      <4> QED BY ONLY <1>4, <4>1 DEF Dummy
    <3> QED BY ONLY <1>2, <2>1, <3>1 DEF IsNodes
  <2>2. CASE n # 0
    <3>1. nd2 = [p \in 0 .. (n - 1) |-> nd2[p]]
      BY ONLY <1>3, <1>4
    <3>2. nd2 \in [0 .. (n - 1) -> Node]
      BY ONLY <1>5, <3>1
    <3> QED BY ONLY <1>2, <2>2, <3>2 DEF IsNodes
  <2> QED BY ONLY <2>1, <2>2
<1>7. \A p \in S : p \in 0 .. (n - 1) /\ nd[p].val # Nil /\ nd[p].key \in Obj /\ ~nd[p].dead
  BY <1>1, <1>2, <1>3 DEF UsedNodes, HashInv
<1>8. SameKeys(nd, nd2, n)
  <2> SUFFICES ASSUME NEW p \in 0 .. (n - 1)
               PROVE  /\ nd2[p].key = nd[p].key /\ nd2[p].next = nd[p].next
                      /\ nd[p].dead => nd2[p].dead
                      /\ nd2[p].dead => nd2[p].val = Nil
                      /\ nd[p].key = Nil => nd2[p] = nd[p]
    BY DEF SameKeys
  <2>1. nd[p].dead => nd[p].val = Nil
    BY <1>2 DEF HashInv
  <2>2. nd2[p].dead => nd2[p].val = Nil
    BY ONLY <1>5, <2>1, p \in 0 .. (n - 1)
  <2>3. ASSUME nd[p].key = Nil PROVE nd2[p] = nd[p]
    <3>1. nd[p] = Empty
      BY <1>2, <2>3 DEF HashInv
    <3>2. Nil \notin Obj
      BY TableAssumption DEF Key
    <3>3. /\ p \notin S /\ nd[p] \in Node /\ nd2[p] \in Node /\ ~nd2[p].dead /\ nd2[p].val = nd[p].val
          /\ nd2[p].key = nd[p].key /\ nd2[p].next = nd[p].next /\ ~nd[p].dead
      <4>1. p \notin S /\ ~nd[p].dead
        BY ONLY <1>7, <2>3, <3>1, <3>2 DEF Empty
      <4>2. nd[p] \in Node
        BY ONLY <1>3, p \in 0 .. (n - 1)
      <4> QED BY ONLY <1>5, <2>3, <3>2, <4>1, <4>2, p \in 0 .. (n - 1)
    <3>4. nd2[p].dead = nd[p].dead
      <4>1. nd2[p].dead \in BOOLEAN /\ nd[p].dead \in BOOLEAN
        BY ONLY <3>3, NodeIs
      <4> QED BY ONLY <3>3, <4>1
    <3>5. PICK x, y : x = nd[p] /\ y = nd2[p]
      OBVIOUS
    <3>6. x = y
      BY ONLY <3>3, <3>4, <3>5 DEF Node
    <3> QED BY ONLY <3>5, <3>6
  <2>4. nd2[p].key = nd[p].key /\ nd2[p].next = nd[p].next /\ (nd[p].dead => nd2[p].dead)
    BY ONLY <1>5, p \in 0 .. (n - 1)
  <2> QED BY ONLY <2>2, <2>3, <2>4
<1>9. HashInv(nd2, n) /\ \A p \in 0 .. (n - 1) : \A k : HasKey(nd2, p, k) => HasKey(nd, p, k)
  BY ONLY <1>2, <1>6, <1>8, ValuesChange
<1>10. t2 \in Tables(n)
  <2>1. nd2 \in Nodes(n)
    BY ONLY <1>6 DEF IsNodes, Nodes
  <2>2. t2 = [t EXCEPT !.node = nd2]
    BY ONLY <1>1, <1>2 DEF Kill, Tables
  <2>3. PICK l : l = t.lastfree
    OBVIOUS
  <2>4. t2 = WithNode(t, l, nd2) /\ l \in Int
    BY ONLY <1>2, <2>2, <2>3 DEF WithNode, Tables
  <2> QED BY ONLY <1>2, <1>6, <2>4, ChangedNode
<1>11. TableInv(t2, n)
  <2>1. \A p \in 0 .. (n - 1) : nd2[p].key = nd[p].key
    BY ONLY <1>5
  <2>2. \A p \in 0 .. (n - 1) : p >= t2.lastfree => nd2[p].key # Nil
    BY ONLY <1>1, <1>4, <2>1, TableInv(t, n) DEF TableInv
  <2>3. \A p \in 0 .. (n - 1) : \A k \in 1 .. (Len(t2.array) + 1) : ~HasKey(nd2, p, k)
    BY ONLY <1>1, <1>4, <1>9, TableInv(t, n) DEF TableInv
  <2>4. /\ \A i \in 1 .. Len(t2.array) : t2.array[i] # Nil => i <= MaxKey
        /\ t2.lastfree < 0 => Len(t2.array) > 0
        /\ t2.lastfree <= n
    BY ONLY <1>4, TableInv(t, n) DEF TableInv
  <2> QED BY ONLY <1>1, <1>2, <1>9, <1>10, <2>2, <2>3, <2>4 DEF TableInv
<1>12. NodeKeys(nd, S) \subseteq Obj
  BY ONLY <1>7 DEF NodeKeys
<1>13. ASSUME NEW k \in Key PROVE Get(t2, k) = IF k \in NodeKeys(nd, S) THEN Nil ELSE Get(t, k)
  <2>1. CASE k \in NodeKeys(nd, S)
    <3>1. PICK p \in S : nd[p].key = k
      BY <2>1 DEF NodeKeys
    <3>2. p \in 0 .. (n - 1) /\ HasKey(nd, p, k) /\ ~HasKey(nd2, p, k)
      BY ONLY <1>5, <1>7, <3>1, p \in S DEF HasKey
    <3>3. \A q \in 0 .. (n - 1) : ~HasKey(nd2, q, k)
      <4> SUFFICES ASSUME NEW q \in 0 .. (n - 1), HasKey(nd2, q, k) PROVE FALSE
        OBVIOUS
      <4>1. HasKey(nd, q, k)
        BY ONLY <1>9, HasKey(nd2, q, k), q \in 0 .. (n - 1)
      <4>2. p = q
        BY <1>2, <3>2, <4>1 DEF HashInv
      <4> QED BY <3>2, <4>2
    <3>4. ~InArray(t, k)
      BY ONLY <1>1, <3>2, TableInv(t, n), k \in Key, GetIs
    <3>5. ~InArray(t2, k)
      BY ONLY <1>4, <3>4, TableInv(t, n), <1>11, k \in Key, GetIs
    <3>6. Get(t2, k) = Nil
      BY ONLY <1>1, <1>11, <3>3, <3>5, k \in Key, GetIs
    <3> QED BY ONLY <2>1, <3>6
  <2>2. CASE k \notin NodeKeys(nd, S)
    <3>1. CASE k \in 1 .. Len(t.array)
      <4>1. Get(t, k) = t.array[k]
        BY ONLY <3>1, TableInv(t, n), k \in Key, GetIs
      <4>2. Get(t2, k) = t2.array[k]
        BY ONLY <1>4, <1>11, <3>1, k \in Key, GetIs
      <4> QED BY ONLY <1>4, <2>2, <4>1, <4>2
    <3>2. CASE k \notin 1 .. Len(t.array)
      <4>1. ~InArray(t, k)
        BY ONLY <3>2, TableInv(t, n), k \in Key, GetIs
      <4>2. ~InArray(t2, k)
        BY ONLY <1>4, <3>2, <1>11, k \in Key, GetIs
      <4>3. CASE \E p \in 0 .. (n - 1) : HasKey(nd2, p, k)
        <5>1. PICK p \in 0 .. (n - 1) : HasKey(nd2, p, k)
          BY <4>3
        <5>2. HasKey(nd, p, k)
          BY ONLY <1>9, <5>1, p \in 0 .. (n - 1)
        <5>3. p \notin S
          BY ONLY <2>2, <5>2 DEF HasKey, NodeKeys
        <5>4. nd2[p].val = nd[p].val
          BY ONLY <1>5, <5>3, p \in 0 .. (n - 1)
        <5>5. Get(t2, k) = nd2[p].val
          BY ONLY <1>1, <1>11, <5>1, k \in Key, p \in 0 .. (n - 1), GetIs
        <5>6. Get(t, k) = nd[p].val
          BY ONLY <1>1, TableInv(t, n), <5>2, k \in Key, p \in 0 .. (n - 1), GetIs
        <5> QED BY ONLY <2>2, <5>4, <5>5, <5>6
      <4>4. CASE \A p \in 0 .. (n - 1) : ~HasKey(nd2, p, k)
        <5>1. Get(t2, k) = Nil
          BY ONLY <1>1, <1>11, <4>2, <4>4, k \in Key, GetIs
        <5>2. CASE \E p \in 0 .. (n - 1) : HasKey(nd, p, k)
          <6>1. PICK p \in 0 .. (n - 1) : HasKey(nd, p, k)
            BY <5>2
          <6>2. p \notin S
            BY ONLY <2>2, <6>1 DEF HasKey, NodeKeys
          <6>3. nd[p].val = Nil
            BY ONLY <1>5, <4>4, <6>1, <6>2, p \in 0 .. (n - 1) DEF HasKey
          <6>4. Get(t, k) = nd[p].val
            BY ONLY <1>1, TableInv(t, n), <6>1, k \in Key, p \in 0 .. (n - 1), GetIs
          <6> QED BY ONLY <2>2, <5>1, <6>3, <6>4
        <5>3. CASE \A p \in 0 .. (n - 1) : ~HasKey(nd, p, k)
          <6>1. Get(t, k) = Nil
            BY ONLY <1>1, TableInv(t, n), <4>1, <5>3, k \in Key, GetIs
          <6> QED BY ONLY <2>2, <5>1, <6>1
        <5> QED BY ONLY <5>2, <5>3
      <4> QED BY ONLY <4>3, <4>4
    <3> QED BY ONLY <3>1, <3>2
  <2> QED BY ONLY <2>1, <2>2
<1>14. Stays(t, t2, n)
  <2>1. SameChains(nd, nd2, n)
    BY ONLY <1>5 DEF SameChains
  <2>2. \A p \in 0 .. (n - 1) : nd2[p].val # Nil => nd[p].val # Nil
    BY ONLY <1>5
  <2>3. t2.array = t.array
    BY ONLY <1>4
  <2> QED BY ONLY <1>1, <2>1, <2>2, <2>3 DEF Stays
<1> QED BY ONLY <1>1, <1>4, <1>11, <1>12, <1>13, <1>14

LEMMA ClearIs ==
  ASSUME NEW t, NEW t2, NEW n, TableInv(t, n),
         t2 = [t EXCEPT !.array = [i \in DOMAIN @ |-> Nil], !.node = [p \in DOMAIN @ |-> Empty],
                        !.lastfree = SizeNode(t)]
  PROVE  /\ TableInv(t2, n) /\ t2.recursed = t.recursed /\ \A k \in Key : Get(t2, k) = Nil
         /\ Orderly(t2.node, n)
<1>1. PICK L : L = Len(t.array)
  OBVIOUS
<1>2. /\ n \in Nat /\ t \in Tables(n) /\ IsNodes(t.node, n) /\ L \in Nat /\ DOMAIN t.array = 1 .. L
      /\ SizeNode(t) = n
  BY <1>1, TableIs DEF TableInv
<1>3. /\ t2.array = [i \in 1 .. L |-> Nil] /\ t2.node = [p \in DOMAIN t.node |-> Empty]
      /\ t2.lastfree = n /\ t2.recursed = t.recursed
      /\ t2 = [array |-> t2.array, node |-> t2.node, lastfree |-> t2.lastfree, recursed |-> t2.recursed]
      /\ t2.recursed \in BOOLEAN
  BY <1>1, <1>2 DEF Tables
<1>4. DOMAIN t.node = 0 .. (n - 1) /\ (t.node = Dummy <=> n = 0)
  BY ONLY <1>2, NodesAre
<1>5. IsNodes(t2.node, n) /\ \A p \in 0 .. (n - 1) : t2.node[p] = Empty
  <2>1. CASE n = 0
    <3>1. t2.node = Dummy
      BY ONLY <1>3, <1>4, <2>1 DEF Dummy
    <3> QED BY ONLY <1>3, <1>4, <2>1, <3>1 DEF IsNodes
  <2>2. CASE n # 0
    <3>1. t2.node = [p \in 0 .. (n - 1) |-> Empty] /\ Empty \in Node
      BY ONLY <1>3, <1>4 DEF Empty, Node
    <3> QED BY ONLY <1>2, <2>2, <3>1 DEF IsNodes
  <2> QED BY ONLY <2>1, <2>2
<1>6. HashInv(t2.node, n)
  BY ONLY <1>5, EmptyNodes
<1>7. t2.array \in Seq(Value \cup {Nil}) /\ Len(t2.array) = L /\ \A i \in 1 .. L : t2.array[i] = Nil
  BY ONLY <1>2, <1>3
<1>8. t2 \in Tables(n)
  <2>1. t2.node \in Nodes(n)
    BY ONLY <1>5 DEF IsNodes, Nodes
  <2>2. PICK a, nd, l, r : a = t2.array /\ nd = t2.node /\ l = t2.lastfree /\ r = t2.recursed
    OBVIOUS
  <2>3. t2 = [array |-> a, node |-> nd, lastfree |-> l, recursed |-> r]
    BY ONLY <1>3, <2>2
  <2>4. a \in Seq(Value \cup {Nil}) /\ nd \in Nodes(n) /\ l \in Int /\ r \in BOOLEAN
    BY ONLY <1>2, <1>3, <1>7, <2>1, <2>2
  <2> QED BY ONLY <2>3, <2>4 DEF Tables
<1>9. \A p \in 0 .. (n - 1) : \A k \in Key : ~HasKey(t2.node, p, k)
  BY ONLY <1>5, NilIsNoKey DEF HasKey, Empty
<1>10. TableInv(t2, n)
  <2>1. \A p \in 0 .. (n - 1) : \A k \in 1 .. (Len(t2.array) + 1) : ~HasKey(t2.node, p, k)
    BY ONLY <1>5, NilIsNoKey, <1>7, <1>2 DEF HasKey, Empty
  <2> QED BY ONLY <1>2, <1>3, <1>6, <1>7, <1>8, <2>1 DEF TableInv
<1>11. ASSUME NEW k \in Key PROVE Get(t2, k) = Nil
  <2>1. CASE k \in 1 .. L
    <3>1. Get(t2, k) = t2.array[k]
      BY ONLY <1>7, <1>10, <2>1, k \in Key, GetIs
    <3> QED BY ONLY <1>7, <2>1, <3>1
  <2>2. CASE k \notin 1 .. L
    <3>1. ~InArray(t2, k)
      BY ONLY <1>7, <1>10, <2>2, k \in Key, GetIs
    <3> QED BY ONLY <1>9, <1>10, <3>1, k \in Key, GetIs
  <2> QED BY ONLY <2>1, <2>2
<1>12. Orderly(t2.node, n)
  BY ONLY <1>5 DEF Orderly, Empty
<1> QED BY ONLY <1>3, <1>10, <1>11, <1>12

\* A resize that has room for what it moves keeps every entry.
LEMMA ResizeKeeps ==
  ASSUME NEW t, NEW n, NEW a, NEW h, NEW M, Resizing(t, n, a, h, M), Fits(M, a, VectorSize(h))
  PROVE  /\ TableInv(Resize(t, a, h), VectorSize(h)) /\ ~Resize(t, a, h).recursed
         /\ \A k \in Key : Get(Resize(t, a, h), k) = Get(t, k)
         /\ Apart(M) => Orderly(Resize(t, a, h).node, VectorSize(h))
<1>1. PICK s, m, D : s = Resize(t, a, h) /\ m = VectorSize(h) /\ D = InNodes(t, n, 0)
  OBVIOUS
<1>2. Filled(Contents(t), s, m, a, D, M)
  BY ONLY <1>1, Resizing(t, n, a, h, M), ResizeFills
<1>3. TableInv(s, m) /\ ~s.recursed
  BY ONLY <1>1, <1>2, Fits(M, a, VectorSize(h)) DEF Filled
<1>4. \A k \in Key : Get(s, k) = IF k \in D THEN Contents(t)[k] ELSE Nil
  BY ONLY <1>2, <1>3 DEF Filled
<1>5. TableInv(t, n)
  BY DEF Resizing
<1>6. ASSUME NEW k \in Key PROVE Get(s, k) = Get(t, k)
  <2>1. CASE k \in D
    <3>1. Contents(t)[k] = Get(t, k)
      BY ONLY k \in Key DEF Contents
    <3> QED BY ONLY <1>4, <2>1, <3>1, k \in Key
  <2>2. CASE k \notin D
    <3>1. k \notin 1 .. Len(t.array)
      BY ONLY <1>1, <2>2, k \in Key DEF InNodes
    <3>2. \A q \in 0 .. (n - 1) : q >= 0
      BY ONLY <1>5 DEF TableInv
    <3>3. \A q \in 0 .. (n - 1) : ~HasKey(t.node, q, k)
      BY ONLY <1>1, <2>2, <3>2, k \in Key DEF InNodes
    <3>4. ~InArray(t, k)
      BY ONLY <1>5, <3>1, k \in Key, GetIs
    <3>5. Get(t, k) = Nil
      BY ONLY <1>5, <3>3, <3>4, k \in Key, GetIs
    <3> QED BY ONLY <1>4, <2>2, <3>5, k \in Key
  <2> QED BY ONLY <2>1, <2>2
<1>7. Apart(M) => Orderly(s.node, m)
  BY ONLY <1>2, FilledOrder
<1> QED BY ONLY <1>1, <1>3, <1>6, <1>7

\* A resize of the array keeps as many nodes.
LEMMA ArrayResized ==
  ASSUME NEW t, NEW n, NEW s, NEW a, NEW h, TableInv(t, n), ~t.recursed, s \in Nat, s >= Len(t.array),
         a = AdjustASize(t, s, Nil), h = SizeNode(t)
  PROVE  /\ TableInv(Resize(t, a, h), VectorSize(h)) /\ ~Resize(t, a, h).recursed
         /\ \A k \in Key : Get(Resize(t, a, h), k) = Get(t, k)
         /\ Orderly(t.node, n) => Orderly(Resize(t, a, h).node, VectorSize(h))
<1>1. t \in Tables(n) /\ n \in Nat
  BY DEF TableInv
<1>2. h = n /\ Len(t.array) \in Nat
  BY ONLY <1>1, h = SizeNode(t), TableIs
<1>3. a \in Nat /\ a >= s /\ a + 1 \notin Used(t)
  <2>1. PICK k : k = Nil
    OBVIOUS
  <2>2. a = AdjustASize(t, s, k) /\ k \in Key \cup {Nil}
    BY <2>1
  <2> QED BY ONLY <2>2, TableInv(t, n), s \in Nat, AdjustIs
<1>4. PICK M : M = Used(t) \ 1 .. a
  OBVIOUS
<1>5. Resizing(t, n, a, h, M)
  BY <1>1, <1>2, <1>3, <1>4 DEF Resizing, Used
<1>6. M \in SUBSET KeysIn(t)
  <2>1. Used(t) = UsedSlots(t) \cup KeysIn(t) /\ UsedSlots(t) \subseteq 1 .. Len(t.array)
    BY ONLY TableInv(t, n), UsedIs
  <2>2. 1 .. Len(t.array) \subseteq 1 .. a
    BY ONLY <1>2, <1>3, s \in Nat, s >= Len(t.array)
  <2> QED BY ONLY <1>4, <2>1, <2>2
<1>7. IsFiniteSet(KeysIn(t)) /\ Cardinality(KeysIn(t)) <= n
  BY ONLY TableInv(t, n), UsedIs
<1>8. IsFiniteSet(M) /\ Cardinality(M) <= Cardinality(KeysIn(t))
  BY ONLY <1>6, <1>7, FS_Subset
<1>9. Cardinality(M) \in Nat /\ Cardinality(KeysIn(t)) \in Nat
  BY ONLY <1>7, <1>8, FS_CardinalityType
<1>10. VectorSize(h) \in Nat /\ VectorSize(h) >= h
  BY ONLY <1>1, <1>2, NodeVectorIs
<1>11. Fits(M, a, VectorSize(h))
  BY ONLY <1>1, <1>2, <1>3, <1>4, <1>7, <1>8, <1>9, <1>10 DEF Fits
<1>12. ASSUME Orderly(t.node, n) PROVE Apart(M)
  <2>1. Apart(Used(t))
    BY ONLY <1>12, TableInv(t, n), UsedApart
  <2>2. M \subseteq Used(t)
    BY ONLY <1>4
  <2> QED BY ONLY <2>1, <2>2, ApartSubset
<1> QED BY ONLY <1>5, <1>11, <1>12, ResizeKeeps

\* A weak table shrinks to the nodes that are in use.
LEMMA NodesResized ==
  ASSUME NEW t, NEW n, NEW a, NEW h, TableInv(t, n), ~t.recursed,
         a = SizeArray(t), h = Cardinality(UsedNodes(t))
  PROVE  /\ TableInv(Resize(t, a, h), VectorSize(h)) /\ ~Resize(t, a, h).recursed
         /\ \A k \in Key : Get(Resize(t, a, h), k) = Get(t, k)
         /\ Orderly(t.node, n) => Orderly(Resize(t, a, h).node, VectorSize(h))
<1>1. t \in Tables(n) /\ n \in Nat
  BY DEF TableInv
<1>2. a = Len(t.array) /\ a \in Nat
  BY ONLY <1>1, a = SizeArray(t), TableIs
<1>3. PICK M : M = KeysIn(t)
  OBVIOUS
<1>4. /\ Used(t) = UsedSlots(t) \cup KeysIn(t) /\ UsedSlots(t) \subseteq 1 .. Len(t.array)
      /\ KeysIn(t) \cap 1 .. (Len(t.array) + 1) = {} /\ IsFiniteSet(KeysIn(t))
      /\ Cardinality(KeysIn(t)) = Cardinality(UsedNodes(t))
  BY ONLY TableInv(t, n), UsedIs
<1>5. h = Cardinality(M) /\ h \in Nat
  BY ONLY <1>3, <1>4, h = Cardinality(UsedNodes(t)), FS_CardinalityType
<1>6. Resizing(t, n, a, h, M)
  <2>1. \A k \in Key : Get(t, k) # Nil => k \in 1 .. a \/ k \in M
    BY ONLY <1>2, <1>3, <1>4 DEF Used
  <2>2. h \in Int
    BY ONLY <1>5
  <2> QED BY ONLY <1>2, <2>1, <2>2, TableInv(t, n), ~t.recursed DEF Resizing
<1>7. VectorSize(h) \in Nat /\ VectorSize(h) >= h
  BY ONLY <1>5, NodeVectorIs
<1>8. Fits(M, a, VectorSize(h))
  BY ONLY <1>2, <1>3, <1>4, <1>5, <1>7 DEF Fits
<1>9. ASSUME Orderly(t.node, n) PROVE Apart(M)
  <2>1. Apart(Used(t))
    BY ONLY <1>9, TableInv(t, n), UsedApart
  <2>2. M \subseteq Used(t)
    BY ONLY <1>3, <1>4
  <2> QED BY ONLY <2>1, <2>2, ApartSubset
<1> QED BY ONLY <1>6, <1>8, <1>9, ResizeKeeps

-----------------------------------------------------------------------------
(* Traversal                                                                *)

\* The key k was in node p: it may have died, but no node with a key like it comes before p.
InNode(t, n, k, p) ==
    /\ p \in 0 .. (n - 1) /\ k \in Key /\ k \notin 1 .. Len(t.array) /\ t.node[p].key = k
    /\ t.node[p].dead => k \in Obj
    /\ \A r \in 0 .. (n - 1) : r # p /\ t.node[r].key # Nil /\ Alike(t.node[r].key, k) => Reach(t.node, n, p, r)

\* The key k was element j of t.
Element(t, n, k, j) ==
    \/ k = Nil /\ j = 0
    \/ k \in Key /\ k \in 1 .. Len(t.array) /\ j = k
    \/ \E p : InNode(t, n, k, p) /\ j = Len(t.array) + p + 1

\* What findindex accepts as the node of k
Matches(t, k) == {q \in DOMAIN t.node : SameObject(t, q, k)}

LEMMA MatchesAre ==
  ASSUME NEW t, NEW n, NEW k, NEW p, TableInv(t, n), Orderly(t.node, n), InNode(t, n, k, p)
  PROVE  p \in Matches(t, k) /\ \A q \in Matches(t, k) : q # p => q \in 0 .. (n - 1) /\ Reach(t.node, n, p, q)
<1>1. DOMAIN t.node = 0 .. (n - 1)
  <2>1. IsNodes(t.node, n)
    BY DEF TableInv, HashInv
  <2> QED BY ONLY <2>1, NodesAre
<1>2. /\ p \in 0 .. (n - 1) /\ k \in Key /\ t.node[p].key = k /\ (t.node[p].dead => k \in Obj)
  BY DEF InNode
<1>3. p \in Matches(t, k)
  BY ONLY <1>1, <1>2 DEF Matches, SameObject, Holds
<1>4. ASSUME NEW q \in Matches(t, k), q # p
      PROVE  q \in 0 .. (n - 1) /\ Reach(t.node, n, p, q)
  <2>1. q \in 0 .. (n - 1)
    BY ONLY <1>1, q \in Matches(t, k) DEF Matches
  <2>2. t.node[q].dead => t.node[q].key \in Obj
    BY ONLY <2>1, Orderly(t.node, n) DEF Orderly
  <2>3. Alike(t.node[q].key, k)
    BY ONLY <2>2, q \in Matches(t, k) DEF Matches, SameObject, Holds, Alike
  <2>4. t.node[q].key # Nil
    BY ONLY <1>2, <2>2, q \in Matches(t, k), NilIsNoKey DEF Matches, SameObject, Holds, Key
  <2> QED BY ONLY <1>4, <2>1, <2>3, <2>4, InNode(t, n, k, p) DEF InNode
<1> QED BY ONLY <1>3, <1>4

\* findindex finds the node of k, dead or not, before any other that it would accept.
LEMMA FindsNode ==
  ASSUME NEW t, NEW n, NEW k, NEW p, TableInv(t, n), Orderly(t.node, n), InNode(t, n, k, p)
  PROVE  Search(t, k, Matches(t, k)) = p
<1>1. PICK nd, S, c : nd = t.node /\ S = Matches(t, k) /\ c = Chain(t, Home(n, k))
  OBVIOUS
<1>2. HashInv(nd, n) /\ IsNodes(nd, n) /\ Linked(nd, n) /\ n \in Nat
  BY <1>1 DEF TableInv, HashInv
<1>3. p \in 0 .. (n - 1) /\ k \in Key /\ nd[p].key = k /\ n > 0
  <2>1. p \in 0 .. (n - 1) /\ k \in Key /\ nd[p].key = k
    BY <1>1 DEF InNode
  <2> QED BY ONLY <1>2, <2>1
<1>4. p \in S /\ \A q \in S : q # p => q \in 0 .. (n - 1) /\ Reach(nd, n, p, q)
  BY ONLY <1>1, TableInv(t, n), Orderly(t.node, n), InNode(t, n, k, p), MatchesAre
<1>5. Reach(nd, n, Home(n, k), p)
  <2>1. Settled(nd, n, p)
    BY ONLY <1>2, <1>3, NilIsNoKey DEF HashInv
  <2> QED BY ONLY <1>3, <2>1 DEF Settled
<1>6. /\ Walk(nd, n, Home(n, k), c)
      /\ (\E i \in 1 .. Len(c) : c[i] \in S) => First(c, S, Search(t, k, S))
  BY ONLY <1>1, <1>2, <1>3, SearchIs
<1>7. PICK j \in 1 .. Len(c) : c[j] = p
  BY ONLY <1>5, <1>6, WalkReaches
<1>8. PICK q : q = Search(t, k, S)
  OBVIOUS
<1>9. First(c, S, q)
  BY ONLY <1>4, <1>6, <1>7, <1>8
<1>10. PICK i \in 1 .. Len(c) : c[i] = q /\ q \in S /\ \A l \in 1 .. Len(c) : c[l] \in S => i <= l
  BY ONLY <1>9 DEF First
<1>11. ASSUME q # p PROVE FALSE
  <2>1. q \in 0 .. (n - 1) /\ Reach(nd, n, p, q)
    BY ONLY <1>4, <1>10, <1>11
  <2>2. PICK g : Ranked(nd, n, g)
    BY <1>2 DEF Linked
  <2>3. g[p] < g[q]
    BY ONLY <1>2, <1>3, <1>11, <2>1, <2>2, ReachOnward
  <2>4. Steps(nd, n, Home(n, k), c)
    BY ONLY <1>6 DEF Walk
  <2>5. i < j
    <3>1. i <= j /\ i # j
      BY ONLY <1>4, <1>7, <1>10, <1>11
    <3>2. Len(c) \in Nat
      BY ONLY <2>4, StepsAre
    <3> QED BY ONLY <3>1, <3>2, i \in 1 .. Len(c), j \in 1 .. Len(c)
  <2>6. g[q] < g[p]
    BY ONLY <1>7, <1>10, <2>2, <2>4, <2>5, StepsRise
  <2>7. g[p] \in Nat /\ g[q] \in Nat
    BY ONLY <1>3, <2>1, <2>2 DEF Ranked
  <2> QED BY ONLY <2>3, <2>6, <2>7
<1> QED BY <1>1, <1>8, <1>11

\* findindex finds the place of k.
LEMMA FindIs ==
  ASSUME NEW t, NEW n, NEW k, NEW j, TableInv(t, n), Orderly(t.node, n), Element(t, n, k, j)
  PROVE  FindIndex(t, k) = j /\ j \in 0 .. (Len(t.array) + n)
<1>1. n \in Nat /\ t \in Tables(n)
  BY DEF TableInv
<1>2. SizeArray(t) = Len(t.array) /\ Len(t.array) \in Nat
  BY ONLY <1>1, TableIs
<1>3. CASE k = Nil /\ j = 0
  BY ONLY <1>1, <1>2, <1>3 DEF FindIndex
<1>4. CASE k \in Key /\ k \in 1 .. Len(t.array) /\ j = k
  <2>1. InArray(t, k)
    BY ONLY <1>4, TableInv(t, n), GetIs
  <2> QED BY ONLY <1>1, <1>2, <1>4, <2>1, NilIsNoKey DEF FindIndex
<1>5. CASE \E p : InNode(t, n, k, p) /\ j = Len(t.array) + p + 1
  <2>1. PICK p : InNode(t, n, k, p) /\ j = Len(t.array) + p + 1
    BY <1>5
  <2>2. k \in Key /\ k # Nil /\ k \notin 1 .. Len(t.array) /\ p \in 0 .. (n - 1) /\ p # NotFound
    BY <2>1, NilIsNoKey DEF InNode
  <2>3. ~InArray(t, k)
    BY ONLY <2>2, TableInv(t, n), GetIs
  <2>4. Search(t, k, Matches(t, k)) = p
    BY ONLY <2>1, TableInv(t, n), Orderly(t.node, n), FindsNode
  <2>5. FindIndex(t, k) = SizeArray(t) + p + 1
    BY ONLY <2>2, <2>3, <2>4 DEF FindIndex, Matches
  <2> QED BY ONLY <1>1, <1>2, <2>1, <2>2, <2>5
<1> QED BY ONLY <1>3, <1>4, <1>5, Element(t, n, k, j) DEF Element

\* Elements are array slots, then nodes; no key is two elements.
LEMMA KeyAtIs ==
  ASSUME NEW t, NEW n, TableInv(t, n)
  PROVE  /\ \A i \in 1 .. Len(t.array) : KeyAt(t, i) = IF t.array[i] = Nil THEN Nil ELSE i
         /\ \A p \in 0 .. (n - 1) : KeyAt(t, Len(t.array) + p + 1) = IF t.node[p].val = Nil THEN Nil ELSE t.node[p].key
<1>1. n \in Nat /\ t \in Tables(n)
  BY DEF TableInv
<1>2. SizeArray(t) = Len(t.array) /\ Len(t.array) \in Nat
  BY ONLY <1>1, TableIs
<1>3. ASSUME NEW i \in 1 .. Len(t.array) PROVE KeyAt(t, i) = IF t.array[i] = Nil THEN Nil ELSE i
  BY ONLY <1>2, i \in 1 .. Len(t.array) DEF KeyAt, IsNil
<1>4. ASSUME NEW p \in 0 .. (n - 1)
      PROVE  KeyAt(t, Len(t.array) + p + 1) = IF t.node[p].val = Nil THEN Nil ELSE t.node[p].key
  <2>1. PICK l : l = Len(t.array)
    OBVIOUS
  <2>2. PICK i : i = l + p + 1
    OBVIOUS
  <2>3. n \in Nat /\ l \in Nat /\ SizeArray(t) = l
    BY ONLY <1>1, <1>2, <2>1
  <2>4. ~(i <= l) /\ i - l - 1 = p
    BY ONLY <2>2, <2>3, p \in 0 .. (n - 1)
  <2>5. KeyAt(t, i) = IF t.node[p].val = Nil THEN Nil ELSE t.node[p].key
    BY ONLY <2>3, <2>4 DEF KeyAt
  <2> QED BY ONLY <2>1, <2>2, <2>5
<1> QED BY ONLY <1>3, <1>4

\* Element i of t is the key k of a slot or a node with a value.
Given(t, n, k, i) ==
    \/ i \in 1 .. Len(t.array) /\ t.array[i] # Nil /\ k = i
    \/ \E p \in 0 .. (n - 1) : i = Len(t.array) + p + 1 /\ t.node[p].val # Nil /\ HasKey(t.node, p, k)

LEMMA KeyAtGives ==
  ASSUME NEW t, NEW n, NEW i, TableInv(t, n), i \in 1 .. (Len(t.array) + n)
  PROVE  /\ KeyAt(t, i) # Nil => KeyAt(t, i) \in Key /\ Given(t, n, KeyAt(t, i), i)
         /\ \A k : Given(t, n, k, i) => KeyAt(t, i) = k /\ k # Nil
<1>1. n \in Nat /\ t \in Tables(n) /\ HashInv(t.node, n) /\ IsNodes(t.node, n)
  BY DEF TableInv, HashInv
<1>2. Len(t.array) \in Nat
  BY ONLY <1>1, TableIs
<1>3. CASE i \in 1 .. Len(t.array)
  <2>1. KeyAt(t, i) = IF t.array[i] = Nil THEN Nil ELSE i
    BY ONLY <1>3, TableInv(t, n), KeyAtIs
  <2>2. t.array[i] # Nil => i \in Key
    BY ONLY <1>3, TableInv(t, n), TableAssumption DEF TableInv, Key, IntKey
  <2>3. ASSUME NEW k, Given(t, n, k, i) PROVE KeyAt(t, i) = k /\ k # Nil
    <3>1. \A p \in 0 .. (n - 1) : i # Len(t.array) + p + 1
      BY ONLY <1>1, <1>2, <1>3
    <3>2. t.array[i] # Nil /\ k = i
      BY ONLY <2>3, <3>1 DEF Given
    <3> QED BY ONLY <2>1, <2>2, <3>2, NilIsNoKey
  <2> QED BY ONLY <1>3, <2>1, <2>2, <2>3 DEF Given
<1>4. CASE i \notin 1 .. Len(t.array)
  <2>1. PICK p : p = i - Len(t.array) - 1
    OBVIOUS
  <2>2. p \in 0 .. (n - 1) /\ i = Len(t.array) + p + 1
    BY ONLY <1>1, <1>2, <1>4, <2>1, i \in 1 .. (Len(t.array) + n)
  <2>3. KeyAt(t, i) = IF t.node[p].val = Nil THEN Nil ELSE t.node[p].key
    BY ONLY <2>2, TableInv(t, n), KeyAtIs
  <2>4. ASSUME t.node[p].val # Nil PROVE HasKey(t.node, p, t.node[p].key) /\ t.node[p].key \in Key
    <3>1. t.node[p].key # Nil /\ ~t.node[p].dead
      BY ONLY <1>1, <2>2, <2>4 DEF HashInv, Empty
    <3> QED BY ONLY <1>1, <2>2, <3>1, KeyIs DEF HasKey
  <2>5. ASSUME NEW k, Given(t, n, k, i) PROVE KeyAt(t, i) = k /\ k # Nil
    <3>1. PICK q \in 0 .. (n - 1) : i = Len(t.array) + q + 1 /\ t.node[q].val # Nil /\ HasKey(t.node, q, k)
      BY ONLY <1>4, <2>5 DEF Given
    <3>2. p = q
      BY ONLY <1>1, <1>2, <2>2, <3>1, q \in 0 .. (n - 1)
    <3>3. t.node[p].val # Nil /\ t.node[p].key = k
      BY ONLY <3>1, <3>2 DEF HasKey
    <3> QED BY ONLY <2>3, <2>4, <3>3, NilIsNoKey
  <2>6. KeyAt(t, i) # Nil => KeyAt(t, i) \in Key /\ Given(t, n, KeyAt(t, i), i)
    BY ONLY <2>2, <2>3, <2>4 DEF Given
  <2> QED BY ONLY <2>5, <2>6
<1> QED BY ONLY <1>3, <1>4

LEMMA GivenOnce ==
  ASSUME NEW t, NEW n, NEW k, NEW i, NEW j, TableInv(t, n), Given(t, n, k, i), Given(t, n, k, j), k \in Key
  PROVE  i = j
<1>1. HashInv(t.node, n) /\ Len(t.array) \in Nat
  <2>1. n \in Nat /\ t \in Tables(n) /\ HashInv(t.node, n)
    BY DEF TableInv
  <2> QED BY ONLY <2>1, TableIs
<1>2. ASSUME NEW l, Given(t, n, k, l)
      PROVE  \/ l = k /\ k \in 1 .. Len(t.array)
             \/ k \notin 1 .. Len(t.array) /\ \E p \in 0 .. (n - 1) : l = Len(t.array) + p + 1 /\ HasKey(t.node, p, k)
  <2>1. \A p \in 0 .. (n - 1) : k \in 1 .. Len(t.array) => ~HasKey(t.node, p, k)
    BY ONLY <1>1, TableInv(t, n) DEF TableInv
  <2> QED BY ONLY <1>2, <2>1 DEF Given
<1>3. \A p, q \in 0 .. (n - 1) : HasKey(t.node, p, k) /\ HasKey(t.node, q, k) => p = q
  BY ONLY <1>1, k \in Key DEF HashInv
<1> QED BY ONLY <1>2, <1>3, Given(t, n, k, i), Given(t, n, k, j)

LEMMA UsedGiven ==
  ASSUME NEW t, NEW n, NEW k, TableInv(t, n), k \in Key, Get(t, k) # Nil
  PROVE  \E i \in 1 .. (Len(t.array) + n) : Given(t, n, k, i)
<1>1. n \in Nat /\ Len(t.array) \in Nat
  <2>1. n \in Nat /\ t \in Tables(n)
    BY DEF TableInv
  <2> QED BY ONLY <2>1, TableIs
<1>2. CASE k \in 1 .. Len(t.array)
  <2>1. t.array[k] # Nil
    BY ONLY <1>2, TableInv(t, n), k \in Key, Get(t, k) # Nil, GetIs
  <2>2. k \in 1 .. (Len(t.array) + n)
    BY ONLY <1>1, <1>2
  <2> QED BY ONLY <1>2, <2>1, <2>2 DEF Given
<1>3. CASE k \notin 1 .. Len(t.array)
  <2>1. ~InArray(t, k)
    BY ONLY <1>3, TableInv(t, n), k \in Key, GetIs
  <2>2. PICK p \in 0 .. (n - 1) : HasKey(t.node, p, k)
    BY ONLY <2>1, TableInv(t, n), k \in Key, Get(t, k) # Nil, GetIs
  <2>3. t.node[p].val # Nil
    BY ONLY <2>2, TableInv(t, n), k \in Key, Get(t, k) # Nil, GetIs
  <2>4. Len(t.array) + p + 1 \in 1 .. (Len(t.array) + n)
    BY ONLY <1>1, p \in 0 .. (n - 1)
  <2> QED BY ONLY <2>2, <2>3, <2>4 DEF Given
<1> QED BY ONLY <1>2, <1>3

\* Of the elements that are still there, those up to element j have been given.
Passed(t, n, j, s) == \A i \in 1 .. (Len(t.array) + n) : \A k \in Key : Given(t, n, k, i) => (k \in s <=> i <= j)

\* Where a traversal is that is at key k and has been given the keys s
Following(t, n, k, s) ==
    /\ s \subseteq Key
    /\ IF k = NotFound THEN s = {} ELSE \E j : Element(t, n, k, j) /\ Passed(t, n, j, s)

LEMMA GivenElement ==
  ASSUME NEW t, NEW n, NEW k, NEW i, TableInv(t, n), Orderly(t.node, n), k \in Key, Given(t, n, k, i)
  PROVE  Element(t, n, k, i)
<1>1. CASE i \in 1 .. Len(t.array) /\ t.array[i] # Nil /\ k = i
  BY ONLY <1>1, k \in Key DEF Element
<1>2. CASE \E p \in 0 .. (n - 1) : i = Len(t.array) + p + 1 /\ t.node[p].val # Nil /\ HasKey(t.node, p, k)
  <2>1. PICK p \in 0 .. (n - 1) : i = Len(t.array) + p + 1 /\ HasKey(t.node, p, k)
    BY <1>2
  <2>2. k \notin 1 .. Len(t.array)
    <3>1. Len(t.array) \in Nat
      <4>1. n \in Nat /\ t \in Tables(n)
        BY DEF TableInv
      <4> QED BY ONLY <4>1, TableIs
    <3>2. k \in 1 .. Len(t.array) => k \in 1 .. (Len(t.array) + 1)
      BY ONLY <3>1
    <3> QED BY ONLY <2>1, <3>2, TableInv(t, n) DEF TableInv
  <2>3. t.node[p].key = k /\ ~t.node[p].dead /\ k # Nil
    BY ONLY <2>1, k \in Key, NilIsNoKey DEF HasKey
  <2>4. \A r \in 0 .. (n - 1) : r # p /\ t.node[r].key # Nil /\ Alike(t.node[r].key, k) => Reach(t.node, n, p, r)
    BY ONLY <2>3, Orderly(t.node, n), p \in 0 .. (n - 1) DEF Orderly
  <2>5. InNode(t, n, k, p)
    BY ONLY <2>2, <2>3, <2>4, k \in Key, p \in 0 .. (n - 1) DEF InNode
  <2> QED BY ONLY <2>1, <2>5 DEF Element
<1> QED BY ONLY <1>1, <1>2, Given(t, n, k, i) DEF Given

\* luaH_next goes to the first element that is left, which has not been given yet.
LEMMA NextIs ==
  ASSUME NEW t, NEW n, NEW k, NEW j, NEW s, NEW k2, TableInv(t, n), Orderly(t.node, n), Element(t, n, k, j),
         Passed(t, n, j, s), k2 = NextKey(t, k)
  PROVE  \/ k2 = End /\ \A x \in Key : Get(t, x) # Nil => x \in s
         \/ k2 \in Key \ s /\ \E i : Element(t, n, k2, i) /\ Passed(t, n, i, s \cup {k2})
<1>1. PICK l : l = Len(t.array)
  OBVIOUS
<1>2. n \in Nat /\ l \in Nat /\ SizeArray(t) = l /\ SizeNode(t) = n
  <2>1. n \in Nat /\ t \in Tables(n)
    BY DEF TableInv
  <2> QED BY ONLY <1>1, <2>1, TableIs
<1>3. FindIndex(t, k) = j /\ j \in 0 .. (l + n)
  BY ONLY <1>1, TableInv(t, n), Orderly(t.node, n), Element(t, n, k, j), FindIs
<1>4. PICK rest : rest = {i \in j + 1 .. l + n : KeyAt(t, i) # Nil}
  OBVIOUS
<1>5. k2 = IF rest = {} THEN End ELSE KeyAt(t, CHOOSE i \in rest : \A h \in rest : i <= h)
  <2>1. j # NotFound
    BY ONLY <1>2, <1>3, NilIsNoKey
  <2> QED BY ONLY <1>2, <1>3, <1>4, <2>1, k2 = NextKey(t, k) DEF NextKey
<1>6. \A i \in rest : i \in Nat /\ i \in 1 .. (l + n) /\ i > j /\ KeyAt(t, i) # Nil
  BY ONLY <1>2, <1>3, <1>4
<1>7. \A i \in 1 .. (l + n) : i > j /\ KeyAt(t, i) # Nil => i \in rest
  BY ONLY <1>2, <1>3, <1>4
<1>8. \A i \in 1 .. (l + n) : /\ KeyAt(t, i) # Nil => KeyAt(t, i) \in Key /\ Given(t, n, KeyAt(t, i), i)
                              /\ \A x : Given(t, n, x, i) => KeyAt(t, i) = x /\ x # Nil
  BY ONLY <1>1, TableInv(t, n), KeyAtGives
<1>9. \A i \in 1 .. (l + n) : \A x \in Key : Given(t, n, x, i) => (x \in s <=> i <= j)
  BY ONLY <1>1, Passed(t, n, j, s) DEF Passed
<1>10. CASE rest = {}
  <2>1. ASSUME NEW x \in Key, Get(t, x) # Nil PROVE x \in s
    <3>1. PICK i \in 1 .. (l + n) : Given(t, n, x, i)
      BY ONLY <1>1, <2>1, TableInv(t, n), UsedGiven
    <3>2. KeyAt(t, i) # Nil
      BY ONLY <1>8, <3>1
    <3>3. ~(i > j)
      BY ONLY <1>7, <1>10, <3>2
    <3>4. i <= j
      BY ONLY <1>2, <1>3, <3>3, i \in 1 .. (l + n)
    <3> QED BY ONLY <1>9, <3>1, <3>4, x \in Key
  <2> QED BY ONLY <1>5, <1>10, <2>1
<1>11. CASE rest # {}
  <2>1. \E i \in rest : \A h \in rest : i <= h
    <3>1. rest \subseteq Nat
      BY ONLY <1>6
    <3> QED BY ONLY <1>11, <3>1, LeastNumber
  <2>2. PICK i : i = CHOOSE i_1 \in rest : \A h \in rest : i_1 <= h
    OBVIOUS
  <2>3. i \in rest /\ \A h \in rest : i <= h
    BY ONLY <2>1, <2>2
  <2>4. k2 = KeyAt(t, i)
    BY ONLY <1>5, <1>11, <2>2
  <2>5. i \in 1 .. (l + n) /\ i > j /\ k2 \in Key /\ Given(t, n, k2, i)
    BY ONLY <1>6, <1>8, <2>3, <2>4
  <2>6. k2 \notin s
    <3>1. ~(i <= j)
      BY ONLY <1>2, <1>3, <2>5
    <3> QED BY ONLY <1>9, <2>5, <3>1
  <2>7. Element(t, n, k2, i)
    BY ONLY <2>5, TableInv(t, n), Orderly(t.node, n), GivenElement
  <2>8. ASSUME NEW h \in 1 .. (l + n), NEW x \in Key, Given(t, n, x, h)
        PROVE  x \in s \cup {k2} <=> h <= i
    <3>1. x \in s <=> h <= j
      BY ONLY <1>9, <2>8
    <3>2. x = k2 => h = i
      BY ONLY <2>5, <2>8, TableInv(t, n), GivenOnce
    <3>3. h = i => x = k2
      BY ONLY <1>8, <2>4, <2>8
    <3>4. h > j => h >= i
      <4>1. h > j => h \in rest
        BY ONLY <1>7, <1>8, <2>8
      <4>2. h \in rest => i <= h
        BY ONLY <2>3
      <4> QED BY ONLY <1>2, <2>5, <4>1, <4>2, h \in 1 .. (l + n)
    <3> QED BY ONLY <1>2, <1>3, <2>5, <3>1, <3>2, <3>3, <3>4, h \in 1 .. (l + n)
  <2>9. Passed(t, n, i, s \cup {k2})
    BY ONLY <1>1, <2>8 DEF Passed
  <2> QED BY ONLY <2>5, <2>6, <2>7, <2>9
<1> QED BY ONLY <1>10, <1>11

\* A traversal is not disturbed by assignments to existing fields, nor by the collector.
LEMMA StaysFollowed ==
  ASSUME NEW t, NEW t2, NEW n, NEW k, NEW s, TableInv(t, n), TableInv(t2, n), Stays(t, t2, n), Following(t, n, k, s)
  PROVE  Following(t2, n, k, s)
<1>1. PICK nd, nd2 : nd = t.node /\ nd2 = t2.node
  OBVIOUS
<1>2. HashInv(nd, n) /\ IsNodes(nd, n) /\ Linked(nd, n) /\ IsNodes(nd2, n)
  BY <1>1 DEF TableInv, HashInv
<1>3. SameChains(nd, nd2, n) /\ Len(t2.array) = Len(t.array)
  BY <1>1 DEF Stays
<1>4. \A p \in 0 .. (n - 1) : nd2[p].key = nd[p].key /\ (nd[p].dead => nd2[p].dead) /\ (nd2[p].dead => nd[p].dead \/ nd[p].key \in Obj)
  BY ONLY <1>3 DEF SameChains
<1>5. \A m, p : Reach(nd, n, m, p) => Reach(nd2, n, m, p)
  <2>1. \A p \in 0 .. (n - 1) : nd2[p].next = nd[p].next /\ (nd[p].key # Nil => nd2[p].key # Nil)
    BY ONLY <1>3 DEF SameChains
  <2> QED BY ONLY <1>2, <2>1, LinksKept
<1>6. ASSUME NEW p, InNode(t, n, k, p) PROVE InNode(t2, n, k, p)
  <2>1. p \in 0 .. (n - 1) /\ k \in Key /\ k \notin 1 .. Len(t2.array) /\ nd2[p].key = k
    BY ONLY <1>1, <1>3, <1>4, <1>6 DEF InNode
  <2>2. nd2[p].dead => k \in Obj
    BY ONLY <1>1, <1>4, <1>6 DEF InNode
  <2>3. ASSUME NEW r \in 0 .. (n - 1), r # p, nd2[r].key # Nil, Alike(nd2[r].key, k) PROVE Reach(nd2, n, p, r)
    <3>1. nd[r].key # Nil /\ Alike(nd[r].key, k)
      BY ONLY <1>4, <2>3
    <3>2. Reach(nd, n, p, r)
      BY ONLY <1>1, <1>6, <2>3, <3>1 DEF InNode
    <3> QED BY ONLY <1>5, <3>2
  <2> QED BY ONLY <1>1, <2>1, <2>2, <2>3 DEF InNode
<1>7. ASSUME NEW j, Element(t, n, k, j) PROVE Element(t2, n, k, j)
  BY ONLY <1>3, <1>6, <1>7 DEF Element
<1>8. ASSUME NEW x, NEW i, Given(t2, n, x, i) PROVE Given(t, n, x, i)
  <2>1. \A p \in 0 .. (n - 1) : HasKey(nd2, p, x) => HasKey(nd, p, x)
    BY ONLY <1>4 DEF HasKey
  <2>2. CASE i \in 1 .. Len(t2.array) /\ t2.array[i] # Nil /\ x = i
    BY ONLY <1>3, <2>2, Stays(t, t2, n) DEF Given, Stays
  <2>3. CASE \E p \in 0 .. (n - 1) : i = Len(t2.array) + p + 1 /\ t2.node[p].val # Nil /\ HasKey(t2.node, p, x)
    <3>1. PICK p \in 0 .. (n - 1) : i = Len(t2.array) + p + 1 /\ t2.node[p].val # Nil /\ HasKey(t2.node, p, x)
      BY <2>3
    <3>2. t.node[p].val # Nil
      BY ONLY <3>1, Stays(t, t2, n) DEF Stays
    <3> QED BY ONLY <1>1, <1>3, <2>1, <3>1, <3>2 DEF Given
  <2> QED BY ONLY <1>8, <2>2, <2>3 DEF Given
<1>9. ASSUME NEW j, Passed(t, n, j, s) PROVE Passed(t2, n, j, s)
  BY ONLY <1>3, <1>8, <1>9 DEF Passed
<1> QED BY ONLY <1>7, <1>9, Following(t, n, k, s) DEF Following

-----------------------------------------------------------------------------
(* The invariant                                                            *)

TableHolds(t) == ~t.recursed /\ \E n : TableInv(t, n)

\* What a step may do to what the table holds
MapStep(c, c2) ==
    \/ c2 = c
    \/ \E S \in SUBSET Obj : c2 = [k \in Key |-> IF k \in S THEN Nil ELSE c[k]]
    \/ \E k \in Key, v \in Value \cup {Nil} : c2 = [c EXCEPT ![k] = v]
    \/ c2 = [k \in Key |-> Nil]

Moves(t, t2) == TableHolds(t2) /\ MapStep(Contents(t), Contents(t2))

LEMMA ContentsSame ==
  ASSUME NEW t, NEW t2, \A k \in Key : Get(t2, k) = Get(t, k)
  PROVE  Contents(t2) = Contents(t)
BY DEF Contents

LEMMA StaysSame ==
  ASSUME NEW t, NEW t2, NEW n, TableInv(t2, n), ~t2.recursed, \A k \in Key : Get(t2, k) = Get(t, k)
  PROVE  Moves(t, t2)
BY ContentsSame DEF Moves, TableHolds, MapStep

LEMMA InitHolds ==
  ASSUME TableInit
  PROVE  TableHolds(table) /\ Contents(table) = [k \in Key |-> Nil]
<1>1. PICK t, nd : t = table /\ nd = Dummy
  OBVIOUS
<1>2. /\ t = [array |-> <<>>, node |-> nd, lastfree |-> 0, recursed |-> FALSE]
  BY <1>1 DEF TableInit
<1>3. PICK n : n = 0
  OBVIOUS
<1>4. IsNodes(nd, n) /\ \A p \in 0 .. (n - 1) : FALSE
  BY <1>1, <1>3 DEF IsNodes
<1>5. HashInv(nd, n)
  BY ONLY <1>4, EmptyNodes
<1>6. /\ t.array = <<>> /\ t.node = nd /\ t.lastfree = 0 /\ ~t.recursed /\ Len(t.array) = 0
  BY ONLY <1>2
<1>7. t \in Tables(n)
  <2>1. nd \in Nodes(n)
    BY ONLY <1>4 DEF IsNodes, Nodes
  <2> QED BY ONLY <1>2, <2>1 DEF Tables
<1>8. TableInv(t, n)
  BY ONLY <1>3, <1>4, <1>5, <1>6, <1>7 DEF TableInv
<1>9. ASSUME NEW k \in Key PROVE Get(t, k) = Nil
  <2>1. k \notin 1 .. Len(t.array)
    BY ONLY <1>6
  <2>2. ~InArray(t, k)
    BY ONLY <1>8, <2>1, k \in Key, GetIs
  <2> QED BY ONLY <1>4, <1>8, <2>2, k \in Key, GetIs
<1>10. Contents(t) = [k \in Key |-> Nil]
  BY ONLY <1>9 DEF Contents
<1> QED BY ONLY <1>1, <1>6, <1>8, <1>10 DEF TableHolds

LEMMA SetMoves ==
  ASSUME NEW t, NEW t2, NEW n, NEW k, NEW v, TableInv(t, n), ~t.recursed, k \in Key, v \in Value \cup {Nil},
         t2 = Assigned(t, k, v)
  PROVE  Moves(t, t2)
<1>1. (\E m : TableInv(t2, m)) /\ ~t2.recursed /\ Assigns(t, t2, k, v)
  BY ONLY TableInv(t, n), ~t.recursed, k \in Key, v \in Value \cup {Nil}, t2 = Assigned(t, k, v), AssignedIs
<1>2. Contents(t2) = [Contents(t) EXCEPT ![k] = v]
  BY ONLY <1>1 DEF Assigns, Contents
<1>3. MapStep(Contents(t), Contents(t2))
  BY ONLY <1>2, k \in Key, v \in Value \cup {Nil} DEF MapStep
<1> QED BY ONLY <1>1, <1>3 DEF Moves, TableHolds

LEMMA CloneMoves ==
  ASSUME NEW t, NEW t2, NEW n, TableInv(t, n), ~t.recursed,
         t2 = IF t.node = Dummy /\ t.array # <<>> THEN [t EXCEPT !.lastfree = -Boundary(t)] ELSE t
  PROVE  Moves(t, t2)
<1>1. CASE t.node = Dummy /\ t.array # <<>>
  <2>1. PICK b : b = Boundary(t)
    OBVIOUS
  <2>2. /\ t \in Tables(n) /\ n \in Nat /\ t.lastfree <= n
    BY DEF TableInv
  <2>3. /\ IsNodes(t.node, n) /\ t.lastfree \in Int /\ t.array \in Seq(Value \cup {Nil})
        /\ SizeArray(t) = Len(t.array) /\ Len(t.array) \in Nat
    BY ONLY <2>2, TableIs
  <2>4. n = 0
    BY ONLY <1>1, <2>3, NodesAre
  <2>5. t.lastfree <= 0 /\ Len(t.array) > 0 /\ b \in Nat
    <3>1. Len(t.array) # 0
      BY ONLY <1>1, <2>3
    <3>2. PICK l, a : l = t.lastfree /\ a = Len(t.array)
      OBVIOUS
    <3>3. l \in Int /\ l <= 0 /\ a \in Nat /\ a > 0 /\ SizeArray(t) = a
      BY ONLY <2>2, <2>3, <2>4, <3>1, <3>2
    <3>4. b = IF l < 0 THEN -l ELSE a
      BY ONLY <2>1, <3>2, <3>3 DEF Boundary
    <3> QED BY ONLY <3>2, <3>3, <3>4
  <2>6. t2 = [t EXCEPT !.lastfree = -b]
    BY <1>1, <2>1
  <2>7. /\ TableInv(t2, n) /\ t2.recursed = t.recursed /\ \A k \in Key : Get(t2, k) = Get(t, k)
        /\ t2.array = t.array /\ t2.node = t.node
    BY ONLY <2>5, <2>6, TableInv(t, n), BoundaryKept, ZenonT(60)
  <2> QED BY ONLY <2>7, ~t.recursed, StaysSame
<1>2. CASE ~(t.node = Dummy /\ t.array # <<>>)
  <2>1. t2 = t
    BY <1>2
  <2> QED BY ONLY <2>1, TableInv(t, n), ~t.recursed, StaysSame
<1> QED BY <1>1, <1>2

LEMMA ClearMoves ==
  ASSUME NEW t, NEW t2, NEW n, TableInv(t, n), ~t.recursed,
         t2 = [t EXCEPT !.array = [i \in DOMAIN @ |-> Nil], !.node = [p \in DOMAIN @ |-> Empty],
                        !.lastfree = SizeNode(t)]
  PROVE  Moves(t, t2)
<1>1. TableInv(t2, n) /\ t2.recursed = t.recursed /\ \A k \in Key : Get(t2, k) = Nil
  BY ClearIs
<1>2. Contents(t2) = [k \in Key |-> Nil]
  BY ONLY <1>1 DEF Contents
<1> QED BY ONLY <1>1, <1>2, ~t.recursed DEF Moves, TableHolds, MapStep

\* A dead key makes the map lose its entry, if it had one.
LEMMA KillMoves ==
  ASSUME NEW t, NEW t2, NEW t3, NEW n, NEW m, NEW S, TableInv(t, n), ~t.recursed, S \subseteq UsedNodes(t),
         \A p \in S : t.node[p].key \in Obj, t2 = Kill(t, S),
         TableInv(t3, m), ~t3.recursed, \A k \in Key : Get(t3, k) = Get(t2, k)
  PROVE  Moves(t, t3)
<1>1. PICK K : K = NodeKeys(t.node, S)
  OBVIOUS
<1>2. K \subseteq Obj /\ \A k \in Key : Get(t2, k) = IF k \in K THEN Nil ELSE Get(t, k)
  BY ONLY <1>1, TableInv(t, n), S \subseteq UsedNodes(t), \A p \in S : t.node[p].key \in Obj,
          t2 = Kill(t, S), KillIs
<1>3. Contents(t3) = [k \in Key |-> IF k \in K THEN Nil ELSE Contents(t)[k]]
  <2>1. \A k \in Key : Contents(t)[k] = Get(t, k)
    BY DEF Contents
  <2>2. \A k \in Key : Get(t3, k) = IF k \in K THEN Nil ELSE Contents(t)[k]
    BY ONLY <1>2, <2>1, \A k \in Key : Get(t3, k) = Get(t2, k)
  <2> QED BY ONLY <2>2 DEF Contents
<1>4. MapStep(Contents(t), Contents(t3))
  BY ONLY <1>2, <1>3 DEF MapStep
<1> QED BY <1>4 DEF Moves, TableHolds

LEMMA TableStep ==
  ASSUME TableHolds(table), [TableNext]_tableVars
  PROVE  Moves(table, table')
<1>1. PICK t, t2 : t = table /\ t2 = table'
  OBVIOUS
<1>2. PICK n : TableInv(t, n)
  BY <1>1 DEF TableHolds
<1>3. ~t.recursed /\ t \in Tables(n) /\ n \in Nat
  BY <1>1, <1>2 DEF TableHolds, TableInv
<1>4. SizeArray(t) = Len(t.array) /\ Len(t.array) \in Nat
  BY ONLY <1>3, TableIs
<1> SUFFICES Moves(t, t2)
  BY <1>1
<1>5. ASSUME NEW k \in Key, NEW v \in Value \cup {Nil}, Set(k, v) PROVE Moves(t, t2)
  <2>1. t2 = Assigned(t, k, v)
    BY <1>1, <1>5 DEF Set
  <2> QED BY ONLY <1>2, <1>3, <2>1, k \in Key, v \in Value \cup {Nil}, SetMoves
<1>6. CASE Length
  <2>1. PICK b : b = GetN(t).keep
    OBVIOUS
  <2>2. b # NotFound /\ t2 = KeepBoundary(t, b)
    BY <1>1, <1>6, <2>1 DEF Length
  <2>3. b \in Nat /\ Len(t.array) > 0
    BY ONLY <1>2, <2>1, <2>2, GetNIs
  <2>4. TableInv(t2, n) /\ t2.recursed = t.recursed /\ \A k \in Key : Get(t2, k) = Get(t, k)
    BY ONLY <1>2, <2>2, <2>3, KeepIs
  <2> QED BY ONLY <1>3, <2>4, StaysSame
<1>7. CASE UNCHANGED table
  BY ONLY <1>1, <1>2, <1>3, <1>7, StaysSame
<1>8. CASE Clear
  <2>1. t2 = [t EXCEPT !.array = [i \in DOMAIN @ |-> Nil], !.node = [p \in DOMAIN @ |-> Empty],
                       !.lastfree = SizeNode(t)]
    BY <1>1, <1>8 DEF Clear
  <2> QED BY ONLY <1>2, <1>3, <2>1, ClearMoves
<1>9. CASE Clone
  <2>1. t2 = IF t.node = Dummy /\ t.array # <<>> THEN [t EXCEPT !.lastfree = -Boundary(t)] ELSE t
    BY <1>1, <1>9 DEF Clone
  <2> QED BY ONLY <1>2, <1>3, <2>1, CloneMoves
<1>10. CASE TraverseTable
  <2>1. PICK S : S = {}
    OBVIOUS
  <2>2. t2 = Kill(t, S) /\ S \subseteq UsedNodes(t) /\ \A p \in S : t.node[p].key \in Obj
    BY <1>1, <1>10, <2>1 DEF TraverseTable
  <2>3. TableInv(t2, n) /\ t2.recursed = t.recursed
    BY ONLY <1>2, <2>2, KillIs
  <2> QED BY ONLY <1>2, <1>3, <2>2, <2>3, KillMoves
<1>11. ASSUME NEW s \in IntKey, ResizeArray(s) PROVE Moves(t, t2)
  <2>1. PICK a, h : a = AdjustASize(t, s, Nil) /\ h = SizeNode(t)
    OBVIOUS
  <2>2. s > SizeArray(t) /\ t2 = Resize(t, a, h)
    BY <1>1, <1>11, <2>1 DEF ResizeArray
  <2>3. s \in Nat /\ s >= Len(t.array)
    BY <1>4, <2>2, TableAssumption DEF IntKey
  <2>4. /\ TableInv(t2, VectorSize(h)) /\ ~t2.recursed /\ \A k \in Key : Get(t2, k) = Get(t, k)
    BY ONLY <1>2, <1>3, <2>1, <2>2, <2>3, ArrayResized
  <2> QED BY ONLY <2>4, StaysSame
<1>12. ASSUME NEW S \in SUBSET {p \in UsedNodes(table) : table.node[p].key \in Obj \ {at}}, ClearTable(S)
       PROVE  Moves(t, t2)
  <2>1. S \subseteq UsedNodes(t) /\ \A p \in S : t.node[p].key \in Obj
    BY <1>1
  <2>2. PICK u : u = Kill(t, S)
    OBVIOUS
  <2>3. TableInv(u, n) /\ u.recursed = t.recursed
    BY ONLY <1>2, <2>1, <2>2, KillIs
  <2>4. PICK a, h : a = SizeArray(u) /\ h = Cardinality(UsedNodes(u))
    OBVIOUS
  <2>5. t2 = u \/ t2 = Resize(u, a, h)
    BY <1>1, <1>12, <2>2, <2>4 DEF ClearTable
  <2>6. CASE t2 = u
    BY ONLY <1>2, <1>3, <2>1, <2>2, <2>3, <2>6, KillMoves
  <2>7. CASE t2 = Resize(u, a, h)
    <3>1. TableInv(t2, VectorSize(h)) /\ ~t2.recursed /\ \A k \in Key : Get(t2, k) = Get(u, k)
      BY ONLY <1>3, <2>3, <2>4, <2>7, NodesResized
    <3> QED BY ONLY <1>2, <1>3, <2>1, <2>2, <3>1, KillMoves
  <2> QED BY <2>5, <2>6, <2>7
<1>13. CASE UNCHANGED tableVars
  BY <1>7, <1>13 DEF tableVars
<1>14. CASE BeginTraversal \/ NextElement
  BY <1>7, <1>14 DEF BeginTraversal, NextElement
<1> QED BY ONLY [TableNext]_tableVars, <1>5, <1>6, <1>8, <1>9, <1>10, <1>11, <1>12, <1>13, <1>14 DEF TableNext

\* No step leaves a table that newkey may have to grow while it is being resized, a chain
\* that a key is not in, a key in two places, or a node passed by the search for a free
\* position without a key.
THEOREM TableInvariant == TableSpec => []TableHolds(table)
<1>1. TableInit => TableHolds(table)
  BY InitHolds
<1>2. TableHolds(table) /\ [TableNext]_tableVars => TableHolds(table)'
  BY TableStep DEF Moves
<1> QED BY <1>1, <1>2, PTL DEF TableSpec

\* luaH_getn returns a border, whatever boundary was kept before, and whatever has been
\* assigned, cleared or migrated since.
THEOREM BorderCorrect == TableSpec => []Border
<1>1. TableHolds(table) => Border
  <2> SUFFICES ASSUME TableHolds(table) PROVE Border
    OBVIOUS
  <2>1. PICK t : t = table
    OBVIOUS
  <2>2. PICK n : TableInv(t, n)
    BY <2>1 DEF TableHolds
  <2>3. PICK m : m = GetN(t).n
    OBVIOUS
  <2>4. BorderIn(t, m)
    BY ONLY <2>2, <2>3, GetNIs
  <2>5. (m # 0 => m \in Key /\ Get(t, m) # Nil) /\ (m + 1 \in Key => Get(t, m + 1) = Nil)
    BY ONLY <2>2, <2>4, BorderIs
  <2> QED BY ONLY <2>1, <2>3, <2>5 DEF Border
<1> QED BY <1>1, TableInvariant, PTL

\* The sizes that rehash computes hold everything that migrates, so newkey never grows a
\* table within a resize; and the array is more than half in use, as computesizes asserts.
THEOREM RehashFitsCorrect == TableSpec => []RehashFits
<1>1. TableHolds(table) => RehashFits
  <2> SUFFICES ASSUME TableHolds(table) PROVE RehashFits
    OBVIOUS
  <2>1. PICK t : t = table
    OBVIOUS
  <2>2. PICK n : TableInv(t, n)
    BY <2>1 DEF TableHolds
  <2>3. ~table.recursed
    BY DEF TableHolds
  <2>4. ASSUME NEW k \in Key, Grows(t, k)
        PROVE  /\ ArraySize(t, k) \div 2 <= CountInt(t, ArraySize(t, k), k)
               /\ CountInt(t, ArraySize(t, k), k) <= ArraySize(t, k)
    <3>1. ~InArray(t, k) /\ NodeOf(t, k) = NotFound
      BY <2>4 DEF Grows
    <3>2. \A p \in 0 .. (n - 1) : ~HasKey(t.node, p, k)
      BY ONLY <2>2, <3>1, k \in Key, MissingIs
    <3>3. Get(t, k) = Nil
      BY ONLY <2>2, <3>1, <3>2, k \in Key, GetIs
    <3> QED BY ONLY <2>2, <3>3, k \in Key, ArraySizeIs
  <2>5. SizesFit
    BY ONLY <2>1, <2>4 DEF SizesFit
  <2> QED BY ONLY <2>3, <2>5 DEF RehashFits
<1> QED BY <1>1, TableInvariant, PTL

\* The table, and how far a traversal of it is
Traversed(t, k, s) == ~t.recursed /\ \E n : TableInv(t, n) /\ Orderly(t.node, n) /\ Following(t, n, k, s)

LEMMA Stopped ==
  ASSUME NEW t, NEW n, TableInv(t, n), ~t.recursed, Orderly(t.node, n)
  PROVE  Traversed(t, NotFound, {})
BY DEF Traversed, Following

\* An operation that moves nothing keeps a traversal where it is.
LEMMA Kept ==
  ASSUME NEW t, NEW t2, NEW n, NEW k, NEW s, TableInv(t, n), Orderly(t.node, n), Following(t, n, k, s),
         TableInv(t2, n), ~t2.recursed, Stays(t, t2, n)
  PROVE  Traversed(t2, k, s)
<1>1. Following(t2, n, k, s)
  BY StaysFollowed
<1>2. Orderly(t2.node, n)
  <2>1. SameChains(t.node, t2.node, n)
    BY DEF Stays
  <2>2. HashInv(t.node, n) /\ IsNodes(t2.node, n)
    BY DEF TableInv, HashInv
  <2> QED BY ONLY <2>1, <2>2, Orderly(t.node, n), SameOrder
<1> QED BY <1>1, <1>2 DEF Traversed

\* The program has no two objects at one address.
LEMMA ExistsSole ==
  ASSUME NEW k \in Key, CanExist(k), NEW n, TableInv(table, n)
  PROVE  Sole(table.node, n, k)
<1>1. DOMAIN table.node = 0 .. (n - 1)
  <2>1. IsNodes(table.node, n)
    BY DEF TableInv, HashInv
  <2> QED BY ONLY <2>1, NodesAre
<1>2. ASSUME NEW q \in 0 .. (n - 1), ~table.node[q].dead, Alike(table.node[q].key, k), table.node[q].key # k
      PROVE  FALSE
  <2>1. PICK o : o = table.node[q].key
    OBVIOUS
  <2>2. o \in Obj /\ k \in Obj /\ Address[o] = Address[k] /\ o # k
    BY ONLY <1>2, <2>1 DEF Alike
  <2>3. InUse(o)
    BY ONLY <1>1, <1>2, <2>1, q \in 0 .. (n - 1) DEF InUse, Holds
  <2> QED BY ONLY <2>2, <2>3, CanExist(k) DEF CanExist
<1> QED BY ONLY <1>2 DEF Sole

\* An assignment to a field that is there only changes a value; any other stops the traversal.
LEMMA SetTraversed ==
  ASSUME Traversed(table, at, seen), NEW k \in Key, NEW v \in Value \cup {Nil}, Set(k, v)
  PROVE  Traversed(table', at', seen')
<1>1. PICK t, t2 : t = table /\ t2 = table'
  OBVIOUS
<1>2. PICK n : TableInv(t, n) /\ Orderly(t.node, n) /\ Following(t, n, at, seen)
  BY <1>1 DEF Traversed
<1>3. ~t.recursed /\ t2 = Assigned(t, k, v) /\ CanExist(k)
  BY <1>1 DEF Traversed, Set
<1>4. /\ \E m : TableInv(t2, m) /\ (Orderly(t.node, n) /\ Sole(t.node, n, k) => Orderly(t2.node, m))
      /\ ~t2.recursed
      /\ Get(t, k) # Nil => Stays(t, t2, n) /\ TableInv(t2, n)
  BY ONLY <1>2, <1>3, k \in Key, v \in Value \cup {Nil}, AssignedIs
<1>5. CASE Get(t, k) = Nil
  <2>1. at' = NotFound /\ seen' = {}
    BY <1>1, <1>5 DEF Set, StopTraversal
  <2>2. Sole(t.node, n, k)
    BY <1>1, <1>2, <1>3, ExistsSole
  <2>3. PICK m : TableInv(t2, m) /\ Orderly(t2.node, m)
    BY ONLY <1>2, <1>4, <2>2
  <2>4. Traversed(t2, NotFound, {})
    BY ONLY <1>4, <2>3, Stopped
  <2> QED BY <1>1, <2>1, <2>4
<1>6. CASE Get(t, k) # Nil
  <2>1. at' = at /\ seen' = seen
    BY <1>1, <1>6 DEF Set
  <2>2. Stays(t, t2, n) /\ TableInv(t2, n)
    BY ONLY <1>4, <1>6
  <2>3. PICK x, s : x = at /\ s = seen
    OBVIOUS
  <2>4. Following(t, n, x, s)
    BY ONLY <1>2, <2>3
  <2>5. Traversed(t2, x, s)
    BY ONLY <1>2, <1>4, <2>2, <2>4, Kept
  <2> QED BY <1>1, <2>1, <2>3, <2>5
<1> QED BY <1>5, <1>6

\* next gives a key that has not been given, or all have been.
LEMMA NextTraversed ==
  ASSUME NEW t, NEW k, NEW s, Traversed(t, k, s), k # NotFound
  PROVE  /\ NextKey(t, k) = End => \A x \in Key : Get(t, x) # Nil => x \in s
         /\ NextKey(t, k) # End => NextKey(t, k) \in Key \ s /\ Traversed(t, NextKey(t, k), s \cup {NextKey(t, k)})
         /\ s \subseteq Key
<1>1. PICK n : TableInv(t, n) /\ Orderly(t.node, n) /\ Following(t, n, k, s)
  BY DEF Traversed
<1>2. PICK k2 : k2 = NextKey(t, k)
  OBVIOUS
<1>3. PICK j : Element(t, n, k, j) /\ Passed(t, n, j, s)
  BY ONLY <1>1, k # NotFound DEF Following
<1>4. \/ k2 = End /\ \A x \in Key : Get(t, x) # Nil => x \in s
      \/ k2 \in Key \ s /\ \E i : Element(t, n, k2, i) /\ Passed(t, n, i, s \cup {k2})
  BY ONLY <1>1, <1>2, <1>3, NextIs
<1>5. End \notin Key /\ NotFound \notin Key
  BY TableAssumption
<1>6. s \subseteq Key
  BY ONLY <1>1 DEF Following
<1>7. ASSUME k2 # End PROVE k2 \in Key \ s /\ Traversed(t, k2, s \cup {k2})
  <2>1. k2 \in Key \ s /\ \E i : Element(t, n, k2, i) /\ Passed(t, n, i, s \cup {k2})
    BY ONLY <1>4, <1>7
  <2>2. Following(t, n, k2, s \cup {k2})
    BY ONLY <1>5, <1>6, <2>1 DEF Following
  <2>3. ~t.recursed
    BY DEF Traversed
  <2> QED BY ONLY <1>1, <2>1, <2>2, <2>3 DEF Traversed
<1> QED BY ONLY <1>2, <1>4, <1>5, <1>6, <1>7

LEMMA TraversalStarts ==
  ASSUME NEW t, NEW s, Traversed(t, NotFound, s)
  PROVE  Traversed(t, Nil, s)
<1>1. PICK n : TableInv(t, n) /\ Orderly(t.node, n) /\ Following(t, n, NotFound, s)
  BY DEF Traversed
<1>2. s = {}
  BY <1>1 DEF Following
<1>3. PICK j, k : j = 0 /\ k = Nil
  OBVIOUS
<1>4. Element(t, n, k, j)
  BY <1>3 DEF Element
<1>5. Passed(t, n, j, s)
  BY <1>2, <1>3 DEF Passed
<1>6. NotFound # Nil
  BY TableAssumption
<1>7. Following(t, n, k, s)
  BY ONLY <1>2, <1>3, <1>4, <1>5, <1>6 DEF Following
<1> QED BY <1>1, <1>3, <1>7 DEF Traversed

LEMMA TraversalStep ==
  ASSUME Traversed(table, at, seen), [TableNext]_tableVars
  PROVE  Traversed(table', at', seen')
<1>1. PICK t, t2, k, s : t = table /\ t2 = table' /\ k = at /\ s = seen
  OBVIOUS
<1>2. Traversed(t, k, s)
  BY <1>1
<1>3. PICK n : TableInv(t, n) /\ Orderly(t.node, n) /\ Following(t, n, k, s)
  BY ONLY <1>2 DEF Traversed
<1>4. ~t.recursed /\ t \in Tables(n) /\ n \in Nat
  BY ONLY <1>2, <1>3 DEF Traversed, TableInv
<1>5. SizeArray(t) = Len(t.array) /\ Len(t.array) \in Nat
  BY ONLY <1>4, TableIs
<1>6. ASSUME StopTraversal, NEW m, TableInv(t2, m), ~t2.recursed, Orderly(t2.node, m)
      PROVE  Traversed(table', at', seen')
  <2>1. Traversed(t2, NotFound, {})
    BY ONLY <1>6, Stopped
  <2> QED BY <1>1, <1>6, <2>1 DEF StopTraversal
<1>7. ASSUME at' = at, seen' = seen, TableInv(t2, n), ~t2.recursed, Stays(t, t2, n)
      PROVE  Traversed(table', at', seen')
  <2>1. Traversed(t2, k, s)
    BY ONLY <1>3, <1>7, Kept
  <2> QED BY <1>1, <1>7, <2>1
<1>8. ASSUME t2.array = t.array, t2.node = t.node PROVE Stays(t, t2, n) /\ Orderly(t2.node, n)
  BY ONLY <1>3, <1>8 DEF Stays, SameChains
<1>9. ASSUME NEW x \in Key, NEW v \in Value \cup {Nil}, Set(x, v) PROVE Traversed(table', at', seen')
  BY <1>9, SetTraversed
<1>10. CASE Length
  <2>1. PICK b : b = GetN(t).keep
    OBVIOUS
  <2>2. b # NotFound /\ t2 = KeepBoundary(t, b) /\ at' = at /\ seen' = seen
    BY <1>1, <1>10, <2>1 DEF Length
  <2>3. b \in Nat /\ Len(t.array) > 0
    BY ONLY <1>3, <2>1, <2>2, GetNIs
  <2>4. TableInv(t2, n) /\ t2.recursed = t.recursed /\ t2.array = t.array /\ t2.node = t.node
    BY ONLY <1>3, <2>2, <2>3, KeepIs
  <2> QED BY ONLY <1>4, <1>7, <1>8, <2>2, <2>4
<1>11. CASE BeginTraversal
  <2>1. Traversed(t, Nil, s)
    BY <1>1, <1>2, <1>11, TraversalStarts DEF BeginTraversal
  <2> QED BY <1>1, <1>11, <2>1 DEF BeginTraversal
<1>12. CASE NextElement
  <2>1. k # NotFound /\ t2 = t
    BY <1>1, <1>12 DEF NextElement
  <2>2. NextKey(t, k) # End => Traversed(t, NextKey(t, k), s \cup {NextKey(t, k)})
    BY ONLY <1>2, <2>1, NextTraversed
  <2>3. CASE NextKey(t, k) = End
    <3>1. StopTraversal
      BY <1>1, <1>12, <2>3 DEF NextElement
    <3> QED BY ONLY <1>3, <1>4, <1>6, <2>1, <3>1
  <2>4. CASE NextKey(t, k) # End
    <3>1. at' = NextKey(t, k) /\ seen' = s \cup {NextKey(t, k)}
      BY <1>1, <1>12, <2>4 DEF NextElement
    <3> QED BY ONLY <1>1, <2>1, <2>2, <2>4, <3>1
  <2> QED BY <2>3, <2>4
<1>13. CASE Clear
  <2>1. /\ StopTraversal
        /\ t2 = [t EXCEPT !.array = [i \in DOMAIN @ |-> Nil], !.node = [p \in DOMAIN @ |-> Empty],
                          !.lastfree = SizeNode(t)]
    BY <1>1, <1>13 DEF Clear
  <2>2. TableInv(t2, n) /\ t2.recursed = t.recursed /\ Orderly(t2.node, n)
    BY ONLY <1>3, <2>1, ClearIs
  <2> QED BY ONLY <1>4, <1>6, <2>1, <2>2
<1>14. CASE Clone
  <2>1. StopTraversal /\ t2 = IF t.node = Dummy /\ t.array # <<>> THEN [t EXCEPT !.lastfree = -Boundary(t)] ELSE t
    BY <1>1, <1>14 DEF Clone
  <2>2. Moves(t, t2)
    BY ONLY <1>3, <1>4, <2>1, CloneMoves
  <2>3. PICK m : TableInv(t2, m) /\ ~t2.recursed
    BY ONLY <2>2 DEF Moves, TableHolds
  <2>4. t2.node = t.node
    BY ONLY <1>4, <2>1 DEF Tables
  <2>5. m = n
    <3>1. IsNodes(t.node, n) /\ IsNodes(t2.node, m)
      BY ONLY <1>3, <2>3 DEF TableInv, HashInv
    <3>2. Cardinality(DOMAIN t.node) = n
      BY ONLY <3>1, NodesAre
    <3>3. Cardinality(DOMAIN t2.node) = m
      BY ONLY <3>1, NodesAre
    <3> QED BY ONLY <2>4, <3>2, <3>3
  <2> QED BY ONLY <1>3, <1>6, <2>1, <2>3, <2>4, <2>5
<1>15. CASE TraverseTable
  <2>1. PICK S : S = {}
    OBVIOUS
  <2>2. t2 = Kill(t, S) /\ S \subseteq UsedNodes(t) /\ \A p \in S : t.node[p].key \in Obj
    BY <1>1, <1>15, <2>1 DEF TraverseTable
  <2>3. TableInv(t2, n) /\ t2.recursed = t.recursed /\ Stays(t, t2, n)
    BY ONLY <1>3, <2>2, KillIs
  <2>4. at' = at /\ seen' = seen
    BY <1>15 DEF TraverseTable
  <2> QED BY ONLY <1>4, <1>7, <2>3, <2>4
<1>16. ASSUME NEW l \in IntKey, ResizeArray(l) PROVE Traversed(table', at', seen')
  <2>1. PICK a, h : a = AdjustASize(t, l, Nil) /\ h = SizeNode(t)
    OBVIOUS
  <2>2. l > SizeArray(t) /\ t2 = Resize(t, a, h) /\ StopTraversal
    BY <1>1, <1>16, <2>1 DEF ResizeArray
  <2>3. l \in Nat /\ l >= Len(t.array)
    BY <1>5, <2>2, TableAssumption DEF IntKey
  <2>4. TableInv(t2, VectorSize(h)) /\ ~t2.recursed /\ Orderly(t2.node, VectorSize(h))
    BY ONLY <1>3, <1>4, <2>1, <2>2, <2>3, ArrayResized
  <2> QED BY ONLY <1>6, <2>2, <2>4
<1>17. ASSUME NEW S \in SUBSET {p \in UsedNodes(table) : table.node[p].key \in Obj \ {at}}, ClearTable(S)
       PROVE  Traversed(table', at', seen')
  <2>1. S \subseteq UsedNodes(t) /\ \A p \in S : t.node[p].key \in Obj
    BY <1>1
  <2>2. PICK u : u = Kill(t, S)
    OBVIOUS
  <2>3. TableInv(u, n) /\ u.recursed = t.recursed /\ Stays(t, u, n)
    BY ONLY <1>3, <2>1, <2>2, KillIs
  <2>4. PICK a, h : a = SizeArray(u) /\ h = Cardinality(UsedNodes(u))
    OBVIOUS
  <2>5. (t2 = u /\ at' = at /\ seen' = seen) \/ (t2 = Resize(u, a, h) /\ StopTraversal)
    BY <1>1, <1>17, <2>2, <2>4 DEF ClearTable
  <2>6. CASE t2 = u /\ at' = at /\ seen' = seen
    BY ONLY <1>4, <1>7, <2>3, <2>6
  <2>7. CASE t2 = Resize(u, a, h) /\ StopTraversal
    <3>1. Orderly(u.node, n)
      <4>1. SameChains(t.node, u.node, n)
        BY ONLY <2>3 DEF Stays
      <4>2. HashInv(t.node, n) /\ IsNodes(u.node, n)
        BY ONLY <1>3, <2>3 DEF TableInv, HashInv
      <4> QED BY ONLY <1>3, <4>1, <4>2, SameOrder
    <3>2. TableInv(t2, VectorSize(h)) /\ ~t2.recursed /\ Orderly(t2.node, VectorSize(h))
      BY ONLY <1>4, <2>3, <2>4, <2>7, <3>1, NodesResized
    <3> QED BY ONLY <1>6, <2>7, <3>2
  <2> QED BY <2>5, <2>6, <2>7
<1>18. CASE UNCHANGED tableVars
  BY <1>18 DEF tableVars
<1> QED BY ONLY [TableNext]_tableVars, <1>9, <1>10, <1>11, <1>12, <1>13, <1>14, <1>15, <1>16, <1>17, <1>18 DEF TableNext

\* A traversal that assigns to existing fields and meets collections is given every key that
\* stays, and none twice, wherever the keys are and whatever chains they share: a dead key is
\* found again by its address, since no other key with that address comes before it.
THEOREM TraversalCorrect == TableSpec => []Traversal
<1> DEFINE Inv == Traversed(table, at, seen)
<1>1. TableInit => Inv
  <2> SUFFICES ASSUME TableInit PROVE Traversed(table, at, seen)
    OBVIOUS
  <2>1. PICK n : TableInv(table, n)
    BY InitHolds DEF TableHolds
  <2>2. table.node = Dummy /\ ~table.recursed /\ at = NotFound /\ seen = {}
    BY DEF TableInit
  <2>3. n = 0
    <3>1. IsNodes(table.node, n)
      BY <2>1 DEF TableInv, HashInv
    <3> QED BY ONLY <2>2, <3>1, NodesAre
  <2>4. Orderly(table.node, n)
    BY ONLY <2>3 DEF Orderly
  <2>5. Traversed(table, NotFound, {})
    BY ONLY <2>1, <2>2, <2>4, Stopped
  <2> QED BY <2>2, <2>5
<1>2. Inv /\ [TableNext]_tableVars => Inv'
  BY TraversalStep
<1>3. Inv => Traversal
  <2> SUFFICES ASSUME Traversed(table, at, seen), at # NotFound
               PROVE  LET k == NextKey(table, at) IN
                      /\ k # NotFound /\ k \notin seen
                      /\ k = End => \A x \in Key : Get(table, x) # Nil => x \in seen
    BY DEF Traversal
  <2>1. /\ NextKey(table, at) = End => \A x \in Key : Get(table, x) # Nil => x \in seen
        /\ NextKey(table, at) # End => NextKey(table, at) \in Key \ seen
        /\ seen \subseteq Key
    BY ONLY Traversed(table, at, seen), at # NotFound, NextTraversed
  <2>2. End \notin Key /\ NotFound \notin Key /\ End # NotFound
    BY TableAssumption
  <2> QED BY ONLY <2>1, <2>2
<1> QED BY <1>1, <1>2, <1>3, PTL DEF TableSpec

\* A table implements a map, for every set of keys, whatever their hashes: an operation
\* changes what one key reads as, or takes entries from a weak table, or clears it all, or
\* changes nothing.
THEOREM MapImplemented == RecordedSpec => ImplementsMap
<1> DEFINE Inv == TableHolds(table) /\ map = Contents(table)
<1>1. RecordedInit => Inv /\ Map!Init
  BY InitHolds DEF RecordedInit, Map!Init
<1>2. Inv /\ [RecordedNext]_recordedVars => Inv' /\ [Map!Next]_map
  <2> SUFFICES ASSUME Inv, [RecordedNext]_recordedVars PROVE Inv' /\ [Map!Next]_map
    OBVIOUS
  <2>1. [TableNext]_tableVars /\ map' = Contents(table')
    BY DEF RecordedNext, recordedVars, tableVars
  <2>2. TableHolds(table') /\ MapStep(Contents(table), Contents(table'))
    BY <2>1, TableStep DEF Moves
  <2>3. MapStep(map, map')
    BY <2>1, <2>2
  <2>4. [Map!Next]_map
    BY ONLY <2>3 DEF MapStep, Map!Next, Map!Assign, Map!Clear, Map!ClearWeak
  <2> QED BY <2>1, <2>2, <2>4
<1> QED BY <1>1, <1>2, PTL DEF RecordedSpec, ImplementsMap, Map!Spec

=============================================================================
