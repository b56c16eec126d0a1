-------------------------- MODULE RequireCacheProofs --------------------------
(***************************************************************************)
(* Proofs about RequireCache, for any modules, any objects and any number  *)
(* of loads at once: whoever requires a module gets the same object, and   *)
(* no table stays locked when its module was loaded.                       *)
(***************************************************************************)
EXTENDS RequireCache, SequenceTheorems, TLAPS

RequireTypeOK ==
    /\ shortCircuit \in BOOLEAN /\ yields \in BOOLEAN
    /\ broken \in BOOLEAN /\ passedOn \in BOOLEAN
    /\ modules \in [Module -> Object \cup {NoObject}]
    /\ given \in [Module -> SUBSET Object]
    /\ loads \in Seq(Module)
    /\ provided \subseteq Module /\ twice \subseteq Module /\ failed \subseteq Module
    /\ locked \subseteq Object

\* The module is loaded once at most.
LoadedOnce(m) == \A i, j \in DOMAIN loads : loads[i] = m /\ loads[j] = m => i = j

HasPlaceholder(m) == shortCircuit /\ m \in Export

\* A locked table is the placeholder of one module, which is being loaded or failed.
Owned ==
    /\ locked \subseteq Held
    /\ \A m, n \in Module : modules[m] = modules[n] /\ modules[m] \in locked => m = n
    /\ \A m \in Module : \A o \in (given[m] \cup {modules[m]}) \cap locked :
          /\ HasPlaceholder(m) /\ o = modules[m]
          /\ m \in failed \/ Loading(m)

Same == \A m \in Module \ twice : given[m] \subseteq {modules[m]}

\* Only modules with a placeholder are noted, and only they are never loaded twice at once.
Noted ==
    /\ shortCircuit => twice \cap Export = {}
    /\ \A m \in provided : HasPlaceholder(m)
    /\ broken = FALSE

\* While a module is loaded the cache has its placeholder, which is noted once it was given,
\* or has nothing.
Cached ==
    \A m \in Module \ twice : Loading(m) =>
        /\ LoadedOnce(m)
        /\ IF HasPlaceholder(m) THEN modules[m] \in locked /\ (given[m] = {} \/ m \in provided)
                                ELSE modules[m] = NoObject

CacheInv == Owned /\ Same /\ Noted /\ Cached

RequireInv == RequireTypeOK /\ (~passedOn => CacheInv)

LEMMA FreshObject ==
    ASSUME NEW o \in Fresh, RequireTypeOK
    PROVE  /\ o \in Object /\ o \notin Held
           /\ \A m \in Module : o # modules[m] /\ o \notin given[m]
  BY DEF Fresh, Held

-----------------------------------------------------------------------------
(* The loads                                                                *)

\* A load that ends leaves the others.
LEMMA LoadRemoved ==
    ASSUME loads \in Seq(Module), NEW i \in DOMAIN loads, NEW m, m = loads[i],
           loads' = RemoveAt(loads, i)
    PROVE  /\ m \in Module
           /\ loads' \in Seq(Module)
           /\ \A n \in Module : Loading(n)' => Loading(n)
           /\ \A n \in Module : n # m /\ Loading(n) => Loading(n)'
           /\ \A n \in Module : LoadedOnce(n) => LoadedOnce(n)'
           /\ LoadedOnce(m) => ~Loading(m)'
<1> DEFINE K(j) == IF j < i THEN j ELSE j + 1
           front == SubSeq(loads, 1, i - 1)
           back == SubSeq(loads, i + 1, Len(loads))
<1>1. Len(loads) \in Nat /\ DOMAIN loads = 1 .. Len(loads) /\ i \in 1 .. Len(loads)
      /\ \A j \in DOMAIN loads : loads[j] \in Module
  BY LenProperties
<1>2. /\ front \in Seq(Module) /\ Len(front) = i - 1
      /\ \A j \in 1 .. i - 1 : front[j] = loads[j]
  <2>1. \A j \in 1 .. i - 1 : loads[j] \in Module
    BY <1>1
  <2>2. /\ front \in Seq(Module)
        /\ Len(front) = IF 1 <= i - 1 THEN (i - 1) - 1 + 1 ELSE 0
        /\ \A j \in 1 .. (i - 1) - 1 + 1 : front[j] = loads[1 + j - 1]
    BY <1>1, <2>1, SubSeqProperties
  <2> QED BY <1>1, <2>2
<1>3. /\ back \in Seq(Module) /\ Len(back) = Len(loads) - i
      /\ \A j \in 1 .. Len(loads) - i : back[j] = loads[j + i]
  <2>1. \A j \in i + 1 .. Len(loads) : loads[j] \in Module
    BY <1>1
  <2>2. /\ back \in Seq(Module)
        /\ Len(back) = IF i + 1 <= Len(loads) THEN Len(loads) - (i + 1) + 1 ELSE 0
        /\ \A j \in 1 .. Len(loads) - (i + 1) + 1 : back[j] = loads[(i + 1) + j - 1]
    BY <1>1, <2>1, SubSeqProperties
  <2> QED BY <1>1, <2>2
<1>4. /\ loads' \in Seq(Module) /\ Len(loads') = Len(loads) - 1
      /\ \A j \in 1 .. Len(loads) - 1 : loads'[j] = loads[K(j)]
  <2>1. loads' = front \o back
    BY DEF RemoveAt
  <2>2. /\ front \o back \in Seq(Module)
        /\ Len(front \o back) = Len(front) + Len(back)
        /\ \A j \in 1 .. Len(front) + Len(back) :
              (front \o back)[j] = IF j <= Len(front) THEN front[j] ELSE back[j - Len(front)]
    BY <1>2, <1>3, ConcatProperties
  <2>3. Len(front) + Len(back) = Len(loads) - 1 /\ Len(front) = i - 1
    BY <1>1, <1>2, <1>3
  <2>4. ASSUME NEW j \in 1 .. Len(loads) - 1
        PROVE  loads'[j] = loads[K(j)]
    <3> HIDE DEF front, back
    <3>1. CASE j < i
      <4>1. loads'[j] = front[j] /\ j \in 1 .. i - 1
        BY <1>1, <2>1, <2>2, <2>3, <3>1
      <4> QED BY <1>2, <3>1, <4>1
    <3>2. CASE ~(j < i)
      <4>1. loads'[j] = back[j - (i - 1)] /\ j - (i - 1) \in 1 .. Len(loads) - i
        BY <1>1, <2>1, <2>2, <2>3, <3>2
      <4>2. (j - (i - 1)) + i = j + 1
        BY <1>1
      <4> QED BY <1>3, <3>2, <4>1, <4>2
    <3> QED BY <3>1, <3>2
  <2> QED BY <2>1, <2>2, <2>3, <2>4
<1>5. DOMAIN loads' = 1 .. Len(loads) - 1
  BY <1>4, LenProperties
<1>6. \A j \in DOMAIN loads' : K(j) \in DOMAIN loads /\ K(j) # i /\ loads'[j] = loads[K(j)]
  BY <1>1, <1>4, <1>5
<1>7. \A j \in DOMAIN loads \ {i} : \E k \in DOMAIN loads' : j = K(k)
  <2> TAKE j \in DOMAIN loads \ {i}
  <2>1. CASE j < i
    BY <1>1, <1>5, <2>1
  <2>2. CASE j > i
    <3>1. j - 1 \in DOMAIN loads' /\ j = K(j - 1)
      BY <1>1, <1>5, <2>2
    <3> QED BY <3>1
  <2> QED BY <1>1, <2>1, <2>2
<1>8. \A j, k \in DOMAIN loads' : K(j) = K(k) => j = k
  BY <1>1, <1>5
<1> HIDE DEF K
<1>9. \A n \in Module : Loading(n)' => Loading(n)
  BY <1>6 DEF Loading
<1>10. \A n \in Module : n # m /\ Loading(n) => Loading(n)'
  BY <1>6, <1>7 DEF Loading
<1>11. \A n \in Module : LoadedOnce(n) => LoadedOnce(n)'
  BY <1>6, <1>8 DEF LoadedOnce
<1>12. LoadedOnce(m) => ~Loading(m)'
  BY <1>6 DEF Loading, LoadedOnce
<1> QED BY <1>1, <1>4, <1>9, <1>10, <1>11, <1>12

\* A load that begins
LEMMA LoadAdded ==
    ASSUME loads \in Seq(Module), NEW m \in Module, loads' = Append(loads, m)
    PROVE  /\ loads' \in Seq(Module)
           /\ Loading(m)'
           /\ \A n \in Module \ {m} : Loading(n)' <=> Loading(n)
           /\ \A n \in Module \ {m} : LoadedOnce(n) => LoadedOnce(n)'
           /\ ~Loading(m) => LoadedOnce(m)'
<1>1. /\ Len(loads) \in Nat /\ DOMAIN loads = 1 .. Len(loads)
      /\ loads' \in Seq(Module) /\ DOMAIN loads' = 1 .. Len(loads) + 1
      /\ \A j \in DOMAIN loads : loads'[j] = loads[j]
      /\ loads'[Len(loads) + 1] = m
  BY LenProperties
<1>2. DOMAIN loads' = DOMAIN loads \cup {Len(loads) + 1} /\ Len(loads) + 1 \notin DOMAIN loads
  BY <1>1
<1> QED BY <1>1, <1>2 DEF Loading, LoadedOnce

-----------------------------------------------------------------------------
(* The invariant                                                            *)

LEMMA RequireInitial == RequireInit => RequireInv
<1> SUFFICES ASSUME RequireInit PROVE RequireInv
  OBVIOUS
<1>1. loads \in Seq(Module) /\ \A m \in Module : ~Loading(m)
  BY DEF RequireInit, Loading
<1>2. RequireTypeOK
  BY <1>1 DEF RequireInit, RequireTypeOK
<1>3. CacheInv
  BY <1>1 DEF RequireInit, CacheInv, Owned, Same, Noted, Cached
<1> QED BY <1>2, <1>3 DEF RequireInv

\* Every operation keeps the types.
LEMMA RequireType ==
    ASSUME RequireTypeOK, [RequireNext]_requireVars
    PROVE  RequireTypeOK'
<1> USE DEF RequireTypeOK
<1>1. CASE UNCHANGED requireVars
  BY <1>1 DEF requireVars
<1>2. ASSUME NEW m \in Module, RequireCached(m), UNCHANGED <<shortCircuit, yields>>
      PROVE  RequireTypeOK'
  BY <1>2 DEF RequireCached, GiveCached, Give
<1>3. ASSUME NEW m \in Module, BeginLoad(m), UNCHANGED <<shortCircuit, yields>>
      PROVE  RequireTypeOK'
  <2>1. loads' \in Seq(Module)
    BY <1>3, LoadAdded DEF BeginLoad
  <2>2. modules' \in [Module -> Object \cup {NoObject}] /\ locked' \subseteq Object
    BY <1>3 DEF BeginLoad, Fresh
  <2> QED BY <1>3, <2>1, <2>2 DEF BeginLoad
<1>4. ASSUME NEW M \in SUBSET Module, Forget(M), UNCHANGED <<shortCircuit, yields>>
      PROVE  RequireTypeOK'
  BY <1>4 DEF Forget
<1>5. ASSUME NEW i \in 1 .. MaxLoads, EndLoad(i), UNCHANGED <<shortCircuit, yields>>
      PROVE  RequireTypeOK'
  <2>1. PICK m : m = loads[i]
    OBVIOUS
  <2>2. m \in Module /\ loads' \in Seq(Module)
    BY <1>5, <2>1, LoadRemoved DEF EndLoad, MayEnd
  <2>3. PICK o \in Results(m) :
          IF shortCircuit /\ m \in provided THEN Populate(m, o) \/ PopulateNil(m) ELSE Record(m, o)
    BY <1>5, <2>1 DEF EndLoad
  <2>4. o \in Object
    BY <2>2, <2>3 DEF Results, Fresh
  <2>5. /\ modules' \in [Module -> Object \cup {NoObject}]
        /\ given' \in [Module -> SUBSET Object]
        /\ locked' \subseteq Object
        /\ broken' \in BOOLEAN /\ passedOn' \in BOOLEAN
    <3>1. CASE Populate(m, o)
      BY <2>2, <2>4, <3>1 DEF Populate, Give
    <3>2. CASE PopulateNil(m)
      BY <2>2, <2>4, <3>2 DEF PopulateNil
    <3>3. CASE Record(m, o)
      BY <2>2, <2>4, <3>3 DEF Record, Give
    <3> QED BY <2>3, <3>1, <3>2, <3>3
  <2>6. UNCHANGED <<twice, failed>> /\ provided' \subseteq Module
    BY <1>5 DEF EndLoad
  <2> QED BY <1>5, <2>2, <2>5, <2>6
<1>6. ASSUME NEW i \in 1 .. MaxLoads, FailLoad(i), UNCHANGED <<shortCircuit, yields>>
      PROVE  RequireTypeOK'
  <2>1. PICK m : m = loads[i]
    OBVIOUS
  <2>2. m \in Module /\ loads' \in Seq(Module)
    BY <1>6, <2>1, LoadRemoved DEF FailLoad, MayEnd
  <2> QED BY <1>6, <2>1, <2>2 DEF FailLoad
<1> QED BY <1>1, <1>2, <1>3, <1>4, <1>5, <1>6
        DEF RequireNext, RequireStep, ClearCacheEntry, ClearCache

LEMMA KeepCached ==
    ASSUME RequireTypeOK, CacheInv, NEW m \in Module, RequireCached(m), UNCHANGED shortCircuit
    PROVE  CacheInv'
<1> USE DEF RequireTypeOK, HasPlaceholder, GiveCached
<1>1. /\ modules[m] \in Object /\ given' = [given EXCEPT ![m] = @ \cup {modules[m]}]
      /\ UNCHANGED <<modules, locked, loads, twice, failed, broken>>
  BY DEF RequireCached, Give
<1>2. \A n \in Module : /\ given'[n] = IF n = m THEN given[n] \cup {modules[n]} ELSE given[n]
                        /\ Loading(n)' <=> Loading(n)
                        /\ LoadedOnce(n)' <=> LoadedOnce(n)
  BY <1>1 DEF Loading, LoadedOnce
<1>3. Owned'
  <2>1. Held \subseteq Held'
    BY <1>1, <1>2 DEF Held
  <2> QED BY <1>1, <1>2, <2>1 DEF CacheInv, Owned
<1>4. Same'
  BY <1>1, <1>2 DEF CacheInv, Same
<1>5. Noted'
  <2>1. m \in provided' => m \in provided \/ (shortCircuit /\ modules[m] \in locked)
    BY DEF RequireCached
  <2>2. modules[m] \in locked => HasPlaceholder(m)
    BY DEF CacheInv, Owned
  <2> QED BY <1>1, <2>1, <2>2 DEF CacheInv, Noted, RequireCached
<1>6. Cached'
  <2>1. provided \subseteq provided' /\ (shortCircuit /\ modules[m] \in locked => m \in provided')
    BY DEF RequireCached
  <2>2. ASSUME NEW n \in Module \ twice, Loading(n)
        PROVE  /\ LoadedOnce(n)
               /\ IF HasPlaceholder(n) THEN modules[n] \in locked /\ (given'[n] = {} \/ n \in provided')
                                       ELSE modules[n] = NoObject
    BY <1>2, <2>1, <2>2 DEF CacheInv, Cached
  <2> QED BY <1>1, <1>2, <2>2 DEF Cached
<1> QED BY <1>3, <1>4, <1>5, <1>6 DEF CacheInv

LEMMA KeepBegin ==
    ASSUME RequireTypeOK, CacheInv, NEW m \in Module, BeginLoad(m), UNCHANGED shortCircuit
    PROVE  CacheInv'
<1> USE DEF RequireTypeOK, HasPlaceholder
<1>1. /\ modules[m] = NoObject /\ NoObject \notin Object
      /\ twice' = (IF Loading(m) THEN twice \cup {m} ELSE twice)
      /\ failed' = failed \ {m}
      /\ UNCHANGED <<provided, broken, given>>
  BY RequireAssumption DEF BeginLoad
<1>2. /\ Loading(m)'
      /\ \A n \in Module \ {m} : Loading(n)' <=> Loading(n)
      /\ \A n \in Module \ {m} : LoadedOnce(n) => LoadedOnce(n)'
      /\ ~Loading(m) => LoadedOnce(m)'
  BY LoadAdded DEF BeginLoad
<1>3. m \notin twice => given[m] = {}
  BY <1>1 DEF CacheInv, Same
<1>4. ~(Loading(m) /\ HasPlaceholder(m))
  <2> SUFFICES ASSUME Loading(m), HasPlaceholder(m) PROVE FALSE
    OBVIOUS
  <2>1. m \notin twice
    BY DEF CacheInv, Noted
  <2> QED BY <1>1, <2>1 DEF CacheInv, Cached
<1>5. Noted'
  BY <1>1, <1>4 DEF CacheInv, Noted
<1>6. given[m] \cap locked = {}
  BY <1>1 DEF CacheInv, Owned
<1>7. CASE HasPlaceholder(m)
  <2>1. PICK o \in Fresh : modules' = [modules EXCEPT ![m] = o] /\ locked' = locked \cup {o}
    BY <1>7 DEF BeginLoad
  <2>2. /\ o \in Object /\ o \notin Held
        /\ \A n \in Module : o # modules[n] /\ o \notin given[n]
    BY FreshObject
  <2>3. \A n \in Module : modules'[n] = IF n = m THEN o ELSE modules[n]
    BY <2>1
  <2>4. m \notin twice /\ m \notin twice'
    BY <1>1, <1>4, <1>7 DEF CacheInv, Noted
  <2>5. Owned'
    <3>1. locked' \subseteq Held'
      <4>1. SUFFICES ASSUME NEW x \in locked' PROVE x \in Held'
        OBVIOUS
      <4>2. CASE x = o
        BY <2>3, <4>2 DEF Held
      <4>3. CASE x \in locked
        <5>1. PICK n \in Module : x = modules[n] \/ x \in given[n]
          BY <4>3 DEF CacheInv, Owned, Held
        <5>2. x # NoObject
          BY <1>1, <4>3
        <5>3. x = modules'[n] \/ x \in given'[n]
          BY <1>1, <2>3, <5>1, <5>2
        <5> QED BY <5>3 DEF Held
      <4> QED BY <2>1, <4>2, <4>3
    <3>2. \A n, k \in Module : modules'[n] = modules'[k] /\ modules'[n] \in locked' => n = k
      BY <2>1, <2>2, <2>3 DEF CacheInv, Owned
    <3>3. ASSUME NEW n \in Module, NEW x \in (given'[n] \cup {modules'[n]}) \cap locked'
          PROVE  HasPlaceholder(n) /\ x = modules'[n] /\ (n \in failed' \/ Loading(n)')
      <4>1. CASE n = m
        BY <1>1, <1>2, <1>6, <1>7, <2>1, <2>2, <2>3, <3>3, <4>1
      <4>2. CASE n # m
        <5>1. x \in (given[n] \cup {modules[n]}) \cap locked
          BY <1>1, <2>1, <2>2, <2>3, <3>3, <4>2
        <5> QED BY <1>1, <1>2, <2>3, <4>2, <5>1 DEF CacheInv, Owned
      <4> QED BY <4>1, <4>2
    <3> QED BY <3>1, <3>2, <3>3 DEF Owned
  <2>6. Same'
    BY <1>1, <1>3, <2>3, <2>4 DEF CacheInv, Same
  <2>7. Cached'
    <3>1. ASSUME NEW n \in Module \ twice', Loading(n)'
          PROVE  /\ LoadedOnce(n)'
                 /\ IF HasPlaceholder(n)
                    THEN modules'[n] \in locked' /\ (given'[n] = {} \/ n \in provided')
                    ELSE modules'[n] = NoObject
      <4>1. CASE n = m
        BY <1>1, <1>2, <1>3, <1>4, <1>7, <2>1, <2>3, <2>4, <4>1
      <4>2. CASE n # m
        BY <1>1, <1>2, <2>1, <2>3, <3>1, <4>2 DEF CacheInv, Cached
      <4> QED BY <4>1, <4>2
    <3> QED BY <3>1 DEF Cached
  <2> QED BY <1>5, <2>5, <2>6, <2>7 DEF CacheInv
<1>8. CASE ~HasPlaceholder(m)
  <2>1. UNCHANGED <<modules, locked>>
    BY <1>8 DEF BeginLoad
  <2>2. Owned'
    <3>1. Held' = Held
      BY <1>1, <2>1 DEF Held
    <3>2. ASSUME NEW n \in Module, NEW x \in (given[n] \cup {modules[n]}) \cap locked
          PROVE  HasPlaceholder(n) /\ x = modules[n] /\ (n \in failed' \/ Loading(n)')
      BY <1>1, <1>2, <1>8, <3>2 DEF CacheInv, Owned
    <3> QED BY <1>1, <2>1, <3>1, <3>2 DEF CacheInv, Owned
  <2>3. Same'
    BY <1>1, <2>1 DEF CacheInv, Same
  <2>4. Cached'
    <3>1. ASSUME NEW n \in Module \ twice', Loading(n)'
          PROVE  /\ LoadedOnce(n)'
                 /\ IF HasPlaceholder(n)
                    THEN modules'[n] \in locked' /\ (given'[n] = {} \/ n \in provided')
                    ELSE modules'[n] = NoObject
      <4>1. CASE n = m
        BY <1>1, <1>2, <1>8, <2>1, <3>1, <4>1
      <4>2. CASE n # m
        BY <1>1, <1>2, <2>1, <3>1, <4>2 DEF CacheInv, Cached
      <4> QED BY <4>1, <4>2
    <3> QED BY <3>1 DEF Cached
  <2> QED BY <1>5, <2>2, <2>3, <2>4 DEF CacheInv
<1> QED BY <1>7, <1>8

LEMMA KeepFail ==
    ASSUME RequireTypeOK, CacheInv, NEW i, FailLoad(i), UNCHANGED shortCircuit
    PROVE  CacheInv'
<1> USE DEF RequireTypeOK, HasPlaceholder
<1>1. PICK m : m = loads[i]
  OBVIOUS
<1>2. /\ m \in Module
      /\ \A n \in Module : Loading(n)' => Loading(n)
      /\ \A n \in Module : n # m /\ Loading(n) => Loading(n)'
      /\ \A n \in Module : LoadedOnce(n) => LoadedOnce(n)'
  BY <1>1, LoadRemoved DEF FailLoad, MayEnd
<1>3. UNCHANGED <<modules, provided, locked, broken, given, twice>> /\ failed' = failed \cup {m}
  BY <1>1 DEF FailLoad
<1>4. Held' = Held
  BY <1>3 DEF Held
<1>5. Owned'
  <2>1. \A n \in Module : n \in failed \/ Loading(n) => n \in failed' \/ Loading(n)'
    BY <1>2, <1>3
  <2> QED BY <1>3, <1>4, <2>1 DEF CacheInv, Owned
<1>6. Same' /\ Noted'
  BY <1>3 DEF CacheInv, Same, Noted
<1>7. Cached'
  BY <1>2, <1>3 DEF CacheInv, Cached
<1> QED BY <1>5, <1>6, <1>7 DEF CacheInv

LEMMA KeepForget ==
    ASSUME RequireTypeOK, CacheInv, NEW M \in SUBSET Module, \A m \in M : ~Loading(m), Forget(M),
           UNCHANGED shortCircuit
    PROVE  CacheInv'
<1> USE DEF RequireTypeOK, HasPlaceholder
<1>1. /\ UNCHANGED <<provided, loads, broken>>
      /\ twice' = twice \ M /\ failed' = failed \ M /\ locked' = locked \cap Held'
      /\ NoObject \notin Object
  BY RequireAssumption DEF Forget
<1>2. \A n \in Module : /\ modules'[n] = IF n \in M THEN NoObject ELSE modules[n]
                        /\ given'[n] = IF n \in M THEN {} ELSE given[n]
                        /\ modules'[n] \in Held'
                        /\ Loading(n)' <=> Loading(n)
                        /\ LoadedOnce(n)' <=> LoadedOnce(n)
  BY <1>1 DEF Forget, Loading, LoadedOnce, Held
<1>3. Owned'
  <2>1. ASSUME NEW n \in Module, NEW x \in (given'[n] \cup {modules'[n]}) \cap locked'
        PROVE  HasPlaceholder(n) /\ x = modules'[n] /\ (n \in failed' \/ Loading(n)')
    <3>1. n \notin M
      BY <1>1, <1>2, <2>1
    <3> QED BY <1>1, <1>2, <2>1, <3>1 DEF CacheInv, Owned
  <2>2. \A n, k \in Module : modules'[n] = modules'[k] /\ modules'[n] \in locked' => n = k
    BY <1>1, <1>2 DEF CacheInv, Owned
  <2> QED BY <1>1, <2>1, <2>2 DEF Owned
<1>4. Same' /\ Noted'
  BY <1>1, <1>2 DEF CacheInv, Same, Noted
<1>5. Cached'
  <2>1. ASSUME NEW n \in Module \ twice', Loading(n)'
        PROVE  /\ LoadedOnce(n)'
               /\ IF HasPlaceholder(n)
                  THEN modules'[n] \in locked' /\ (given'[n] = {} \/ n \in provided')
                  ELSE modules'[n] = NoObject
    <3>1. n \notin M /\ n \notin twice
      BY <1>1, <1>2, <2>1
    <3> QED BY <1>1, <1>2, <2>1, <3>1 DEF CacheInv, Cached
  <2> QED BY <2>1 DEF Cached
<1> QED BY <1>3, <1>4, <1>5 DEF CacheInv

LEMMA KeepEnd ==
    ASSUME RequireTypeOK, CacheInv, NEW i, EndLoad(i), ~passedOn', UNCHANGED shortCircuit
    PROVE  CacheInv'
<1> USE DEF RequireTypeOK, HasPlaceholder
<1>1. PICK m : m = loads[i]
  OBVIOUS
<1>2. /\ m \in Module /\ Loading(m)
      /\ \A n \in Module : Loading(n)' => Loading(n)
      /\ \A n \in Module : n # m /\ Loading(n) => Loading(n)'
      /\ \A n \in Module : LoadedOnce(n) => LoadedOnce(n)'
      /\ LoadedOnce(m) => ~Loading(m)'
  BY <1>1, LoadRemoved DEF EndLoad, MayEnd, Loading
<1>3. PICK o \in Results(m) :
        IF shortCircuit /\ m \in provided THEN Populate(m, o) \/ PopulateNil(m) ELSE Record(m, o)
  BY <1>1 DEF EndLoad
<1>4. /\ UNCHANGED <<twice, failed>> /\ NoObject \notin Object
      /\ provided' = IF shortCircuit THEN provided \ {m} ELSE provided
  BY <1>1, RequireAssumption DEF EndLoad
<1>5. o \in Object
  BY <1>2, <1>3 DEF Results, Fresh
<1>6. m \in Export => o \in Fresh
  BY <1>3 DEF Results
<1>7. /\ m \notin twice => LoadedOnce(m) /\ ~Loading(m)'
      /\ HasPlaceholder(m) => m \notin twice /\ modules[m] \in locked
                              /\ (given[m] = {} \/ m \in provided)
      /\ m \notin twice /\ ~HasPlaceholder(m) => modules[m] = NoObject /\ given[m] = {}
  BY <1>2, <1>4 DEF CacheInv, Cached, Noted, Same
<1>8. CASE m \in provided
  <2>1. HasPlaceholder(m)
    BY <1>8 DEF CacheInv, Noted
  <2>2. modules[m] \in locked /\ ~Loading(m)' /\ o \notin locked
    BY <1>6, <1>7, <2>1, FreshObject DEF CacheInv, Owned
  <2>3. /\ locked' = locked \ {modules[m]}
        /\ given' = [given EXCEPT ![m] = @ \cup {modules[m]}]
        /\ UNCHANGED <<modules, broken>>
    BY <1>3, <1>4, <1>8, <2>1, <2>2 DEF Populate, PopulateNil, Give
  <2>4. \A n \in Module : given'[n] = IF n = m THEN given[m] \cup {modules[m]} ELSE given[n]
    BY <2>3
  <2>5. Owned'
    <3>1. Held \subseteq Held'
      BY <2>3, <2>4 DEF Held
    <3>2. ASSUME NEW n \in Module, NEW x \in (given'[n] \cup {modules'[n]}) \cap locked'
          PROVE  x = modules'[n] /\ HasPlaceholder(n) /\ (n \in failed' \/ Loading(n)')
      <4>1. x \in (given[n] \cup {modules[n]}) \cap locked /\ x # modules[m]
        BY <2>3, <2>4, <3>2
      <4>2. x = modules[n] /\ HasPlaceholder(n) /\ (n \in failed \/ Loading(n))
        BY <4>1 DEF CacheInv, Owned
      <4> QED BY <1>2, <1>4, <2>3, <4>1, <4>2
    <3> QED BY <2>3, <3>1, <3>2 DEF CacheInv, Owned
  <2>6. Same'
    BY <1>4, <2>3, <2>4 DEF CacheInv, Same
  <2>7. Noted'
    BY <1>4, <2>3 DEF CacheInv, Noted
  <2>8. Cached'
    <3>1. ASSUME NEW n \in Module \ twice, Loading(n)'
          PROVE  /\ LoadedOnce(n)'
                 /\ IF HasPlaceholder(n)
                    THEN modules'[n] \in locked' /\ (given'[n] = {} \/ n \in provided')
                    ELSE modules'[n] = NoObject
      <4>1. n # m /\ Loading(n)
        BY <1>2, <2>2, <3>1
      <4>2. modules[n] \in locked => modules[n] # modules[m]
        BY <1>2, <4>1 DEF CacheInv, Owned
      <4> QED BY <1>2, <1>4, <2>3, <2>4, <3>1, <4>1, <4>2 DEF CacheInv, Cached
    <3> QED BY <1>4, <3>1 DEF Cached
  <2> QED BY <2>5, <2>6, <2>7, <2>8 DEF CacheInv
<1>9. CASE m \notin provided
  <2>1. /\ modules' = [modules EXCEPT ![m] = o]
        /\ given' = [given EXCEPT ![m] = @ \cup {o}]
        /\ locked' = locked \cap Held'
        /\ o \notin locked
        /\ UNCHANGED broken
    BY <1>3, <1>9 DEF Record, Give
  <2>2. \A n \in Module : /\ given'[n] = IF n = m THEN given[m] \cup {o} ELSE given[n]
                          /\ modules'[n] = IF n = m THEN o ELSE modules[n]
                          /\ modules'[n] \in Held'
    BY <2>1 DEF Held
  <2>3. given[m] \cap locked = {}
    BY <1>2, <1>7, <1>9 DEF CacheInv, Owned
  <2>4. Owned'
    <3>1. ASSUME NEW n \in Module, NEW x \in (given'[n] \cup {modules'[n]}) \cap locked'
          PROVE  x = modules'[n] /\ HasPlaceholder(n) /\ (n \in failed' \/ Loading(n)')
      <4>1. n # m /\ x \in (given[n] \cup {modules[n]}) \cap locked
        BY <2>1, <2>2, <2>3, <3>1
      <4> QED BY <1>2, <1>4, <2>2, <4>1 DEF CacheInv, Owned
    <3>2. \A n, k \in Module : modules'[n] = modules'[k] /\ modules'[n] \in locked' => n = k
      BY <2>1, <2>2 DEF CacheInv, Owned
    <3> QED BY <2>1, <3>1, <3>2 DEF Owned
  <2>5. Same'
    <3>1. m \notin twice => given[m] = {}
      BY <1>7, <1>9
    <3> QED BY <1>4, <2>2, <3>1 DEF CacheInv, Same
  <2>6. Noted'
    BY <1>4, <2>1 DEF CacheInv, Noted
  <2>7. Cached'
    <3>1. ASSUME NEW n \in Module \ twice, Loading(n)'
          PROVE  /\ LoadedOnce(n)'
                 /\ IF HasPlaceholder(n)
                    THEN modules'[n] \in locked' /\ (given'[n] = {} \/ n \in provided')
                    ELSE modules'[n] = NoObject
      <4>1. n # m /\ Loading(n)
        BY <1>2, <1>7, <3>1
      <4> QED BY <1>2, <1>4, <2>1, <2>2, <3>1, <4>1 DEF CacheInv, Cached
    <3> QED BY <1>4, <3>1 DEF Cached
  <2> QED BY <2>4, <2>5, <2>6, <2>7 DEF CacheInv
<1> QED BY <1>8, <1>9

LEMMA RequireInductive == RequireInv /\ [RequireNext]_requireVars => RequireInv'
<1> SUFFICES ASSUME RequireInv, [RequireNext]_requireVars PROVE RequireInv'
  OBVIOUS
<1>1. RequireTypeOK /\ RequireTypeOK'
  BY RequireType DEF RequireInv
<1>2. SUFFICES ASSUME ~passedOn' PROVE CacheInv'
  BY <1>1 DEF RequireInv
<1>3. CASE UNCHANGED requireVars
  BY <1>3, <1>2 DEF requireVars, RequireInv, CacheInv, Owned, Held, Same, Noted, Cached, LoadedOnce,
                    HasPlaceholder, Loading
<1>4. CASE RequireNext
  <2>1. UNCHANGED shortCircuit
    BY <1>4 DEF RequireNext
  <2>2. ~passedOn
    BY <1>1, <1>2, <1>4 DEF RequireNext, RequireStep, RequireCached, GiveCached, BeginLoad, ClearCacheEntry,
       ClearCache, Forget, EndLoad, FailLoad, Populate, PopulateNil, Record, RequireTypeOK
  <2>3. CacheInv
    BY <2>2 DEF RequireInv
  <2>4. ASSUME NEW m \in Module, RequireCached(m) PROVE CacheInv'
    BY <1>1, <2>1, <2>3, <2>4, KeepCached
  <2>5. ASSUME NEW m \in Module, BeginLoad(m) PROVE CacheInv'
    BY <1>1, <2>1, <2>3, <2>5, KeepBegin
  <2>6. ASSUME NEW m \in Module, ClearCacheEntry(m) PROVE CacheInv'
    BY <1>1, <2>1, <2>3, <2>6, KeepForget DEF ClearCacheEntry
  <2>7. ASSUME NEW i \in 1 .. MaxLoads, EndLoad(i) PROVE CacheInv'
    BY <1>1, <1>2, <2>1, <2>3, <2>7, KeepEnd
  <2>8. ASSUME NEW i \in 1 .. MaxLoads, FailLoad(i) PROVE CacheInv'
    BY <1>1, <2>1, <2>3, <2>8, KeepFail
  <2>9. ASSUME ClearCache PROVE CacheInv'
    <3>1. \A m \in Module : ~Loading(m)
      BY <2>9 DEF ClearCache, Loading
    <3> QED BY <1>1, <2>1, <2>3, <2>9, <3>1, KeepForget DEF ClearCache
  <2> QED BY <1>4, <2>4, <2>5, <2>6, <2>7, <2>8, <2>9 DEF RequireNext, RequireStep
<1> QED BY <1>3, <1>4

LEMMA RequireInvariant == RequireSpec => []RequireInv
  BY RequireInitial, RequireInductive, PTL DEF RequireSpec

-----------------------------------------------------------------------------
(* Theorems                                                                 *)

\* Unless a module passed on a placeholder, whoever requires a module that is not loaded
\* twice gets the same object, in a cycle or not, and populatePlaceholder has a placeholder.
THEOREM OneObjectCorrect == RequireSpec => []OneObject
<1>1. RequireInv => OneObject
  BY DEF RequireInv, CacheInv, Same, Noted, OneObject
<1> QED BY <1>1, RequireInvariant, PTL

\* Unless a module passed on a placeholder, a table that is locked is the placeholder of a
\* module being loaded, or whose loading failed.
THEOREM LockedCorrect == RequireSpec => []LockedWhileLoading
<1>1. RequireInv => LockedWhileLoading
  BY DEF RequireInv, CacheInv, Owned, LockedWhileLoading
<1> QED BY <1>1, RequireInvariant, PTL

=============================================================================
