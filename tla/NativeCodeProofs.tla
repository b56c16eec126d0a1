--------------------------- MODULE NativeCodeProofs ---------------------------
(***************************************************************************)
(* Proofs about native code.  About SharedCode, for any finite set of VMs  *)
(* and of functions and any sets of addresses and ids: in every schedule   *)
(* the counts, the table and the duty to erase are exact, a module is      *)
(* destroyed once and only when nobody owns it, and a thread alone in its  *)
(* wait to erase one finds it.  About CodeAllocator, for any sizes of      *)
(* pages, blocks and sections: live code is executable and never written.  *)
(***************************************************************************)
EXTENDS SharedCode, CodeAllocator, FiniteSetTheorems, SequenceTheorems, TLAPS

-----------------------------------------------------------------------------
(* Shared code: the inductive invariant                                     *)

\* What a VM's registers say: it has a module from the moment it refers to it,
\* the functions it is about to bind have no native code, and the thread in
\* the middle of erasing holds the mutex and a module nobody owns.
LocalInv ==
    \A t \in VM :
        /\ mod[t] = Nil <=> at[t] \in {"idle", "compile"}
        /\ script[t] \subseteq Unbound(t)
        /\ at[t] \in {"bind", "drop"} => mod[t] \in exists
        /\ at[t] = "free" => /\ lock = t
                             /\ mod[t] \in exists
                             /\ refcount[mod[t]] = 0

IInv ==
    /\ SharedTypeOK
    /\ IsFiniteSet(exists)
    /\ RefcountExact
    /\ TableExact
    /\ NoLeak
    /\ LocalInv

\* A thread that waits to erase the module that another waits for, or destroys, is
\* contested; and one that is not finds its module.
Contested ==
    \A t, u \in VM :
        t # u /\ at[t] = "erase" /\ at[u] \in {"erase", "free"} /\ mod[t] = mod[u] => t \in contested
Alone == \A t \in VM \ contested : at[t] = "erase" => mod[t] \in exists

USE DEF shared, local, NewModule, Bind, ReadCount, Destroy

-----------------------------------------------------------------------------
(* Owners                                                                   *)

LEMMA HoldersFinite ==
    ASSUME NEW m
    PROVE  /\ IsFiniteSet(Holders(m))
           /\ Cardinality(Holders(m)) \in Nat
           /\ Cardinality(Holders(m)) = 0 <=> Holders(m) = {}
<1> DEFINE P == {p \in Proto : execdata[p] = m}
           T == {t \in VM : at[t] \in {"bind", "drop"} /\ mod[t] = m}
<1>1. IsFiniteSet(P)
  BY FS_Subset, ConstantsAssumption
<1>2. IsFiniteSet(T)
  BY FS_Subset, ConstantsAssumption
<1>3. IsFiniteSet(P \cup T)
  BY <1>1, <1>2, FS_Union
<1> QED
  BY <1>3, FS_CardinalityType, FS_EmptySet DEF Holders

\* A step that touches no owner and no count keeps the counts exact.
LEMMA OwnersUnchanged ==
    ASSUME RefcountExact, UNCHANGED <<exists, refcount>>,
           \A m \in Module : Holders(m)' = Holders(m)
    PROVE  RefcountExact'
  BY DEF RefcountExact

\* VM t gets a reference to an allocated module m.
LEMMA ReferCounts ==
    ASSUME SharedTypeOK, RefcountExact, LocalInv,
           NEW t \in VM, NEW m \in Module, m \in exists,
           at[t] \in {"idle", "compile"}, Refer(t, m),
           UNCHANGED <<exists, execdata>>
    PROVE  RefcountExact'
<1>1. Holders(m)' = Holders(m) \cup {t}
  BY DEF Holders, Refer, SharedTypeOK
<1>2. \A n \in Module : n # m => Holders(n)' = Holders(n)
  BY ConstantsAssumption DEF Holders, Refer, SharedTypeOK, LocalInv
<1>3. t \notin Holders(m)
  BY ConstantsAssumption DEF Holders, SharedTypeOK
<1>4. Cardinality(Holders(m) \cup {t}) = Cardinality(Holders(m)) + 1
  BY <1>3, HoldersFinite, FS_AddElement
<1>5. refcount'[m] = refcount[m] + 1 /\ \A n \in Module \ {m} : refcount'[n] = refcount[n]
  BY DEF Refer, SharedTypeOK
<1> QED
  BY <1>1, <1>2, <1>4, <1>5 DEF RefcountExact

\* A release of one reference to m, by owner x.
LEMMA ReleaseCounts ==
    ASSUME SharedTypeOK, RefcountExact,
           NEW t \in VM, NEW m \in Module, NEW x, x \in Holders(m),
           Release(t, m),
           Holders(m)' = Holders(m) \ {x},
           \A n \in Module \ {m} : Holders(n)' = Holders(n)
    PROVE  RefcountExact' /\ refcount' \in [Module -> Nat] /\ m \in exists
<1>1. m \in exists /\ refcount[m] = Cardinality(Holders(m))
  BY DEF RefcountExact
<1>2. Cardinality(Holders(m) \ {x}) = Cardinality(Holders(m)) - 1
  BY HoldersFinite, FS_RemoveElement
<1>3. IsFiniteSet(Holders(m) \ {x})
  BY HoldersFinite, FS_RemoveElement
<1>4. Cardinality(Holders(m) \ {x}) \in Nat
  BY <1>3, FS_CardinalityType
<1>5. refcount' = [refcount EXCEPT ![m] = @ - 1]
  BY DEF Release, ReleaseLeaving
<1>6. refcount'[m] = Cardinality(Holders(m) \ {x})
  BY <1>1, <1>2, <1>5 DEF SharedTypeOK
<1>7. refcount' \in [Module -> Nat]
  BY <1>4, <1>5, <1>6 DEF SharedTypeOK
<1>8. \A n \in Module \ {m} : refcount'[n] = refcount[n]
  BY <1>5 DEF SharedTypeOK
<1>9. exists' = exists
  BY DEF Release, ReleaseLeaving
<1>10. \A n \in Module : /\ n \in exists' => refcount'[n] = Cardinality(Holders(n)')
                         /\ n \notin exists' => Holders(n)' = {}
  <2> TAKE n \in Module
  <2>1. CASE n = m
    BY <2>1, <1>1, <1>6, <1>9
  <2>2. CASE n # m
    BY <2>2, <1>8, <1>9 DEF RefcountExact
  <2> QED
    BY <2>1, <2>2
<1> QED
  BY <1>1, <1>7, <1>10 DEF RefcountExact

-----------------------------------------------------------------------------
(* The initial states                                                       *)

LEMMA InitIInv == SharedInit => IInv
<1> SUFFICES ASSUME SharedInit PROVE IInv
  OBVIOUS
<1>1. SharedTypeOK
  BY ConstantsAssumption DEF SharedInit, SharedTypeOK
<1>2. IsFiniteSet(exists) /\ Cardinality({}) = 0
  BY FS_EmptySet DEF SharedInit
<1>3. RefcountExact
  BY ConstantsAssumption DEF SharedInit, RefcountExact, Holders
<1>4. TableExact
  <2>1. {m \in exists : moduleId[m] = NoId} = {} /\ exists = {}
    BY DEF SharedInit
  <2> QED
    BY <2>1, <1>2 DEF SharedInit, TableExact
<1>5. NoLeak
  BY DEF SharedInit, NoLeak, Unreferenced
<1>6. LocalInv
  BY DEF SharedInit, LocalInv
<1> QED
  BY <1>1, <1>2, <1>3, <1>4, <1>5, <1>6 DEF IInv

-----------------------------------------------------------------------------
(* Loading a script                                                         *)

\* The step leaves the table and its counts alone.
LEMMA TableUnchanged ==
    ASSUME TableExact, UNCHANGED shared
    PROVE  TableExact'
  BY DEF TableExact

LEMMA TryBindExistingStep ==
    ASSUME IInv, NEW t \in VM, NEW S \in SUBSET Proto, NEW id \in Id,
           TryBindExisting(t, S, id)
    PROVE  IInv'
<1> DEFINE m == identified[id]
<1> USE DEF IInv
<1>1. m \in Module /\ m \in exists
  BY DEF SharedTypeOK, TableExact, TryBindExisting
<1>2. /\ at[t] = "idle" /\ Refer(t, m) /\ lock = NoVM
      /\ UNCHANGED <<shared, lock, execdata, want, closing>>
      /\ S \subseteq Unbound(t) /\ script' = [script EXCEPT ![t] = S]
  BY DEF TryBindExisting, Compiles
<1> HIDE DEF m
<1>3. SharedTypeOK'
  BY <1>1, <1>2 DEF SharedTypeOK, Refer, Unbound
<1>4. RefcountExact'
  BY <1>1, <1>2, ReferCounts
<1>5. NoLeak'
  <2>1. refcount'[m] # 0 /\ \A n \in Module \ {m} : refcount'[n] = refcount[n]
    BY <1>1, <1>2 DEF SharedTypeOK, Refer
  <2>2. \A n \in Module \ {m} : Doomed(n) => Doomed(n)'
    BY <1>2 DEF Doomed, SharedTypeOK, Refer
  <2> QED
    BY <1>2, <2>1, <2>2 DEF NoLeak, Unreferenced
<1>6. LocalInv'
  BY <1>1, <1>2, ConstantsAssumption DEF LocalInv, SharedTypeOK, Refer, Unbound
<1> QED
  BY <1>2, <1>3, <1>4, <1>5, <1>6, TableUnchanged

\* A step of VM t that changes no owner, no count, no module and no erasure.
LEMMA QuietStep ==
    ASSUME IInv, NEW t \in VM,
           UNCHANGED <<shared, refcount, lock, execdata, mod>>,
           at[t] \in {"idle", "compile"},
           NEW l \in {"idle", "compile"}, at' = [at EXCEPT ![t] = l],
           NEW S \in SUBSET Unbound(t), script' = [script EXCEPT ![t] = S],
           SharedTypeOK'
    PROVE  IInv'
<1> USE DEF IInv
<1>1. \A m : Holders(m)' = Holders(m)
  BY DEF Holders, SharedTypeOK
<1>2. RefcountExact'
  BY <1>1, OwnersUnchanged
<1>3. NoLeak'
  BY DEF NoLeak, Unreferenced, Doomed, SharedTypeOK
<1>4. LocalInv'
  BY DEF LocalInv, SharedTypeOK, Unbound
<1> QED
  BY <1>2, <1>3, <1>4, TableUnchanged

LEMMA NotYetSharedStep ==
    ASSUME IInv, NEW t \in VM, NEW S \in SUBSET Proto, NEW id \in Id,
           NotYetShared(t, S, id)
    PROVE  IInv'
<1>1. SharedTypeOK'
  BY DEF IInv, SharedTypeOK, NotYetShared, Compiles
<1> QED
  BY <1>1, QuietStep DEF NotYetShared, Compiles

LEMMA AnonymousStep ==
    ASSUME IInv, NEW t \in VM, NEW S \in SUBSET Proto, Anonymous(t, S)
    PROVE  IInv'
<1>1. SharedTypeOK'
  BY DEF IInv, SharedTypeOK, Anonymous, Compiles
<1> QED
  BY <1>1, QuietStep DEF Anonymous, Compiles

LEMMA CompileFailsStep ==
    ASSUME IInv, NEW t \in VM, CompileFails(t)
    PROVE  IInv'
<1>1. SharedTypeOK'
  BY DEF IInv, SharedTypeOK, CompileFails
<1>2. {} \in SUBSET Unbound(t) /\ script' = [script EXCEPT ![t] = {}]
  BY DEF CompileFails
<1>3. /\ UNCHANGED <<shared, refcount, lock, execdata, mod>>
      /\ at[t] \in {"idle", "compile"} /\ at' = [at EXCEPT ![t] = "idle"]
  BY DEF CompileFails
<1> QED
  BY <1>1, <1>2, <1>3, QuietStep

LEMMA GetExistingStep ==
    ASSUME IInv, NEW t \in VM, GetExisting(t)
    PROVE  IInv'
<1> DEFINE m == identified[want[t]]
<1> USE DEF IInv
<1>1. m \in Module /\ m \in exists
  BY DEF SharedTypeOK, TableExact, GetExisting
<1>2. /\ at[t] = "compile" /\ Refer(t, m) /\ lock = NoVM
      /\ UNCHANGED <<shared, lock, execdata, script, closing>>
      /\ want' = [want EXCEPT ![t] = NoId]
  BY DEF GetExisting
<1> HIDE DEF m
<1>3. SharedTypeOK'
  BY <1>1, <1>2 DEF SharedTypeOK, Refer
<1>4. RefcountExact'
  BY <1>1, <1>2, ReferCounts
<1>5. NoLeak'
  <2>1. refcount'[m] # 0 /\ \A n \in Module \ {m} : refcount'[n] = refcount[n]
    BY <1>1, <1>2 DEF SharedTypeOK, Refer
  <2>2. \A n \in Module \ {m} : Doomed(n) => Doomed(n)'
    BY <1>2 DEF Doomed, SharedTypeOK, Refer
  <2> QED
    BY <1>2, <2>1, <2>2 DEF NoLeak, Unreferenced
<1>6. LocalInv'
  BY <1>1, <1>2, ConstantsAssumption DEF LocalInv, SharedTypeOK, Refer, Unbound
<1> QED
  BY <1>2, <1>3, <1>4, <1>5, <1>6, TableUnchanged

-----------------------------------------------------------------------------
(* A new module, and the functions bound to it                              *)

LEMMA InsertStep ==
    ASSUME IInv, NEW t \in VM, NEW m \in Module, Insert(t, m)
    PROVE  IInv'
<1> DEFINE Anon == {n \in exists : moduleId[n] = NoId}
<1> USE DEF IInv
<1>1. /\ at[t] = "compile" /\ lock = NoVM /\ m \notin exists
      /\ exists' = exists \cup {m} /\ execdata' = execdata
      /\ refcount' = [refcount EXCEPT ![m] = 1]
      /\ at' = [at EXCEPT ![t] = "bind"] /\ mod' = [mod EXCEPT ![t] = m]
      /\ want[t] # NoId => identified[want[t]] = Nil
  BY DEF Insert
<1>2. SharedTypeOK'
  BY DEF SharedTypeOK, Insert
<1>3. IsFiniteSet(exists') /\ Cardinality(exists') = Cardinality(exists) + 1
  BY <1>1, FS_AddElement
<1>4. RefcountExact'
  <2>1. Holders(m) = {}
    BY <1>1 DEF RefcountExact
  <2>2. Holders(m)' = {t}
    BY <1>1, <2>1, ConstantsAssumption DEF Holders, SharedTypeOK
  <2>3. \A n \in Module \ {m} : Holders(n)' = Holders(n)
    BY <1>1, ConstantsAssumption DEF Holders, SharedTypeOK, LocalInv
  <2>4. refcount'[m] = Cardinality({t})
    BY <1>1, FS_Singleton DEF SharedTypeOK
  <2>5. \A n \in Module \ {m} : refcount'[n] = refcount[n] /\ (n \in exists' <=> n \in exists)
    BY <1>1 DEF SharedTypeOK
  <2> QED
    BY <1>1, <2>2, <2>3, <2>4, <2>5 DEF RefcountExact
<1>5. TableExact'
  <2>1. IsFiniteSet(Anon) /\ anonymousCount = Cardinality(Anon)
    BY FS_Subset DEF TableExact
  <2>2. Anon' = IF want[t] = NoId THEN Anon \cup {m} ELSE Anon
    BY <1>1 DEF Insert, SharedTypeOK
  <2>3. Cardinality(Anon \cup {m}) = Cardinality(Anon) + 1
    BY <1>1, <2>1, FS_AddElement
  <2>4. anonymousCount' = Cardinality(Anon')
    BY <2>1, <2>2, <2>3 DEF Insert
  <2>5. allocations' = Cardinality(exists')
    BY <1>3 DEF Insert, TableExact
  <2>6. \A id \in Id : identified'[id] # Nil =>
           identified'[id] \in exists' /\ moduleId'[identified'[id]] = id
    <3> SUFFICES ASSUME NEW id \in Id, identified'[id] # Nil
                 PROVE  identified'[id] \in exists' /\ moduleId'[identified'[id]] = id
      OBVIOUS
    <3>1. /\ identified'[id] = IF id = want[t] THEN m ELSE identified[id]
          /\ moduleId' = [moduleId EXCEPT ![m] = want[t]]
      BY DEF Insert
    <3>2. CASE id = want[t]
      BY <1>1, <3>1, <3>2 DEF SharedTypeOK
    <3>3. CASE id # want[t]
      BY <1>1, <3>1, <3>3 DEF SharedTypeOK, TableExact
    <3> QED
      BY <3>2, <3>3
  <2>7. \A n \in exists' : moduleId'[n] # NoId => identified'[moduleId'[n]] = n
    <3> SUFFICES ASSUME NEW n \in exists', moduleId'[n] # NoId
                 PROVE  identified'[moduleId'[n]] = n
      OBVIOUS
    <3>1. /\ \A id \in Id : identified'[id] = IF id = want[t] THEN m ELSE identified[id]
          /\ moduleId' = [moduleId EXCEPT ![m] = want[t]]
      BY DEF Insert
    <3>2. CASE n = m
      BY <3>1, <3>2 DEF SharedTypeOK
    <3>3. CASE n # m
      <4>1. n \in exists /\ moduleId'[n] = moduleId[n]
        BY <1>1, <3>1, <3>3 DEF SharedTypeOK
      <4>2. moduleId[n] \in Id /\ identified[moduleId[n]] = n
        BY <4>1 DEF SharedTypeOK, TableExact
      <4>3. n # Nil
        BY <4>1, ConstantsAssumption DEF SharedTypeOK
      <4> QED
        BY <1>1, <3>1, <4>1, <4>2, <4>3
    <3> QED
      BY <3>2, <3>3
  <2> QED
    BY <2>4, <2>5, <2>6, <2>7 DEF TableExact
<1>6. NoLeak'
  <2>1. refcount'[m] # 0 /\ \A n \in Module \ {m} : refcount'[n] = refcount[n]
    BY <1>1 DEF SharedTypeOK
  <2>2. \A n \in Module \ {m} : Doomed(n) => Doomed(n)'
    BY <1>1 DEF Doomed, SharedTypeOK
  <2> QED
    BY <1>1, <2>1, <2>2 DEF NoLeak, Unreferenced
<1>7. LocalInv'
  BY <1>1, ConstantsAssumption DEF LocalInv, SharedTypeOK, Insert, Unbound
<1> QED
  BY <1>2, <1>3, <1>4, <1>5, <1>6, <1>7

LEMMA BindNativeProtosStep ==
    ASSUME IInv, NEW t \in VM, BindNativeProtos(t)
    PROVE  IInv'
<1> USE DEF IInv
<1>0. PICK m \in Module, S \in SUBSET Proto : m = mod[t] /\ S = script[t]
  BY DEF BindNativeProtos, LocalInv, SharedTypeOK
<1>1. /\ at[t] = "bind" /\ mod[t] = m /\ script[t] = S /\ m \in exists /\ m # Nil
      /\ \A p \in S : execdata[p] = Nil /\ owner[p] = t
  BY <1>0, ConstantsAssumption DEF BindNativeProtos, LocalInv, SharedTypeOK, Unbound
<1>2. /\ execdata' = [p \in Proto |-> IF p \in S THEN m ELSE execdata[p]]
      /\ refcount' = [refcount EXCEPT ![m] = @ + Cardinality(S)]
      /\ at' = [at EXCEPT ![t] = "drop"] /\ script' = [script EXCEPT ![t] = {}]
      /\ UNCHANGED <<shared, lock, mod, want, closing>>
  BY <1>1 DEF BindNativeProtos
<1>3. IsFiniteSet(S) /\ Cardinality(S) \in Nat
  BY <1>1, ConstantsAssumption, FS_Subset, FS_CardinalityType
<1>4. t \in Holders(m) /\ S \cap Holders(m) = {}
  BY <1>1, ConstantsAssumption DEF Holders
<1>5. refcount[m] = Cardinality(Holders(m)) /\ refcount[m] # 0 /\ refcount[m] \in Nat
  BY <1>1, <1>4, HoldersFinite DEF RefcountExact
<1>6. refcount'[m] = refcount[m] + Cardinality(S)
      /\ \A n \in Module \ {m} : refcount'[n] = refcount[n]
  BY <1>1, <1>2 DEF SharedTypeOK
<1>7. SharedTypeOK'
  <2>1. refcount' \in [Module -> Nat]
    BY <1>1, <1>2, <1>3, <1>5 DEF SharedTypeOK
  <2> QED
    BY <1>1, <1>2, <2>1 DEF SharedTypeOK
<1>8. RefcountExact'
  <2>1. Holders(m)' = Holders(m) \cup S
    BY <1>1, <1>2, <1>4, ConstantsAssumption DEF Holders, SharedTypeOK
  <2>2. \A n \in Module \ {m} : Holders(n)' = Holders(n)
    BY <1>1, <1>2, ConstantsAssumption DEF Holders, SharedTypeOK
  <2>3. Cardinality(Holders(m) \cup S)
          = Cardinality(Holders(m)) + Cardinality(S) - Cardinality(Holders(m) \cap S)
    BY <1>3, HoldersFinite, FS_Union
  <2>4. Cardinality(Holders(m) \cap S) = 0
    BY <1>4, FS_EmptySet
  <2>5. Cardinality(Holders(m) \cup S) = refcount'[m]
    BY <2>3, <2>4, <1>3, <1>5, <1>6
  <2> QED
    BY <1>1, <1>2, <1>6, <2>1, <2>2, <2>5 DEF RefcountExact
<1>9. NoLeak'
  <2>1. refcount'[m] # 0
    BY <1>3, <1>5, <1>6
  <2>2. \A n \in Module \ {m} : Doomed(n) => Doomed(n)'
    BY <1>1, <1>2 DEF Doomed, SharedTypeOK
  <2> QED
    BY <1>2, <1>6, <2>1, <2>2 DEF NoLeak, Unreferenced
<1>10. LocalInv'
  <2> SUFFICES ASSUME NEW u \in VM
               PROVE  /\ mod'[u] = Nil <=> at'[u] \in {"idle", "compile"}
                      /\ script'[u] \subseteq Unbound(u)'
                      /\ at'[u] \in {"bind", "drop"} => mod'[u] \in exists'
                      /\ at'[u] = "free" => /\ lock' = u
                                            /\ mod'[u] \in exists'
                                            /\ refcount'[mod'[u]] = 0
    BY DEF LocalInv
  <2>1. script'[u] \subseteq Unbound(u)'
    BY <1>1, <1>2 DEF LocalInv, SharedTypeOK, Unbound
  <2>2. at'[u] = "free" => /\ lock' = u
                           /\ mod'[u] \in exists'
                           /\ refcount'[mod'[u]] = 0
    BY <1>1, <1>2, <1>5, <1>6 DEF LocalInv, SharedTypeOK
  <2>3. /\ mod'[u] = Nil <=> at'[u] \in {"idle", "compile"}
        /\ at'[u] \in {"bind", "drop"} => mod'[u] \in exists'
    BY <1>1, <1>2 DEF LocalInv, SharedTypeOK
  <2> QED
    BY <2>1, <2>2, <2>3
<1> QED
  BY <1>2, <1>7, <1>8, <1>9, <1>10, TableUnchanged

-----------------------------------------------------------------------------
(* Releases                                                                 *)

\* A release from a state where VM t is not erasing.
LEMMA ReleaseKeeps ==
    ASSUME IInv, NEW t \in VM, NEW m \in Module, at[t] \in {"idle", "drop"},
           Release(t, m), RefcountExact',
           refcount' \in [Module -> Nat], m \in exists,
           execdata' \in [Proto -> Module \cup {Nil}],
           \A p \in Proto : execdata[p] = Nil => execdata'[p] = Nil,
           refcount[m] # 0
    PROVE  IInv'
<1> USE DEF IInv
<1>1. SharedTypeOK'
  BY DEF SharedTypeOK, Release, ReleaseLeaving
<1>2. /\ UNCHANGED <<shared, lock, want, script, closing>>
      /\ \A n \in Module \ {m} : refcount'[n] = refcount[n]
      /\ \A u \in VM \ {t} : at'[u] = at[u] /\ mod'[u] = mod[u]
  BY DEF Release, ReleaseLeaving, SharedTypeOK
<1>3. \/ refcount'[m] # 0 /\ at'[t] = "idle" /\ mod'[t] = Nil
      \/ at'[t] = "erase" /\ mod'[t] = m
  BY DEF Release, ReleaseLeaving, SharedTypeOK
<1>4. NoLeak'
  <2>1. \A n \in Module : Doomed(n) => Doomed(n)'
    BY <1>2 DEF Doomed
  <2>2. refcount'[m] = 0 => Doomed(m)'
    BY <1>3 DEF Doomed
  <2> QED
    BY <1>2, <2>1, <2>2 DEF NoLeak, Unreferenced
<1>5. LocalInv'
  <2>1. \A u \in VM : script'[u] \subseteq Unbound(u)'
    BY <1>2 DEF LocalInv, Unbound
  <2>2. \A u \in VM : mod'[u] = Nil <=> at'[u] \in {"idle", "compile"}
    BY <1>2, <1>3, ConstantsAssumption DEF LocalInv
  <2>3. \A u \in VM : at'[u] \in {"bind", "drop"} => mod'[u] \in exists'
    BY <1>2, <1>3 DEF LocalInv
  <2>4. \A u \in VM : at'[u] = "free" => /\ lock' = u
                                        /\ mod'[u] \in exists'
                                        /\ refcount'[mod'[u]] = 0
    BY <1>2, <1>3 DEF LocalInv, SharedTypeOK
  <2> QED
    BY <2>1, <2>2, <2>3, <2>4 DEF LocalInv
<1> QED
  BY <1>1, <1>2, <1>4, <1>5, TableUnchanged

LEMMA OwnedCount ==
    ASSUME RefcountExact, NEW m \in Module, Holders(m) # {}
    PROVE  m \in exists /\ refcount[m] # 0
  BY HoldersFinite DEF RefcountExact

LEMMA DropRefStep ==
    ASSUME IInv, NEW t \in VM, DropRef(t)
    PROVE  IInv'
<1> USE DEF IInv
<1>0. PICK m \in Module : m = mod[t]
  BY DEF DropRef, LocalInv, SharedTypeOK
<1>1. at[t] = "drop" /\ mod[t] = m /\ Release(t, m) /\ UNCHANGED execdata /\ t \in Holders(m)
  BY <1>0 DEF DropRef, SharedTypeOK, Holders
<1>2. at'[t] \notin {"bind", "drop"} /\ \A u \in VM \ {t} : at'[u] = at[u] /\ mod'[u] = mod[u]
  BY <1>1 DEF Release, ReleaseLeaving, SharedTypeOK
<1>3. Holders(m)' = Holders(m) \ {t}
  BY <1>1, <1>2, ConstantsAssumption DEF Holders
<1>4. \A n \in Module \ {m} : Holders(n)' = Holders(n)
  BY <1>1, <1>2 DEF Holders
<1>5. RefcountExact' /\ refcount' \in [Module -> Nat] /\ m \in exists
  BY <1>1, <1>3, <1>4, ReleaseCounts
<1>6. refcount[m] # 0
  BY <1>1, OwnedCount
<1>7. execdata' \in [Proto -> Module \cup {Nil}]
  BY <1>1 DEF SharedTypeOK
<1> QED
  BY <1>1, <1>5, <1>6, <1>7, ReleaseKeeps

LEMMA OnDestroyFunctionStep ==
    ASSUME IInv, NEW t \in VM, NEW p \in Proto, OnDestroyFunction(t, p)
    PROVE  IInv'
<1> USE DEF IInv
<1>0. PICK m \in Module : m = execdata[p]
  BY DEF OnDestroyFunction, SharedTypeOK
<1>1. /\ at[t] = "idle" /\ execdata[p] = m /\ Release(t, m)
      /\ execdata' = [execdata EXCEPT ![p] = Nil] /\ p \in Holders(m)
  BY <1>0 DEF OnDestroyFunction, SharedTypeOK, Holders
<1>2. at'[t] \notin {"bind", "drop"} /\ \A u \in VM \ {t} : at'[u] = at[u] /\ mod'[u] = mod[u]
  BY <1>1 DEF Release, ReleaseLeaving, SharedTypeOK
<1>3. Holders(m)' = Holders(m) \ {p}
  BY <1>1, <1>2, ConstantsAssumption DEF Holders, SharedTypeOK
<1>4. \A n \in Module \ {m} : Holders(n)' = Holders(n)
  BY <1>1, <1>2, ConstantsAssumption DEF Holders, SharedTypeOK
<1>5. RefcountExact' /\ refcount' \in [Module -> Nat] /\ m \in exists
  BY <1>1, <1>3, <1>4, ReleaseCounts
<1>6. refcount[m] # 0
  BY <1>1, OwnedCount
<1>7. /\ execdata' \in [Proto -> Module \cup {Nil}]
      /\ \A q \in Proto : execdata[q] = Nil => execdata'[q] = Nil
  BY <1>1 DEF SharedTypeOK
<1> QED
  BY <1>1, <1>5, <1>6, <1>7, ReleaseKeeps

-----------------------------------------------------------------------------
(* Erasing                                                                  *)

LEMMA EraseCheckStep ==
    ASSUME IInv, NEW t \in VM, EraseCheck(t)
    PROVE  IInv'
<1> DEFINE m == mod[t]
<1> USE DEF IInv
<1>1. /\ at[t] = "erase" /\ lock = NoVM /\ m \in exists /\ m \in Module
      /\ UNCHANGED <<shared, refcount, execdata, local>>
      /\ \A u \in VM \ {t} : at'[u] = at[u] /\ mod'[u] = mod[u]
  BY DEF EraseCheck, SharedTypeOK
<1>2. \/ refcount[m] # 0 /\ at'[t] = "idle" /\ mod'[t] = Nil /\ lock' = lock
      \/ refcount[m] = 0 /\ at'[t] = "free" /\ mod'[t] = m /\ lock' = t
  BY DEF EraseCheck, SharedTypeOK
<1>3. SharedTypeOK'
  BY DEF EraseCheck, SharedTypeOK
<1>4. \A n : Holders(n)' = Holders(n)
  BY <1>1, <1>2 DEF Holders
<1>5. RefcountExact'
  BY <1>1, <1>4, OwnersUnchanged
<1>6. NoLeak'
  BY <1>1, <1>2 DEF NoLeak, Unreferenced, Doomed
<1>7. LocalInv'
  BY <1>1, <1>2, ConstantsAssumption DEF LocalInv, Unbound
<1> QED
  BY <1>1, <1>3, <1>5, <1>6, <1>7, TableUnchanged

LEMMA EraseStep ==
    ASSUME IInv, NEW t \in VM, Erase(t)
    PROVE  IInv'
<1> DEFINE m == mod[t]
           Anon == {n \in exists : moduleId[n] = NoId}
<1> USE DEF IInv
<1>1. /\ at[t] = "free" /\ lock = t /\ m \in exists /\ m \in Module /\ refcount[m] = 0
      /\ exists' = exists \ {m} /\ lock' = NoVM
      /\ UNCHANGED <<refcount, execdata, local>>
      /\ at' = [at EXCEPT ![t] = "idle"] /\ mod' = [mod EXCEPT ![t] = Nil]
  BY DEF Erase, LocalInv, SharedTypeOK
<1>2. Holders(m) = {}
  BY <1>1, HoldersFinite DEF RefcountExact
<1>3. IsFiniteSet(exists') /\ Cardinality(exists') = Cardinality(exists) - 1
      /\ Cardinality(exists') \in Nat
  BY <1>1, FS_RemoveElement, FS_CardinalityType
<1>4. IsFiniteSet(Anon) /\ anonymousCount = Cardinality(Anon)
  BY FS_Subset DEF TableExact
<1>5. Anon' = Anon \ {m}
  BY <1>1 DEF Erase, SharedTypeOK
<1>6. anonymousCount' = Cardinality(Anon')
  <2>1. Cardinality(Anon \ {m}) = IF m \in Anon THEN Cardinality(Anon) - 1 ELSE Cardinality(Anon)
    BY <1>4, FS_RemoveElement
  <2>2. m \in Anon <=> moduleId[m] = NoId
    BY <1>1
  <2> QED
    BY <1>4, <1>5, <2>1, <2>2 DEF Erase
<1>7. anonymousCount' \in Nat
  BY <1>4, <1>5, <1>6, FS_RemoveElement, FS_CardinalityType
<1>8. allocations' = Cardinality(exists')
  BY <1>3 DEF Erase, TableExact
<1>9. SharedTypeOK'
  BY <1>1, <1>3, <1>7, <1>8 DEF Erase, SharedTypeOK
<1>10. \A n : Holders(n)' = Holders(n)
  BY <1>1 DEF Holders, SharedTypeOK
<1>11. RefcountExact'
  BY <1>1, <1>2, <1>10 DEF RefcountExact
<1>12. TableExact'
  <2>1. \A id \in Id : identified'[id] # Nil =>
           identified'[id] \in exists' /\ moduleId'[identified'[id]] = id
    BY <1>1 DEF Erase, TableExact, SharedTypeOK
  <2>2. \A n \in exists' : moduleId'[n] # NoId => identified'[moduleId'[n]] = n
    BY <1>1 DEF Erase, TableExact, SharedTypeOK
  <2> QED
    BY <1>6, <1>8, <2>1, <2>2 DEF TableExact
<1>13. NoLeak'
  BY <1>1 DEF NoLeak, Unreferenced, Doomed, SharedTypeOK
<1>14. LocalInv'
  <2>1. \A u \in VM \ {t} : at[u] # "free"
    BY <1>1 DEF LocalInv
  <2>2. \A u \in VM \ {t} : at[u] \in {"bind", "drop"} => mod[u] # m
    BY <1>2 DEF Holders
  <2> QED
    BY <1>1, <2>1, <2>2 DEF LocalInv, SharedTypeOK, Unbound
<1> QED
  BY <1>3, <1>9, <1>11, <1>12, <1>13, <1>14

LEMMA VMStep ==
    ASSUME IInv, NEW t \in VM, CloseVM(t) \/ CreateVM(t)
    PROVE  IInv'
<1> USE DEF IInv
<1>1. UNCHANGED <<shared, refcount, lock, execdata, at, mod, want, script>> /\ SharedTypeOK'
  BY DEF CloseVM, CreateVM, SharedTypeOK
<1>2. RefcountExact'
  BY <1>1 DEF RefcountExact, Holders
<1>3. NoLeak' /\ LocalInv'
  BY <1>1 DEF NoLeak, Unreferenced, Doomed, LocalInv, Unbound
<1> QED
  BY <1>1, <1>2, <1>3, TableUnchanged

-----------------------------------------------------------------------------
(* Theorems of the specification                                            *)

LEMMA NextIInv == IInv /\ [SharedNext]_sharedVars => IInv'
<1> SUFFICES ASSUME IInv, [SharedNext]_sharedVars PROVE IInv'
  OBVIOUS
<1>1. CASE UNCHANGED sharedVars
  <2>1. SharedTypeOK' /\ TableExact' /\ IsFiniteSet(exists')
    BY <1>1 DEF sharedVars, IInv, SharedTypeOK, TableExact
  <2>2. RefcountExact'
    BY <1>1 DEF sharedVars, IInv, RefcountExact, Holders
  <2>3. NoLeak'
    BY <1>1 DEF sharedVars, IInv, NoLeak, Unreferenced, Doomed
  <2>4. LocalInv'
    BY <1>1 DEF sharedVars, IInv, LocalInv, Unbound
  <2> QED
    BY <2>1, <2>2, <2>3, <2>4 DEF IInv
<1>2. ASSUME NEW t \in VM, ThreadStep(t)
      PROVE  IInv'
  BY <1>2, TryBindExistingStep, NotYetSharedStep, AnonymousStep, InsertStep,
     OnDestroyFunctionStep, CompileFailsStep, GetExistingStep, BindNativeProtosStep,
     DropRefStep, EraseCheckStep, EraseStep, VMStep DEF ThreadStep
<1> QED
  BY <1>1, <1>2 DEF SharedNext

LEMMA AlwaysIInv == SharedSpec => []IInv
  BY InitIInv, NextIInv, PTL DEF SharedSpec

\* The state of the allocator has its types in every schedule.
THEOREM SharedTypeCorrect == SharedSpec => []SharedTypeOK
<1>1. IInv => SharedTypeOK
  BY DEF IInv
<1> QED
  BY <1>1, AlwaysIInv, PTL

\* A reference count is the number of owners, in every schedule of any number of VMs.
THEOREM RefcountCorrect == SharedSpec => []RefcountExact
<1>1. IInv => RefcountExact
  BY DEF IInv
<1> QED
  BY <1>1, AlwaysIInv, PTL

\* The table and the counts that the destructors assert are those of the modules.
THEOREM TableCorrect == SharedSpec => []TableExact
<1>1. IInv => TableExact
  BY DEF IInv
<1> QED
  BY <1>1, AlwaysIInv, PTL

\* A module nobody owns has a thread on its way to erase it.
THEOREM NoLeakCorrect == SharedSpec => []NoLeak
<1>1. IInv => NoLeak
  BY DEF IInv
<1> QED
  BY <1>1, AlwaysIInv, PTL

\* What a step may do to the threads that erase: t goes on, or is to erase a module that
\* it owned, or begins to destroy its own, or destroys it.
Erases(t) ==
    /\ \A u \in VM \ {t} : at'[u] = at[u] /\ mod'[u] = mod[u]
    /\ \/ at'[t] \notin {"erase", "free"} /\ exists \subseteq exists'
       \/ at[t] = "erase" /\ at'[t] = "free" /\ mod'[t] = mod[t] /\ exists' = exists
       \/ /\ at[t] # "erase" /\ at'[t] = "erase" /\ exists' = exists
          /\ mod'[t] \in exists /\ Holders(mod'[t]) # {}
       \/ at[t] = "free" /\ at'[t] = "idle" /\ exists' = exists \ {mod[t]}

LEMMA StepErases ==
  ASSUME IInv, NEW t \in VM, ThreadStep(t)
  PROVE  Erases(t) \/ UNCHANGED <<exists, at, mod>>
<1> USE DEF IInv
<1>1. ASSUME NEW m \in Module, Release(t, m), at[t] \in {"idle", "drop"}, Holders(m) # {}
      PROVE  Erases(t)
  <2>1. m \in exists /\ refcount[m] # 0
    BY <1>1, OwnedCount
  <2> QED
    BY <1>1, <2>1 DEF Erases, Release, ReleaseLeaving, SharedTypeOK
<1>2. CASE \E S \in SUBSET Proto, id \in Id : TryBindExisting(t, S, id) \/ NotYetShared(t, S, id)
  BY <1>2 DEF Erases, TryBindExisting, NotYetShared, Compiles, Refer, SharedTypeOK
<1>3. CASE \E S \in SUBSET Proto : Anonymous(t, S)
  BY <1>3 DEF Erases, Anonymous, Compiles, SharedTypeOK
<1>4. CASE \E m \in Module : Insert(t, m)
  BY <1>4 DEF Erases, Insert, SharedTypeOK
<1>5. CASE CompileFails(t) \/ GetExisting(t)
  BY <1>5 DEF Erases, CompileFails, GetExisting, Refer, SharedTypeOK
<1>6. CASE BindNativeProtos(t)
  BY <1>6 DEF Erases, BindNativeProtos, SharedTypeOK
<1>7. CASE DropRef(t)
  <2>1. mod[t] \in Module /\ at[t] = "drop" /\ Release(t, mod[t]) /\ t \in Holders(mod[t])
    BY <1>7 DEF DropRef, LocalInv, SharedTypeOK, Holders
  <2> QED
    BY <2>1, <1>1
<1>8. CASE \E p \in Proto : OnDestroyFunction(t, p)
  <2>1. PICK p \in Proto : OnDestroyFunction(t, p)
    BY <1>8
  <2>2. /\ execdata[p] \in Module /\ at[t] = "idle" /\ Release(t, execdata[p])
        /\ p \in Holders(execdata[p])
    BY <2>1 DEF OnDestroyFunction, SharedTypeOK, Holders
  <2> QED
    BY <2>2, <1>1
<1>9. CASE EraseCheck(t)
  BY <1>9 DEF Erases, EraseCheck, SharedTypeOK
<1>10. CASE Erase(t)
  BY <1>10 DEF Erases, Erase, SharedTypeOK
<1>11. CASE CloseVM(t) \/ CreateVM(t)
  BY <1>11 DEF CloseVM, CreateVM
<1> QED
  BY <1>2, <1>3, <1>4, <1>5, <1>6, <1>7, <1>8, <1>9, <1>10, <1>11, ThreadStep(t) DEF ThreadStep

\* What is about to be destroyed has no owner.
LEMMA FreeUnowned ==
  ASSUME IInv, NEW t \in VM, at[t] = "free"
  PROVE  mod[t] \in exists /\ Holders(mod[t]) = {}
<1>1. mod[t] \in exists /\ mod[t] \in Module /\ refcount[mod[t]] = 0
  BY DEF IInv, LocalInv, SharedTypeOK
<1>2. refcount[mod[t]] = Cardinality(Holders(mod[t]))
  BY <1>1 DEF IInv, RefcountExact
<1> QED
  BY <1>1, <1>2, HoldersFinite

LEMMA NextErasers == IInv /\ Contested /\ Alone /\ [SharedNext]_sharedVars => Contested' /\ Alone'
<1> SUFFICES ASSUME IInv, Contested, Alone, [SharedNext]_sharedVars
             PROVE  Contested' /\ Alone'
  OBVIOUS
<1>1. CASE UNCHANGED sharedVars
  BY <1>1 DEF sharedVars, Contested, Alone
<1>2. CASE SharedNext
  <2>1. PICK t \in VM : ThreadStep(t)
    BY <1>2 DEF SharedNext
  <2>2. /\ \A u \in VM : u \in contested /\ at'[u] = "erase" => u \in contested'
        /\ \A u, v \in VM : u # v /\ at'[u] = "erase" /\ at'[v] = "erase" /\ mod'[u] = mod'[v]
              => u \in contested'
    BY <1>2 DEF SharedNext, Contest
  <2>3. \A u \in VM : at[u] = "free" => Holders(mod[u]) = {}
    BY FreeUnowned
  <2>4. CASE UNCHANGED <<exists, at, mod>>
    BY <2>2, <2>4 DEF Contested, Alone
  <2>5. CASE Erases(t)
    <3>1. ASSUME NEW u \in VM, NEW v \in VM, u # v, at'[u] = "erase", at'[v] \in {"erase", "free"}, mod'[u] = mod'[v]
          PROVE  u \in contested'
      <4>1. CASE at'[v] = "erase"
        BY <2>2, <3>1, <4>1
      <4>2. CASE at'[v] = "free" /\ at[u] = "erase" /\ mod[u] = mod'[u]
        BY <2>2, <2>5, <3>1, <4>2 DEF Erases, Contested
      <4>3. CASE at'[v] = "free" /\ u = t /\ at[u] # "erase"
        BY <2>3, <2>5, <3>1, <4>3 DEF Erases
      <4> QED
        BY <2>5, <3>1, <4>1, <4>2, <4>3 DEF Erases
    <3>2. ASSUME NEW u \in VM, u \notin contested', at'[u] = "erase"
          PROVE  mod'[u] \in exists'
      <4>1. u \notin contested
        BY <2>2, <3>2
      <4>2. CASE u = t
        BY <2>5, <3>2, <4>2 DEF Erases
      <4>3. CASE u # t
        <5>1. mod'[u] = mod[u] /\ at[u] = "erase" /\ mod[u] \in exists
          BY <2>5, <3>2, <4>1, <4>3 DEF Erases, Alone
        <5>2. at[t] = "free" => mod[u] # mod[t]
          BY <4>1, <4>3, <5>1 DEF Contested
        <5> QED
          BY <2>5, <5>1, <5>2 DEF Erases
      <4> QED
        BY <4>2, <4>3
    <3> QED
      BY <3>1, <3>2 DEF Contested, Alone
  <2> QED
    BY <2>1, <2>4, <2>5, StepErases
<1> QED
  BY <1>1, <1>2

\* In every schedule a module is destroyed once and never while somebody owns it, and a
\* thread alone in its wait for the mutex finds the module it is to erase.
THEOREM DestroysCorrect == SharedSpec => []DestroysUnowned
<1>1. SharedInit => Contested /\ Alone
  BY DEF SharedInit, Contested, Alone
<1>2. IInv /\ Alone => DestroysUnowned
  BY FreeUnowned DEF DestroysUnowned, Alone
<1> QED
  BY <1>1, <1>2, InitIInv, NextIInv, NextErasers, PTL DEF SharedSpec

-----------------------------------------------------------------------------
(* The code allocator: the inductive invariant                              *)

IsAligned(n) == \E k \in Nat : n = k * PageUnits
Protection == [0 .. LastPage -> {"rw", "r", "rx"}]

CodeTypeOK ==
    /\ protectData \in BOOLEAN /\ unwindSize \in 0 .. Reserved /\ blockPos \in 0 .. BlockUnits
    /\ prot \in Seq(Protection) /\ header \subseteq 1 .. Len(prot)
    /\ protectFailed \in {"never", "all", "half"}

\* A section starts on a page of its own and lies in its block.
Fits(s) ==
    /\ IsAligned(s.pos) /\ IsAligned(s.size)
    /\ s.data \in Nat /\ s.code \in Nat /\ s.end \in Nat
    /\ s.pos <= s.data /\ s.data <= s.code /\ s.code < s.end
    /\ s.end <= BlockUnits /\ s.end <= s.pos + s.size

\* Section s ends before offset pos.
Before(s, pos) == s.pos + s.size <= pos

\* The pages of a live section are protected.
Protected(s) ==
    /\ \A p \in CodePages(s) : prot[s.block][p] \in {"r", "rx"}
    /\ \A p \in PagesOf(s.code, s.end) : prot[s.block][p] = "rx"
    /\ protectData => \A p \in PagesOf(s.data, s.code) : prot[s.block][p] = "r"

Apart == \A s, t \in sections :
    s # t /\ s.block = t.block => Before(s, t.pos) \/ Before(t, s.pos)

\* What is left of the last block.
Ahead == blockPos < BlockUnits =>
    /\ prot # <<>> /\ IsAligned(blockPos)
    /\ \A s \in sections : s.block = Len(prot) => Before(s, blockPos)
    /\ protectFailed # "half" => \A p \in PagesOf(blockPos, BlockUnits) : prot[Len(prot)][p] = "rw"

\* The next section is not placed over unwind information.
HeaderAhead == protectFailed = "never" => HeaderKept /\ (blockPos = 0 => Len(prot) \notin header)

CodeInv ==
    /\ CodeTypeOK
    /\ \A s \in sections : s.block \in 1 .. Len(prot) /\ Fits(s) /\ Protected(s)
    /\ Apart /\ Ahead /\ HeaderAhead

-----------------------------------------------------------------------------
(* Pages                                                                    *)

LEMMA Sizes ==
    /\ PageUnits \in Nat \ {0} /\ BlockUnits \in Nat \ {0}
    /\ \A u \in 0 .. Reserved : u \in Nat /\ u <= Reserved
    /\ Reserved \in Nat /\ Reserved < BlockUnits
    /\ \A data \in DataSizes : data \in Nat
    /\ \A code \in CodeSizes : code \in Nat \ {0}
BY CodeAssumption

LEMMA Multiples ==
  ASSUME NEW k \in Int, NEW l \in Int
  PROVE  /\ k * PageUnits \in Int /\ (k + 1) * PageUnits = k * PageUnits + PageUnits
         /\ (k + l) * PageUnits = k * PageUnits + l * PageUnits
         /\ k <= l => k * PageUnits <= l * PageUnits
         /\ k < l => k * PageUnits + PageUnits <= l * PageUnits
         /\ k * PageUnits < l * PageUnits => k < l
BY Sizes

\* alignToPageSize yields the next multiple of the page size.
LEMMA PageAlignedIs ==
  ASSUME NEW n \in Nat
  PROVE  /\ PageAligned(n) \in Nat /\ IsAligned(PageAligned(n))
         /\ n <= PageAligned(n) /\ PageAligned(n) < n + PageUnits
<1> DEFINE d == (n + PageUnits - 1) \div PageUnits
<1>1. n + PageUnits - 1 \in Nat
  BY Sizes
<1>2. /\ d \in Nat /\ d * PageUnits <= n + PageUnits - 1
      /\ n + PageUnits - 1 < d * PageUnits + PageUnits
  BY <1>1, Sizes
<1>3. PageAligned(n) = d * PageUnits
  BY DEF PageAligned
<1> HIDE DEF d
<1>4. d * PageUnits \in Nat
  BY <1>2, Sizes
<1> QED BY <1>2, <1>3, <1>4, Sizes DEF IsAligned

LEMMA PageAlignedMono ==
  ASSUME NEW m \in Nat, NEW n \in Nat, m <= n
  PROVE  PageAligned(m) <= PageAligned(n)
<1>1. PICK k \in Nat : PageAligned(m) = k * PageUnits
  BY PageAlignedIs DEF IsAligned
<1>2. PICK l \in Nat : PageAligned(n) = l * PageUnits
  BY PageAlignedIs DEF IsAligned
<1>3. CASE k <= l
  BY <1>1, <1>2, <1>3, Multiples
<1>4. CASE k > l
  <2>1. l * PageUnits + PageUnits <= k * PageUnits
    BY <1>4, Multiples
  <2>2. /\ PageAligned(m) < m + PageUnits /\ n <= PageAligned(n)
        /\ PageAligned(m) \in Nat /\ PageAligned(n) \in Nat
    BY PageAlignedIs
  <2> QED BY <1>1, <1>2, <2>1, <2>2, Sizes
<1> QED BY <1>3, <1>4

LEMMA AlignedSum ==
  ASSUME NEW m, NEW n, IsAligned(m), IsAligned(n)
  PROVE  IsAligned(m + n) /\ m \in Nat /\ n \in Nat
<1>1. PICK k \in Nat : m = k * PageUnits
  BY DEF IsAligned
<1>2. PICK l \in Nat : n = l * PageUnits
  BY DEF IsAligned
<1>3. m + n = (k + l) * PageUnits /\ k + l \in Nat /\ m \in Nat /\ n \in Nat
  BY <1>1, <1>2, Multiples, Sizes
<1> QED BY <1>3 DEF IsAligned

\* What starts on a page boundary shares no page with what ends before it.
LEMMA PagesApart ==
  ASSUME NEW m \in Nat, NEW n \in Nat, NEW from, NEW to \in Nat, IsAligned(from), n <= from
  PROVE  PagesOf(m, n) \cap PagesOf(from, to) = {}
<1> SUFFICES ASSUME NEW p \in PagesOf(m, n), p \in PagesOf(from, to)
             PROVE  FALSE
  OBVIOUS
<1>1. PICK k \in Nat : from = k * PageUnits
  BY DEF IsAligned
<1>2. p \in Int /\ p * PageUnits < n /\ from < (p + 1) * PageUnits
  BY DEF PagesOf
<1>3. p * PageUnits < k * PageUnits /\ k * PageUnits < (p + 1) * PageUnits
  <2>1. p * PageUnits \in Int /\ k * PageUnits \in Int
    BY <1>2, Multiples
  <2> QED BY <1>1, <1>2, <2>1
<1>4. p < k /\ k < p + 1
  BY <1>2, <1>3, Multiples
<1> QED BY <1>2, <1>4

LEMMA PagesWithin ==
  ASSUME NEW m \in Nat, NEW n \in Nat, NEW from \in Nat, NEW to \in Nat, from <= m, n <= to
  PROVE  PagesOf(m, n) \subseteq PagesOf(from, to)
<1> SUFFICES ASSUME NEW p \in PagesOf(m, n)
             PROVE  p \in PagesOf(from, to)
  OBVIOUS
<1>1. /\ p \in 0 .. LastPage /\ p \in Int /\ m < n /\ m < (p + 1) * PageUnits /\ p * PageUnits < n
  BY DEF PagesOf
<1>2. p * PageUnits \in Int /\ (p + 1) * PageUnits \in Int
  BY <1>1, Multiples
<1>3. from < to /\ from < (p + 1) * PageUnits /\ p * PageUnits < to
  BY <1>1, <1>2
<1> QED BY <1>1, <1>3 DEF PagesOf

LEMMA PagesIn == \A m, n : PagesOf(m, n) \subseteq 0 .. LastPage
BY DEF PagesOf

LEMMA ProtectIs ==
  ASSUME NEW pp \in Seq(Protection), NEW b \in 1 .. Len(pp), NEW pages, NEW to \in {"rw", "r", "rx"}
  PROVE  /\ Protect(pp, b, pages, to) \in Seq(Protection)
         /\ Len(Protect(pp, b, pages, to)) = Len(pp)
         /\ \A o \in 1 .. Len(pp) : o # b => Protect(pp, b, pages, to)[o] = pp[o]
         /\ \A p \in 0 .. LastPage :
               Protect(pp, b, pages, to)[b][p] = IF p \in pages THEN to ELSE pp[b][p]
<1> DEFINE f == [p \in 0 .. LastPage |-> IF p \in pages THEN to ELSE pp[b][p]]
<1>1. pp[b] \in Protection
  BY ElementOfSeq
<1>2. f \in Protection
  BY <1>1 DEF Protection
<1>3. Protect(pp, b, pages, to) = [pp EXCEPT ![b] = f]
  BY DEF Protect
<1> HIDE DEF f
<1>4. /\ [pp EXCEPT ![b] = f] \in Seq(Protection) /\ Len([pp EXCEPT ![b] = f]) = Len(pp)
      /\ [pp EXCEPT ![b] = f][b] = f
      /\ \A o \in 1 .. Len(pp) : o # b => [pp EXCEPT ![b] = f][o] = pp[o]
  BY <1>2, ExceptSeq, LenProperties
<1> QED BY <1>3, <1>4 DEF f

-----------------------------------------------------------------------------
(* Sections                                                                 *)

\* A section that is placed on a page boundary lies in its pages, behind what is reserved,
\* its code on pages of its own when the data is to be protected.
LEMMA PlacedIs ==
  ASSUME NEW b, NEW pos \in Nat, NEW start \in Nat, NEW data \in Nat, NEW code \in Nat \ {0},
         NEW s, s = Placed(b, pos, start, data, code), IsAligned(pos)
  PROVE  /\ s.block = b /\ s.pos = pos /\ IsAligned(s.pos) /\ IsAligned(s.size)
         /\ s.size \in Nat \ {0} /\ s.data \in Nat /\ s.code \in Nat /\ s.end \in Nat
         /\ s.pos + start <= s.data /\ s.data <= s.code /\ s.code < s.end
         /\ s.end <= s.pos + s.size
         /\ s.data = s.code - data
         /\ Separate(data) => IsAligned(s.code) /\ s.end = pos + PageAligned(start + data) + code
         /\ ~Separate(data) => s.end = pos + start + data + code
<1> DEFINE o == IF Separate(data) THEN PageAligned(start + data) ELSE start + data
<1>1. start + data \in Nat
  OBVIOUS
<1>2. o \in Nat /\ start + data <= o
  BY <1>1, PageAlignedIs
<1>3. Separate(data) => IsAligned(pos + o)
  BY <1>1, PageAlignedIs, AlignedSum
<1>4. s = [block |-> b, pos |-> pos, size |-> PageAligned(o + code),
           data |-> pos + o - data, code |-> pos + o, end |-> pos + o + code]
  BY DEF Placed
<1>5. o = IF Separate(data) THEN PageAligned(start + data) ELSE start + data
  OBVIOUS
<1> HIDE DEF o
<1>6. o + code \in Nat \ {0}
  BY <1>2
<1>7. IsAligned(PageAligned(o + code)) /\ PageAligned(o + code) \in Nat \ {0}
      /\ o + code <= PageAligned(o + code)
  BY <1>6, PageAlignedIs
<1> QED BY <1>2, <1>3, <1>4, <1>5, <1>7

\* The sections that can be allocated fit into the last block, or a new one.
LEMMA SectionIs ==
  ASSUME CodeInv, NEW data \in DataSizes, NEW code \in CodeSizes, HasBlockFor(data, code),
         NEW s, s = Section(data, code), NEW pp, pp = BlocksFor(data, code)
  PROVE  /\ pp \in Seq(Protection) /\ Len(pp) \in Nat /\ Len(prot) \in Nat /\ s.block = Len(pp)
         /\ s.block \in 1 .. Len(pp) /\ Len(prot) <= Len(pp)
         /\ \A b \in 1 .. Len(prot) : pp[b] = prot[b]
         /\ Fits(s) /\ s.size \in Nat \ {0} /\ s.pos \in Nat /\ s.pos < BlockUnits
         /\ Separate(data) => IsAligned(s.code)
         /\ protectData /\ ~Separate(data) => s.data = s.code
         /\ \A t \in sections : t.block = s.block => Before(t, s.pos)
         /\ protectFailed # "half" => \A p \in PagesOf(s.pos, BlockUnits) : pp[s.block][p] = "rw"
         /\ protectFailed = "never" /\ s.pos = 0 /\ s.block \in NewHeader(data, code) => s.data >= unwindSize
         /\ NewHeader(data, code) \subseteq 1 .. Len(pp)
         /\ \A b \in NewHeader(data, code) \ header : b \notin 1 .. Len(prot)
<1>1. /\ data \in Nat /\ code \in Nat \ {0} /\ BlockUnits \in Nat \ {0} /\ unwindSize \in Nat
      /\ Reserved \in Nat /\ Reserved < BlockUnits /\ unwindSize <= Reserved /\ blockPos \in 0 .. BlockUnits
      /\ prot \in Seq(Protection) /\ header \subseteq 1 .. Len(prot)
  BY Sizes DEF CodeInv, CodeTypeOK
<1>2. Len(prot) \in Nat
  BY <1>1, LenProperties
<1>3. Separate(data) => data # 0 /\ protectData
  BY DEF Separate
<1>4. protectData /\ ~Separate(data) => data = 0
  BY <1>1 DEF Separate
<1>5. CASE NeedsBlock(data, code)
  <2>1. s = Placed(Len(prot) + 1, 0, unwindSize, data, code) /\ pp = NewBlockProt
    BY <1>5 DEF Section, BlocksFor
  <2>2. IsAligned(0)
    BY Sizes DEF IsAligned
  <2>3. /\ s.block = Len(prot) + 1 /\ s.pos = 0 /\ IsAligned(s.pos) /\ IsAligned(s.size)
        /\ s.size \in Nat \ {0} /\ s.data \in Nat /\ s.code \in Nat /\ s.end \in Nat
        /\ 0 + unwindSize <= s.data /\ s.data <= s.code /\ s.code < s.end
        /\ s.end <= s.pos + s.size
        /\ s.data = s.code - data
        /\ Separate(data) => IsAligned(s.code) /\ s.end = 0 + PageAligned(unwindSize + data) + code
        /\ ~Separate(data) => s.end = 0 + unwindSize + data + code
    BY <1>1, <2>1, <2>2, PlacedIs
  <2>4. s.end <= BlockUnits
    <3>1. CASE Separate(data)
      <4>1. PageAligned(Reserved + data) + code <= BlockUnits
        BY <3>1 DEF HasBlockFor, FitsBlock
      <4>2. unwindSize + data \in Nat /\ Reserved + data \in Nat /\ unwindSize + data <= Reserved + data
        BY <1>1
      <4>3. /\ PageAligned(unwindSize + data) <= PageAligned(Reserved + data)
            /\ PageAligned(unwindSize + data) \in Nat /\ PageAligned(Reserved + data) \in Nat
        BY <4>2, PageAlignedMono, PageAlignedIs
      <4> QED BY <1>1, <2>3, <3>1, <4>1, <4>3
    <3>2. CASE ~Separate(data)
      <4>1. data + code <= BlockUnits - Reserved
        BY <3>2 DEF HasBlockFor, FitsBlock
      <4> QED BY <1>1, <2>3, <3>2, <4>1
    <3> QED BY <3>1, <3>2
  <2> DEFINE free == [p \in 0 .. LastPage |-> "rw"]
  <2>5. free \in Protection
    BY DEF Protection
  <2>6. pp = Append(prot, free)
    BY <2>1 DEF NewBlockProt
  <2>7. \A p \in 0 .. LastPage : free[p] = "rw"
    OBVIOUS
  <2> HIDE DEF free
  <2>8. /\ pp \in Seq(Protection) /\ Len(pp) = Len(prot) + 1 /\ pp[Len(prot) + 1] = free
        /\ \A b \in 1 .. Len(prot) : pp[b] = prot[b]
    BY <1>1, <1>2, <2>5, <2>6, AppendProperties
  <2>9. \A p \in PagesOf(s.pos, BlockUnits) : pp[s.block][p] = "rw"
    BY <2>3, <2>7, <2>8, PagesIn
  <2>10. \A t \in sections : t.block # s.block
    BY <1>2, <2>3 DEF CodeInv
  <2>11. NewHeader(data, code) \subseteq header \cup {Len(prot) + 1}
    BY DEF NewHeader
  <2>12. /\ NewHeader(data, code) \subseteq 1 .. Len(pp)
         /\ \A b \in NewHeader(data, code) \ header : b \notin 1 .. Len(prot)
    <3>1. /\ Len(prot) + 1 \in 1 .. Len(pp) /\ Len(prot) + 1 \notin 1 .. Len(prot)
          /\ 1 .. Len(prot) \subseteq 1 .. Len(pp)
      BY <1>2, <2>8
    <3>2. header \subseteq 1 .. Len(prot)
      BY <1>1
    <3> QED BY <2>11, <3>1, <3>2
  <2>13. protectData /\ ~Separate(data) => s.data = s.code
    BY <1>4, <2>3
  <2>14. Fits(s)
    BY <2>3, <2>4, <1>1 DEF Fits
  <2>15. s.data >= unwindSize
    BY <1>1, <2>3
  <2>16. s.block \in 1 .. Len(pp) /\ s.block = Len(pp) /\ Len(prot) <= Len(pp) /\ Len(pp) \in Nat
    BY <1>2, <2>3, <2>8
  <2> QED BY <1>1, <1>2, <2>3, <2>8, <2>9, <2>10, <2>12, <2>13, <2>14, <2>15, <2>16
<1>6. CASE ~NeedsBlock(data, code)
  <2>1. /\ s = Placed(Len(prot), blockPos, 0, data, code) /\ pp = prot
        /\ NewHeader(data, code) = header
    BY <1>6 DEF Section, BlocksFor, NewHeader
  <2>2. blockPos + TotalSize(data, code) <= BlockUnits /\ TotalSize(data, code) \in Nat \ {0}
    <3>1. PageAligned(data) \in Nat
      BY <1>1, PageAlignedIs
    <3>2. TotalSize(data, code) \in Nat \ {0}
      BY <1>1, <3>1 DEF TotalSize
    <3> QED BY <1>1, <1>6, <3>2 DEF NeedsBlock
  <2>3. blockPos < BlockUnits
    BY <1>1, <2>2
  <2>4. /\ prot # <<>> /\ IsAligned(blockPos)
        /\ \A t \in sections : t.block = Len(prot) => Before(t, blockPos)
        /\ protectFailed # "half" => \A p \in PagesOf(blockPos, BlockUnits) : prot[Len(prot)][p] = "rw"
    BY <2>3 DEF CodeInv, Ahead
  <2>5. /\ s.block = Len(prot) /\ s.pos = blockPos /\ IsAligned(s.pos) /\ IsAligned(s.size)
        /\ s.size \in Nat \ {0} /\ s.data \in Nat /\ s.code \in Nat /\ s.end \in Nat
        /\ s.pos + 0 <= s.data /\ s.data <= s.code /\ s.code < s.end
        /\ s.end <= s.pos + s.size
        /\ s.data = s.code - data
        /\ Separate(data) => IsAligned(s.code) /\ s.end = blockPos + PageAligned(0 + data) + code
        /\ ~Separate(data) => s.end = blockPos + 0 + data + code
    BY <1>1, <2>1, <2>4, PlacedIs
  <2>6. s.end <= BlockUnits
    <3>1. 0 + data = data
      BY <1>1
    <3>2. PageAligned(data) \in Nat
      BY <1>1, PageAlignedIs
    <3> QED BY <1>1, <2>2, <2>5, <3>1, <3>2 DEF TotalSize
  <2>7. Len(prot) # 0
    BY <1>1, <2>4, EmptySeq
  <2>8. protectData /\ ~Separate(data) => s.data = s.code
    BY <1>4, <2>5
  <2>9. Fits(s)
    BY <1>1, <2>5, <2>6 DEF Fits
  <2>10. protectFailed = "never" => ~(s.pos = 0 /\ s.block \in header)
    BY <2>5 DEF CodeInv, HeaderAhead
  <2>11. Len(prot) \in 1 .. Len(prot)
    BY <1>2, <2>7
  <2> QED BY <1>1, <1>2, <2>1, <2>3, <2>4, <2>5, <2>8, <2>9, <2>10, <2>11
<1> QED BY <1>5, <1>6

-----------------------------------------------------------------------------
(* The code allocator: every step                                           *)

LEMMA SectionPages ==
  ASSUME NEW s, Fits(s)
  PROVE  /\ s.pos \in Nat /\ s.size \in Nat /\ s.pos + s.size \in Nat
         /\ PagesOf(s.code, s.end) \subseteq CodePages(s) /\ PagesOf(s.data, s.code) \subseteq CodePages(s)
         /\ DataPages(s) \subseteq CodePages(s) /\ PagesOf(s.data, s.code) \subseteq DataPages(s)
         /\ CodePages(s) \subseteq 0 .. LastPage
         /\ IsAligned(s.code) => PagesOf(s.code, s.end) \cap DataPages(s) = {}
<1>1. /\ s.pos \in Nat /\ s.size \in Nat /\ s.pos + s.size \in Nat
      /\ s.data \in Nat /\ s.code \in Nat /\ s.end \in Nat
      /\ s.pos <= s.data /\ s.data <= s.code /\ s.code < s.end /\ s.end <= s.pos + s.size
  <2>1. IsAligned(s.pos) /\ IsAligned(s.size)
    BY DEF Fits
  <2>2. s.pos \in Nat /\ s.size \in Nat
    BY <2>1, AlignedSum
  <2> QED BY <2>2 DEF Fits
<1>2. /\ s.pos <= s.code /\ s.end <= s.pos + s.size /\ s.code <= s.pos + s.size
      /\ s.code <= s.code /\ s.pos <= s.pos
  BY <1>1
<1>3. PagesOf(s.code, s.end) \subseteq PagesOf(s.pos, s.pos + s.size)
  BY <1>1, <1>2, PagesWithin
<1>4. PagesOf(s.data, s.code) \subseteq PagesOf(s.pos, s.code)
  BY <1>1, <1>2, PagesWithin
<1>5. PagesOf(s.pos, s.code) \subseteq PagesOf(s.pos, s.pos + s.size)
  BY <1>1, <1>2, PagesWithin
<1>6. IsAligned(s.code) => PagesOf(s.pos, s.code) \cap PagesOf(s.code, s.end) = {}
  BY <1>1, <1>2, PagesApart
<1> QED BY <1>1, <1>3, <1>4, <1>5, <1>6, PagesIn DEF CodePages, DataPages

LEMMA SectionsApart ==
  ASSUME NEW s, Fits(s), NEW t, Fits(t), Before(s, t.pos)
  PROVE  CodePages(s) \cap CodePages(t) = {}
<1>1. /\ s.pos \in Nat /\ s.pos + s.size \in Nat /\ t.pos + t.size \in Nat
      /\ IsAligned(t.pos) /\ s.pos + s.size <= t.pos
  BY SectionPages DEF Fits, Before
<1>2. PagesOf(s.pos, s.pos + s.size) \cap PagesOf(t.pos, t.pos + t.size) = {}
  BY <1>1, PagesApart
<1> QED BY <1>2 DEF CodePages

\* The protection of live sections changes with that of their pages only.
LEMMA StaysProtected ==
  ASSUME CodeInv, NEW t \in sections, protectData' = protectData,
         \A p \in CodePages(t) : prot'[t.block][p] = prot[t.block][p]
  PROVE  Protected(t)'
<1>1. /\ PagesOf(t.code, t.end) \subseteq CodePages(t) /\ PagesOf(t.data, t.code) \subseteq CodePages(t)
      /\ Protected(t)
  BY SectionPages DEF CodeInv
<1> QED BY <1>1 DEF Protected

\* A section that is written, whether or not its pages can then be protected, leaves the
\* live ones alone.
LEMMA OthersStay ==
  ASSUME CodeInv, NEW data \in DataSizes, NEW code \in CodeSizes, HasBlockFor(data, code),
         NEW s, s = Section(data, code), NEW pp, pp = BlocksFor(data, code),
         prot' \in Seq(Protection), Len(prot') = Len(pp), protectData' = protectData,
         \A b \in 1 .. Len(pp) : b # s.block => prot'[b] = pp[b],
         \A p \in (0 .. LastPage) \ CodePages(s) : prot'[s.block][p] = pp[s.block][p],
         NEW t \in sections
  PROVE  t.block \in 1 .. Len(prot') /\ Fits(t) /\ Protected(t)'
<1>1. /\ Len(pp) \in Nat /\ Len(prot) \in Nat /\ Len(prot) <= Len(pp) /\ Fits(s)
      /\ \A b \in 1 .. Len(prot) : pp[b] = prot[b]
      /\ t.block = s.block => Before(t, s.pos)
  BY SectionIs
<1>2. t.block \in 1 .. Len(prot) /\ Fits(t)
  BY DEF CodeInv
<1>3. t.block \in 1 .. Len(pp)
  BY <1>1, <1>2
<1>4. ASSUME NEW p \in CodePages(t)
      PROVE  prot'[t.block][p] = prot[t.block][p]
  <2>1. CASE t.block # s.block
    BY <1>1, <1>2, <1>3, <2>1
  <2>2. CASE t.block = s.block
    <3>1. p \in (0 .. LastPage) \ CodePages(s)
      BY <1>1, <1>2, <1>4, <2>2, SectionsApart, SectionPages
    <3> QED BY <1>1, <1>2, <2>2, <3>1
  <2> QED BY <2>1, <2>2
<1>5. Protected(t)'
  BY <1>4, StaysProtected
<1> QED BY <1>2, <1>3, <1>5

\* No section is placed over unwind information.
LEMMA HeaderStays ==
  ASSUME CodeInv, NEW data \in DataSizes, NEW code \in CodeSizes, HasBlockFor(data, code),
         NEW s, s = Section(data, code), header' = NewHeader(data, code), unwindSize' = unwindSize,
         sections' \subseteq sections \cup {s}, protectFailed = "never"
  PROVE  HeaderKept'
<1> SUFFICES ASSUME NEW t \in sections', t.pos = 0, t.block \in header'
             PROVE  t.data >= unwindSize
  BY DEF HeaderKept
<1>1. CASE t = s
  BY <1>1, SectionIs
<1>2. CASE t \in sections
  <2>1. t.block \in header
    BY <1>2, SectionIs DEF CodeInv
  <2> QED BY <1>2, <2>1 DEF CodeInv, HeaderAhead, HeaderKept
<1> QED BY <1>1, <1>2

LEMMA AllocateStep ==
  ASSUME CodeInv, NEW data \in DataSizes, NEW code \in CodeSizes, Allocate(data, code),
         UNCHANGED <<protectData, unwindSize>>
  PROVE  CodeInv'
<1>0. PICK s : s = Section(data, code)
  OBVIOUS
<1>0b. PICK pp : pp = BlocksFor(data, code)
  OBVIOUS
<1> DEFINE dataPages == IF Separate(data) THEN DataPages(s) ELSE {}
           half == Protect(pp, s.block, dataPages, "r")
<1>1. /\ HasBlockFor(data, code) /\ sections' = sections \cup {s} /\ blockPos' = NextPos(s)
      /\ header' = NewHeader(data, code) /\ protectFailed' = protectFailed
      /\ prot' = Protect(half, s.block, CodePages(s) \ dataPages, "rx")
  BY <1>0, <1>0b DEF Allocate, Commit
<1>2. dataPages \subseteq DataPages(s) /\ (Separate(data) => dataPages = DataPages(s))
      /\ (~Separate(data) => dataPages = {})
  OBVIOUS
<1>3. s = Section(data, code) /\ pp = BlocksFor(data, code)
  BY <1>0, <1>0b
<1> HIDE DEF dataPages
<1>4. /\ pp \in Seq(Protection) /\ Len(pp) \in Nat /\ Len(prot) \in Nat /\ s.block = Len(pp)
      /\ s.block \in 1 .. Len(pp) /\ Len(prot) <= Len(pp)
      /\ Fits(s) /\ s.size \in Nat \ {0} /\ s.pos \in Nat /\ s.pos < BlockUnits
      /\ Separate(data) => IsAligned(s.code)
      /\ protectData /\ ~Separate(data) => s.data = s.code
      /\ \A t \in sections : t.block = s.block => Before(t, s.pos)
      /\ protectFailed # "half" => \A p \in PagesOf(s.pos, BlockUnits) : pp[s.block][p] = "rw"
      /\ NewHeader(data, code) \subseteq 1 .. Len(pp)
  BY <1>1, <1>3, SectionIs
<1>5. /\ half \in Seq(Protection) /\ Len(half) = Len(pp)
      /\ \A b \in 1 .. Len(pp) : b # s.block => half[b] = pp[b]
      /\ \A p \in 0 .. LastPage : half[s.block][p] = IF p \in dataPages THEN "r" ELSE pp[s.block][p]
  BY <1>4, ProtectIs
<1> HIDE DEF half
<1>6. /\ prot' \in Seq(Protection) /\ Len(prot') = Len(pp)
      /\ \A b \in 1 .. Len(pp) : b # s.block => prot'[b] = half[b]
      /\ \A p \in 0 .. LastPage :
            prot'[s.block][p] = IF p \in CodePages(s) \ dataPages THEN "rx" ELSE half[s.block][p]
  BY <1>1, <1>4, <1>5, ProtectIs
<1>7. /\ PagesOf(s.code, s.end) \subseteq CodePages(s) /\ DataPages(s) \subseteq CodePages(s)
      /\ PagesOf(s.data, s.code) \subseteq DataPages(s) /\ CodePages(s) \subseteq 0 .. LastPage
      /\ IsAligned(s.code) => PagesOf(s.code, s.end) \cap DataPages(s) = {}
      /\ s.size \in Nat
  BY <1>4, SectionPages
<1>8. /\ \A p \in dataPages : prot'[s.block][p] = "r"
      /\ \A p \in CodePages(s) \ dataPages : prot'[s.block][p] = "rx"
      /\ \A p \in (0 .. LastPage) \ CodePages(s) : prot'[s.block][p] = pp[s.block][p]
  BY <1>2, <1>5, <1>6, <1>7
<1>9. Protected(s)'
  <2>1. \A p \in CodePages(s) : prot'[s.block][p] \in {"r", "rx"}
    BY <1>8
  <2>2. \A p \in PagesOf(s.code, s.end) : prot'[s.block][p] = "rx"
    BY <1>2, <1>4, <1>7, <1>8
  <2>3. protectData' => \A p \in PagesOf(s.data, s.code) : prot'[s.block][p] = "r"
    <3>1. CASE Separate(data)
      BY <1>2, <1>7, <1>8, <3>1
    <3>2. CASE ~Separate(data) /\ protectData
      <4>1. PagesOf(s.data, s.code) = {}
        BY <1>4, <3>2 DEF PagesOf, Fits
      <4> QED BY <4>1
    <3> QED BY <3>1, <3>2
  <2> QED BY <2>1, <2>2, <2>3 DEF Protected
<1>10. ASSUME NEW t \in sections
       PROVE  t.block \in 1 .. Len(prot') /\ Fits(t) /\ Protected(t)'
  <2>1. \A b \in 1 .. Len(pp) : b # s.block => prot'[b] = pp[b]
    BY <1>5, <1>6
  <2>2. protectData' = protectData /\ HasBlockFor(data, code) /\ prot' \in Seq(Protection)
        /\ Len(prot') = Len(pp)
    BY <1>1, <1>6
  <2>3. \A p \in (0 .. LastPage) \ CodePages(s) : prot'[s.block][p] = pp[s.block][p]
    BY <1>8
  <2> QED BY <1>3, <2>1, <2>2, <2>3, OthersStay
<1>11. NextPos(s) = IF s.size <= BlockUnits - s.pos THEN s.pos + s.size ELSE BlockUnits
  BY DEF NextPos
<1>12. CodeTypeOK'
  <2>1. NextPos(s) \in 0 .. BlockUnits
    BY <1>4, <1>11, Sizes
  <2> QED BY <1>1, <1>4, <1>6, <2>1 DEF CodeInv, CodeTypeOK
<1>13. \A t \in sections' : t.block \in 1 .. Len(prot') /\ Fits(t) /\ Protected(t)'
  BY <1>1, <1>4, <1>6, <1>9, <1>10
<1>14. Apart'
  <2> SUFFICES ASSUME NEW t \in sections', NEW u \in sections', t # u, t.block = u.block
               PROVE  Before(t, u.pos) \/ Before(u, t.pos)
    BY DEF Apart
  <2>1. CASE t \in sections /\ u \in sections
    BY <2>1 DEF CodeInv, Apart
  <2>2. CASE t = s \/ u = s
    BY <1>1, <1>4, <2>2
  <2> QED BY <1>1, <2>1, <2>2
<1>15. Ahead'
  <2> SUFFICES ASSUME blockPos' < BlockUnits
               PROVE  /\ prot' # <<>> /\ IsAligned(blockPos')
                      /\ \A t \in sections' : t.block = Len(prot') => Before(t, blockPos')
                      /\ protectFailed' # "half" =>
                            \A p \in PagesOf(blockPos', BlockUnits) : prot'[Len(prot')][p] = "rw"
    BY DEF Ahead
  <2>1. blockPos' = s.pos + s.size /\ s.pos <= blockPos' /\ blockPos' \in Nat /\ BlockUnits \in Nat
    BY <1>1, <1>4, <1>11, Sizes
  <2>2. IsAligned(blockPos')
    BY <1>4, <2>1, AlignedSum DEF Fits
  <2>3. prot' # <<>>
    BY <1>4, <1>6, EmptySeq
  <2>4. ASSUME NEW t \in sections', t.block = Len(prot')
        PROVE  Before(t, blockPos')
    <3>1. CASE t = s
      BY <1>4, <2>1, <3>1 DEF Before
    <3>2. CASE t \in sections
      <4>1. Before(t, s.pos) /\ Fits(t)
        BY <1>4, <1>6, <1>10, <2>4, <3>2
      <4>2. t.pos + t.size \in Nat
        BY <4>1, SectionPages
      <4> QED BY <1>4, <2>1, <4>1, <4>2 DEF Before
    <3> QED BY <1>1, <3>1, <3>2
  <2>5. ASSUME protectFailed # "half", NEW p \in PagesOf(blockPos', BlockUnits)
        PROVE  prot'[s.block][p] = "rw"
    <3>1. PagesOf(blockPos', BlockUnits) \subseteq PagesOf(s.pos, BlockUnits)
      BY <1>4, <2>1, PagesWithin
    <3>2. PagesOf(s.pos, s.pos + s.size) \cap PagesOf(blockPos', BlockUnits) = {}
      BY <1>4, <2>1, <2>2, PagesApart
    <3>3. p \notin CodePages(s)
      BY <2>5, <3>2 DEF CodePages
    <3>4. p \in 0 .. LastPage
      BY PagesIn
    <3> QED BY <1>4, <1>8, <2>5, <3>1, <3>3, <3>4
  <2> QED BY <1>1, <1>4, <1>6, <2>2, <2>3, <2>4, <2>5
<1>16. HeaderAhead'
  <2>1. blockPos' # 0
    BY <1>1, <1>4, <1>11, Sizes
  <2>2. protectFailed = "never" => HeaderKept'
    BY <1>1, <1>3, HeaderStays
  <2> QED BY <1>1, <2>1, <2>2 DEF HeaderAhead
<1> QED BY <1>12, <1>13, <1>14, <1>15, <1>16 DEF CodeInv, Fits

LEMMA UnwindFailsStep ==
  ASSUME CodeInv, NEW data \in DataSizes, NEW code \in CodeSizes, UnwindFails(data, code),
         UNCHANGED <<protectData, unwindSize>>
  PROVE  CodeInv'
<1> DEFINE free == [p \in 0 .. LastPage |-> "rw"]
<1>1. /\ prot' = Append(prot, free) /\ blockPos' = 0 /\ UNCHANGED <<header, sections, protectFailed>>
  BY DEF UnwindFails, NewBlockProt
<1>2. free \in Protection /\ \A p \in 0 .. LastPage : free[p] = "rw"
  BY DEF Protection
<1> HIDE DEF free
<1>3. prot \in Seq(Protection) /\ Len(prot) \in Nat /\ header \subseteq 1 .. Len(prot)
  BY LenProperties DEF CodeInv, CodeTypeOK
<1>4. /\ prot' \in Seq(Protection) /\ Len(prot') = Len(prot) + 1 /\ prot'[Len(prot) + 1] = free
      /\ \A b \in 1 .. Len(prot) : prot'[b] = prot[b]
  BY <1>1, <1>2, <1>3, AppendProperties
<1>5. 1 .. Len(prot) \subseteq 1 .. Len(prot') /\ Len(prot') \notin 1 .. Len(prot) /\ Len(prot') # 0
  BY <1>3, <1>4
<1>6. CodeTypeOK'
  <2>1. header' \subseteq 1 .. Len(prot')
    BY <1>1, <1>3, <1>5
  <2> QED BY <1>1, <1>4, <2>1, Sizes DEF CodeInv, CodeTypeOK
<1>7. ASSUME NEW t \in sections
      PROVE  t.block \in 1 .. Len(prot') /\ t.block # Len(prot') /\ Fits(t) /\ Protected(t)'
  <2>1. t.block \in 1 .. Len(prot) /\ Fits(t)
    BY DEF CodeInv
  <2>2. prot'[t.block] = prot[t.block]
    BY <1>4, <2>1
  <2>3. Protected(t)'
    BY <2>2, StaysProtected
  <2> QED BY <1>5, <2>1, <2>3
<1>8. Apart'
  BY <1>1 DEF CodeInv, Apart
<1>9. Ahead'
  <2>1. prot' # <<>>
    BY <1>4, <1>5, EmptySeq
  <2>2. IsAligned(0)
    BY Sizes DEF IsAligned
  <2>3. \A p \in PagesOf(blockPos', BlockUnits) : prot'[Len(prot')][p] = "rw"
    BY <1>2, <1>4, PagesIn
  <2> QED BY <1>1, <1>7, <2>1, <2>2, <2>3 DEF Ahead
<1>10. HeaderAhead'
  <2>1. Len(prot') \notin header'
    BY <1>1, <1>3, <1>5
  <2> QED BY <1>1, <2>1 DEF CodeInv, HeaderAhead, HeaderKept
<1> QED BY <1>1, <1>6, <1>7, <1>8, <1>9, <1>10 DEF CodeInv, Fits

LEMMA ProtectFailsStep ==
  ASSUME CodeInv, NEW data \in DataSizes, NEW code \in CodeSizes, ProtectFails(data, code),
         UNCHANGED <<protectData, unwindSize>>
  PROVE  CodeInv'
<1>1. PICK s : s = Section(data, code)
  OBVIOUS
<1>2. PICK pp : pp = BlocksFor(data, code)
  OBVIOUS
<1>3. /\ HasBlockFor(data, code) /\ blockPos' = s.pos /\ header' = NewHeader(data, code)
      /\ sections' = sections
      /\ \/ prot' = pp /\ protectFailed' \in {protectFailed, "all"} /\ protectFailed' # "never"
            /\ (protectFailed = "half" => protectFailed' = "half")
         \/ prot' = Protect(pp, s.block, DataPages(s), "r") /\ protectFailed' = "half"
  BY <1>1, <1>2 DEF ProtectFails
<1>4. /\ pp \in Seq(Protection) /\ Len(pp) \in Nat /\ Len(prot) \in Nat /\ s.block = Len(pp)
      /\ s.block \in 1 .. Len(pp) /\ Len(prot) <= Len(pp)
      /\ Fits(s) /\ s.pos \in Nat /\ s.pos < BlockUnits
      /\ \A t \in sections : t.block = s.block => Before(t, s.pos)
      /\ protectFailed # "half" => \A p \in PagesOf(s.pos, BlockUnits) : pp[s.block][p] = "rw"
      /\ NewHeader(data, code) \subseteq 1 .. Len(pp)
  BY <1>1, <1>2, <1>3, SectionIs
<1>5. DataPages(s) \subseteq CodePages(s)
  BY <1>4, SectionPages
<1>6. /\ prot' \in Seq(Protection) /\ Len(prot') = Len(pp)
      /\ \A b \in 1 .. Len(pp) : b # s.block => prot'[b] = pp[b]
      /\ \A p \in (0 .. LastPage) \ CodePages(s) : prot'[s.block][p] = pp[s.block][p]
  <2>1. CASE prot' = pp
    BY <1>4, <2>1
  <2>2. CASE prot' = Protect(pp, s.block, DataPages(s), "r")
    <3> DEFINE half == Protect(pp, s.block, DataPages(s), "r")
    <3>1. /\ half \in Seq(Protection) /\ Len(half) = Len(pp)
          /\ \A b \in 1 .. Len(pp) : b # s.block => half[b] = pp[b]
          /\ \A p \in 0 .. LastPage : half[s.block][p] = IF p \in DataPages(s) THEN "r" ELSE pp[s.block][p]
      BY <1>4, ProtectIs
    <3>2. prot' = half
      BY <2>2
    <3> HIDE DEF half
    <3> QED BY <1>5, <3>1, <3>2
  <2> QED BY <1>3, <2>1, <2>2
<1>7. ASSUME NEW t \in sections
      PROVE  t.block \in 1 .. Len(prot') /\ Fits(t) /\ Protected(t)'
  <2>1. protectData' = protectData
    OBVIOUS
  <2> QED BY <1>1, <1>2, <1>3, <1>6, <2>1, OthersStay
<1>8. CodeTypeOK'
  <2>1. s.pos \in 0 .. BlockUnits
    BY <1>4, Sizes
  <2>2. protectFailed' \in {"never", "all", "half"}
    BY <1>3 DEF CodeInv, CodeTypeOK
  <2> QED BY <1>3, <1>4, <1>6, <2>1, <2>2 DEF CodeInv, CodeTypeOK
<1>9. Apart'
  BY <1>3 DEF CodeInv, Apart
<1>10. Ahead'
  <2>1. prot' # <<>>
    BY <1>4, <1>6, EmptySeq
  <2>2. IsAligned(blockPos')
    BY <1>3, <1>4 DEF Fits
  <2>3. \A t \in sections' : t.block = Len(prot') => Before(t, blockPos')
    BY <1>3, <1>4, <1>6
  <2>4. protectFailed' # "half" => \A p \in PagesOf(blockPos', BlockUnits) : prot'[Len(prot')][p] = "rw"
    BY <1>3, <1>4
  <2> QED BY <2>1, <2>2, <2>3, <2>4 DEF Ahead
<1>11. HeaderAhead'
  BY <1>3 DEF HeaderAhead
<1> QED BY <1>3, <1>7, <1>8, <1>9, <1>10, <1>11 DEF CodeInv, Fits

LEMMA DeallocateStep ==
  ASSUME CodeInv, NEW s \in sections, Deallocate(s), UNCHANGED <<protectData, unwindSize>>
  PROVE  CodeInv'
<1>1. /\ prot' = Protect(prot, s.block, CodePages(s), "rw") /\ sections' = sections \ {s}
      /\ UNCHANGED <<blockPos, header, protectFailed>>
  BY DEF Deallocate
<1>2. /\ prot \in Seq(Protection) /\ Len(prot) \in Nat /\ s.block \in 1 .. Len(prot) /\ Fits(s)
  BY LenProperties DEF CodeInv, CodeTypeOK
<1>3. /\ prot' \in Seq(Protection) /\ Len(prot') = Len(prot)
      /\ \A b \in 1 .. Len(prot) : b # s.block => prot'[b] = prot[b]
      /\ \A p \in 0 .. LastPage :
            prot'[s.block][p] = IF p \in CodePages(s) THEN "rw" ELSE prot[s.block][p]
  BY <1>1, <1>2, ProtectIs
<1>4. ASSUME NEW t \in sections'
      PROVE  t.block \in 1 .. Len(prot') /\ Fits(t) /\ Protected(t)'
  <2>1. t \in sections /\ t # s /\ t.block \in 1 .. Len(prot) /\ Fits(t)
    BY <1>1 DEF CodeInv
  <2>2. ASSUME NEW p \in CodePages(t)
        PROVE  prot'[t.block][p] = prot[t.block][p]
    <3>1. CASE t.block # s.block
      BY <1>3, <2>1, <3>1
    <3>2. CASE t.block = s.block
      <4>1. Before(s, t.pos) \/ Before(t, s.pos)
        BY <2>1, <3>2 DEF CodeInv, Apart
      <4>2. CodePages(s) \cap CodePages(t) = {}
        BY <1>2, <2>1, <4>1, SectionsApart
      <4>3. p \in 0 .. LastPage /\ p \notin CodePages(s)
        BY <2>1, <4>2, SectionPages
      <4> QED BY <1>3, <3>2, <4>3
    <3> QED BY <3>1, <3>2
  <2>3. Protected(t)'
    BY <2>1, <2>2, StaysProtected
  <2> QED BY <1>3, <2>1, <2>3
<1>5. CodeTypeOK'
  BY <1>1, <1>3 DEF CodeInv, CodeTypeOK
<1>6. Apart'
  BY <1>1 DEF CodeInv, Apart
<1>7. Ahead'
  <2> SUFFICES ASSUME blockPos < BlockUnits
               PROVE  /\ prot' # <<>>
                      /\ \A t \in sections' : t.block = Len(prot') => Before(t, blockPos)
                      /\ protectFailed # "half" =>
                            \A p \in PagesOf(blockPos, BlockUnits) : prot'[Len(prot')][p] = "rw"
    BY <1>1 DEF CodeInv, Ahead
  <2>1. prot # <<>> /\ Len(prot) # 0
    BY <1>2, EmptySeq DEF CodeInv, Ahead
  <2>2. prot' # <<>>
    BY <1>3, <2>1, EmptySeq
  <2>3. Len(prot) \in 1 .. Len(prot)
    BY <1>2, <2>1
  <2> QED BY <1>1, <1>3, <2>2, <2>3, PagesIn DEF CodeInv, Ahead
<1>8. HeaderAhead'
  BY <1>1, <1>3 DEF CodeInv, HeaderAhead, HeaderKept
<1> QED BY <1>4, <1>5, <1>6, <1>7, <1>8 DEF CodeInv, Fits

LEMMA InitCode == CodeInit => CodeInv
<1> SUFFICES ASSUME CodeInit PROVE CodeInv
  OBVIOUS
<1>1. /\ protectData \in BOOLEAN /\ unwindSize \in 0 .. Reserved /\ blockPos = BlockUnits
      /\ prot = <<>> /\ header = {} /\ sections = {} /\ protectFailed = "never"
  BY DEF CodeInit
<1>2. CodeTypeOK
  BY <1>1, Sizes DEF CodeTypeOK
<1>3. Ahead
  BY <1>1, Sizes DEF Ahead
<1> QED BY <1>1, <1>2, <1>3 DEF CodeInv, Apart, HeaderAhead, HeaderKept

LEMMA CodeStays ==
  ASSUME CodeInv, [CodeNext]_codeVars
  PROVE  CodeInv'
<1>1. CASE UNCHANGED codeVars
  BY <1>1 DEF codeVars, CodeInv, CodeTypeOK, Protected, Apart, Ahead, HeaderAhead, HeaderKept
<1>2. CASE CodeNext
  BY <1>2, AllocateStep, UnwindFailsStep, ProtectFailsStep, DeallocateStep DEF CodeNext, CodeStep
<1> QED BY <1>1, <1>2

-----------------------------------------------------------------------------
(* The code allocator: what is proved                                       *)

\* Whatever is allocated and freed, and whatever call of the system fails: live code is on
\* executable pages that are never writable, next to its data, apart from other sections and
\* from the unwind information, and what is written next belongs to nobody.
THEOREM CodeIntactCorrect == CodeSpec => []CodeIntact
<1>1. CodeInv => CodeIntact
  <2> SUFFICES ASSUME CodeInv PROVE CodeIntact
    OBVIOUS
  <2>1. \A s \in sections : Fits(s) /\ Protected(s) /\ s.block \in 1 .. Len(prot)
    BY DEF CodeInv
  <2>2. ASSUME NEW s \in sections, NEW t \in sections, s # t, s.block = t.block
        PROVE  CodePages(s) \cap CodePages(t) = {}
    <3>1. Before(s, t.pos) \/ Before(t, s.pos)
      BY <2>2 DEF CodeInv, Apart
    <3> QED BY <2>1, <3>1, SectionsApart
  <2>3. ASSUME protectFailed # "half", NEW p \in PagesOf(blockPos, BlockUnits)
        PROVE  /\ prot[Len(prot)][p] = "rw"
               /\ \A s \in sections : s.block = Len(prot) => p \notin CodePages(s)
    <3>1. blockPos < BlockUnits
      BY <2>3 DEF PagesOf
    <3>2. /\ prot[Len(prot)][p] = "rw" /\ IsAligned(blockPos) /\ blockPos \in Nat /\ BlockUnits \in Nat
          /\ \A s \in sections : s.block = Len(prot) => Before(s, blockPos)
      BY <2>3, <3>1, Sizes DEF CodeInv, CodeTypeOK, Ahead
    <3>3. ASSUME NEW s \in sections, s.block = Len(prot)
          PROVE  p \notin CodePages(s)
      <4>1. /\ s.pos \in Nat /\ s.pos + s.size \in Nat /\ s.pos + s.size <= blockPos
        BY <2>1, <3>2, <3>3, SectionPages DEF Before
      <4>2. PagesOf(s.pos, s.pos + s.size) \cap PagesOf(blockPos, BlockUnits) = {}
        BY <3>2, <4>1, PagesApart
      <4> QED BY <2>3, <4>2 DEF CodePages
    <3> QED BY <3>2, <3>3
  <2>4. ASSUME NEW s \in sections
        PROVE  /\ s.pos <= s.data /\ s.code < s.end /\ s.end <= BlockUnits
               /\ \A p \in CodePages(s) : prot[s.block][p] \in {"r", "rx"}
               /\ \A p \in PagesOf(s.code, s.end) : prot[s.block][p] = "rx"
               /\ protectData => \A p \in PagesOf(s.data, s.code) : prot[s.block][p] = "r"
    BY <2>1 DEF Fits, Protected
  <2>5. protectFailed = "never" => HeaderKept
    BY DEF CodeInv, HeaderAhead
  <2> QED BY <2>2, <2>3, <2>4, <2>5 DEF CodeIntact
<1> QED BY <1>1, InitCode, CodeStays, PTL DEF CodeSpec
=============================================================================
