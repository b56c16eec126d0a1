---------------------------- MODULE LuaGCProofs ----------------------------
(***************************************************************************)
(* Two inductive invariants of LuaGC, for any heap.  The first says the    *)
(* colours and the lists of the collector: PauseClean, OneList, NeverBlack,*)
(* the types and the chain of resumed threads.  The second is behind the   *)
(* safety of the collector: it frees nothing the program can still reach,  *)
(* hides no white object behind a black one, and changes nothing that the  *)
(* program sees: NoDangling, NoBlackToWhite and BlackThreads,              *)
(* InvisibleCollector and ClosesOnlyOrphans, and the refinement of LuaHeap.*)
(***************************************************************************)
EXTENDS LuaGC, TLAPS

-----------------------------------------------------------------------------
(***************************************************************************)
(* Colours and lists.  None of the properties is inductive alone.  A cycle *)
(* relies on the previous one having left everything white, hence on how   *)
(* far the sweep is; and the colour of an open upvalue is right because a  *)
(* traversed thread has claimed it, hence on the markedopen bits.          *)
(***************************************************************************)

Ref == Obj \cup {Nil}

\* The facts about the constants that the proofs below use everywhere.
LEMMA Constants ==
    /\ Main \in Thread /\ Registry \in Table
    /\ Nil \notin Obj
    /\ Thread \subseteq Obj /\ Table \subseteq Obj /\ UpVal \subseteq Obj
    /\ Func \subseteq Obj /\ Udata \subseteq Obj /\ Str \subseteq Obj
    /\ Value \subseteq Obj /\ Listed \subseteq Obj
    /\ MetaTable \subseteq Table
    /\ Modes \subseteq SUBSET {"k", "v"}
    /\ Slot \subseteq Fld /\ {KEY, VAL, MT, CAP} \subseteq Fld
    /\ StackSize \in Nat \ {0} /\ 1 \in Slot
    /\ PageOf \in [Obj \ {Main} -> Page]
<1>1. /\ Main \in Thread /\ Registry \in Table
      /\ Nil \notin Obj
      /\ MetaTable \subseteq Table
      /\ Modes \subseteq SUBSET {"k", "v"}
      /\ StackSize \in Nat \ {0}
      /\ PageOf \in [Obj \ {Main} -> Page]
  BY KindsAssumption
<1>2. /\ Thread \subseteq Obj /\ Table \subseteq Obj /\ UpVal \subseteq Obj
      /\ Func \subseteq Obj /\ Udata \subseteq Obj /\ Str \subseteq Obj
      /\ Value \subseteq Obj /\ Listed \subseteq Obj
  BY DEF Obj, Value, Listed
<1>3. Slot \subseteq Fld /\ {KEY, VAL, MT, CAP} \subseteq Fld /\ 1 \in Slot
  BY <1>1 DEF Slot, Fld, KEY, VAL, MT, CAP
<1> QED BY <1>1, <1>2, <1>3

-----------------------------------------------------------------------------
(* What the operators of LuaGC yield in a state of the right type *)

LEMMA UvValueType ==
    ASSUME TypeOK, NEW u \in UpVal
    PROVE  UvValue(u) \in Ref
<1>1. u \in Obj /\ VAL \in Fld
  BY Constants
<1>2. CASE IsOpen(u)
  <2>1. owner[u] \in Obj /\ level[u] \in Fld
    BY <1>2, Constants DEF TypeOK, IsOpen
  <2> QED BY <1>2, <2>1 DEF TypeOK, UvValue, Ref
<1>3. CASE ~IsOpen(u)
  BY <1>1, <1>3 DEF TypeOK, UvValue, Ref
<1> QED BY <1>2, <1>3

LEMMA ImmediateType ==
    ASSUME TypeOK, NEW S
    PROVE  Immediate(S) \subseteq Ref
<1>1. ASSUME NEW d \in S \cap Udata PROVE ref[d][MT] \in Ref
  BY Constants DEF TypeOK, Ref
<1> QED BY <1>1, UvValueType DEF Immediate

\* Marking turns only white objects non-white.
LEMMA MarkedWhite ==
    ASSUME TypeOK, NEW S \in SUBSET Ref
    PROVE  /\ Marked(S) \subseteq Obj
           /\ \A o \in Marked(S) : IsWhite(o)
<1>1. ASSUME NEW T \in SUBSET Ref
      PROVE  Whites(T) \subseteq Obj /\ \A o \in Whites(T) : IsWhite(o)
  BY DEF Whites, Ref
<1> DEFINE one == Whites(S)
           two == one \cup Whites(Immediate(one))
<1>2. one \subseteq Obj /\ \A o \in one : IsWhite(o)
  BY <1>1
<1>3. two \subseteq Obj /\ \A o \in two : IsWhite(o)
  BY <1>1, <1>2, ImmediateType
<1>4. Whites(Immediate(two)) \subseteq Obj /\ \A o \in Whites(Immediate(two)) : IsWhite(o)
  BY <1>1, ImmediateType
<1>5. Marked(S) = two \cup Whites(Immediate(two))
  BY DEF Marked
<1> QED BY <1>3, <1>4, <1>5

LEMMA MarkingType ==
    ASSUME TypeOK, NEW S \in SUBSET Ref
    PROVE  /\ ColorsAfterMarking(S) \in [Obj -> Colors]
           /\ GrayAfterMarking(S) \subseteq Listed
           /\ Marked(S) \cap Listed \subseteq Listed
<1>1. ColorsAfterMarking(S) \in [Obj -> Colors]
  BY DEF ColorsAfterMarking, ColorMarked, TypeOK, Colors
<1> QED BY <1>1 DEF GrayAfterMarking, TypeOK

LEMMA RootsType ==
    ASSUME TypeOK
    PROVE  Roots \subseteq Ref /\ LateRoots \subseteq Ref
BY Constants DEF TypeOK, Roots, LateRoots, Ref

LEMMA TracedType ==
    ASSUME TypeOK, NEW o \in Listed
    PROVE  Traced(o) \subseteq Ref
<1>1. \A f \in Fld : ref[o][f] \in Ref
  BY Constants DEF TypeOK, Ref
<1>2. CASE o \in Table
  BY <1>1, <1>2, Constants DEF Traced, Ref
<1>3. CASE o \in Thread /\ o \notin Table
  <2>1. 1 .. top[o] \subseteq Fld
    BY <1>3, Constants DEF TypeOK, Slot
  <2> QED BY <1>1, <1>3, <2>1, Constants DEF Traced, OpenOf, Ref
<1>4. CASE o \notin Thread /\ o \notin Table
  BY <1>1, <1>4, Constants DEF Traced
<1> QED BY <1>2, <1>3, <1>4

LEMMA RegsType ==
    ASSUME TypeOK
    PROVE  Regs \subseteq Obj
<1>1. 1 .. top[cur] \subseteq Fld /\ cur \in Obj
  BY Constants DEF TypeOK, Slot
<1> QED BY <1>1 DEF TypeOK, Regs

LEMMA StoreType ==
    ASSUME TypeOK, NEW o \in Obj, NEW f \in Fld, NEW v \in Ref, Store(o, f, v)
    PROVE  ref' \in [Obj -> [Fld -> Ref]]
<1>1. ref \in [Obj -> [Fld -> Ref]]
  BY DEF TypeOK, Ref
<1>2. [ref[o] EXCEPT ![f] = v] \in [Fld -> Ref]
  BY <1>1
<1> QED BY <1>1, <1>2 DEF Store

\* The barriers keep the types of what they change.
LEMMA BarrierType ==
    ASSUME TypeOK, NEW o \in Obj, NEW v \in Ref, Barrier(o, v)
    PROVE  color' \in [Obj -> Colors] /\ gray' \subseteq Listed
<1>1. {v} \in SUBSET Ref
  OBVIOUS
<1>2. currentwhite \in Colors
  BY DEF TypeOK, White, Colors
<1> QED BY <1>1, <1>2, MarkingType DEF Barrier, TypeOK

LEMMA BackType ==
    ASSUME TypeOK, NEW o \in Listed,
           BarrierBack(o) \/ UNCHANGED <<color, gray, grayagain>>
    PROVE  color' \in [Obj -> Colors] /\ gray' \subseteq Listed /\ grayagain' \subseteq Listed
BY Constants DEF BarrierBack, TypeOK, Colors

LEMMA TableBarrierType ==
    ASSUME TypeOK, NEW t \in Table, NEW S \in SUBSET Ref, TableBarrier(t, S)
    PROVE  color' \in [Obj -> Colors] /\ gray' \subseteq Listed /\ grayagain' \subseteq Listed
<1>1. t \in Listed
  BY DEF Listed
<1> QED BY <1>1, BackType, MarkingType DEF TableBarrier, TypeOK

LEMMA ClosingType ==
    ASSUME TypeOK, NEW S \in SUBSET UpVal, Closing(S)
    PROVE  /\ owner' \in [UpVal -> Thread \cup {Nil}]
           /\ level' \in [UpVal -> Slot]
           /\ color' \in [Obj -> Colors]
           /\ gray' \subseteq Listed
<1> DEFINE S1 == {u \in S : color[u] = "gray"}
           values == {UvValue(u) : u \in S1}
<1>1. values \in SUBSET Ref
  BY UvValueType
<1>2. owner' \in [UpVal -> Thread \cup {Nil}] /\ level' \in [UpVal -> Slot]
  BY Constants DEF Closing, TypeOK
<1>3. currentwhite \in Colors
  BY DEF TypeOK, White, Colors
<1>4. CASE KeepInvariant
  <2> HIDE DEF values
  <2>1. /\ color' = [o \in Obj |-> IF o \in S1 THEN "black" ELSE ColorsAfterMarking(values)[o]]
        /\ gray' = GrayAfterMarking(values)
    BY <1>4 DEF Closing, values
  <2> QED BY <1>1, <1>2, <2>1, MarkingType DEF Colors
<1>5. CASE ~KeepInvariant
  BY <1>2, <1>3, <1>5 DEF Closing, TypeOK
<1> QED BY <1>4, <1>5

-----------------------------------------------------------------------------
(* Every step of the collector *)

LEMMA PropagateType ==
    ASSUME TypeOK, NEW o \in Obj, Propagate(o)
    PROVE  TypeOK'
<1>1. o \in Listed
  BY DEF Propagate, TypeOK
<1>2. Traced(o) \in SUBSET Ref
  BY <1>1, TracedType
<1>3. /\ color' \in [Obj -> Colors]
      /\ GrayAfterMarking(Traced(o)) \subseteq Listed
  <2>1. /\ ColorsAfterMarking(Traced(o)) \in [Obj -> Colors]
        /\ GrayAfterMarking(Traced(o)) \subseteq Listed
    BY <1>2, MarkingType
  <2> QED BY <2>1 DEF Propagate, Colors
<1>4. ref' \in [Obj -> [Fld -> Ref]]
  BY DEF Propagate, TypeOK, Ref
<1>5. gray' \subseteq Listed /\ grayagain' \subseteq Listed
  BY <1>1, <1>3 DEF Propagate, TypeOK
<1>6. weak' \subseteq Table /\ markedopen' \subseteq UpVal
  BY DEF Propagate, TypeOK, OpenOf
<1>7. gcstate' \in {"pause", "propagate", "propagateagain", "atomic", "sweep"}
  BY DEF Propagate, TypeOK
<1>8. UNCHANGED <<execvars, upvars, currentwhite, tosweep, pc, full>>
  BY DEF Propagate
<1> QED BY <1>3, <1>4, <1>5, <1>6, <1>7, <1>8 DEF TypeOK, Ref, execvars, upvars

LEMMA MarkRootsType ==
    ASSUME TypeOK, MarkRoots
    PROVE  /\ color' \in [Obj -> Colors]
           /\ gray' \subseteq Listed
           /\ grayagain' = {}
           /\ weak' = {}
           /\ gcstate' = "propagate"
BY RootsType, MarkingType DEF MarkRoots

LEMMA AtomicFinishType ==
    ASSUME TypeOK, AtomicFinish
    PROVE  TypeOK'
<1> DEFINE closed == {u \in Orphans : ~IsWhite(u)}
           S == WeakStrings \cup {UvValue(u) : u \in closed}
<1>1. closed \subseteq UpVal
  BY DEF Orphans
<1>2. S \in SUBSET Ref
  BY <1>1, UvValueType, Constants DEF WeakStrings, Ref
<1>3. ref' \in [Obj -> [Fld -> Ref]]
  <2>1. ASSUME NEW o \in Obj, NEW f \in Fld
        PROVE  ref'[o][f] \in Ref
    <3>1. ref'[o][f] = IF o \in ClearedEntries /\ f \in {KEY, VAL} THEN Nil
                       ELSE IF o \in closed /\ f = VAL THEN UvValue(o)
                       ELSE ref[o][f]
      BY DEF AtomicFinish
    <3> QED BY <1>1, <3>1, UvValueType DEF TypeOK, Ref
  <2> QED BY <2>1 DEF AtomicFinish
<1>4. color' \in [Obj -> Colors] /\ gray' \subseteq Listed
  <2> HIDE DEF S, closed
  <2>1. /\ color' = [o \in Obj |-> IF o \in closed THEN "black" ELSE ColorsAfterMarking(S)[o]]
        /\ gray' = GrayAfterMarking(S)
    BY DEF AtomicFinish, S, closed
  <2> QED BY <1>2, <2>1, MarkingType DEF Colors
<1>5. owner' \in [UpVal -> Thread \cup {Nil}] /\ level' \in [UpVal -> Slot]
  BY Constants DEF AtomicFinish, TypeOK
<1>6. /\ weak' = {} /\ gcstate' = "sweep" /\ pc' = "none"
      /\ markedopen' \subseteq UpVal
      /\ tosweep' \subseteq Page
      /\ currentwhite' \in White
      /\ UNCHANGED <<execvars, grayagain, full>>
  BY Constants DEF AtomicFinish, TypeOK, UsedPages, Other, White
<1> QED BY <1>3, <1>4, <1>5, <1>6 DEF TypeOK, Ref, execvars

LEMMA SweepType ==
    ASSUME TypeOK, NEW p \in Page, Sweep(p)
    PROVE  TypeOK'
<1> DEFINE freed == {o \in InPage(p) : IsDead(o)}
<1>1. color' \in [Obj -> Colors]
  BY DEF Sweep, TypeOK, SweptColor, White, Colors
<1>2. ref' \in [Obj -> [Fld -> Ref]]
  BY DEF Sweep, TypeOK, Ref
<1>3. top' \in [Thread -> 0 .. StackSize]
  BY Constants DEF Sweep, TypeOK
<1>4. mode' \in [Table -> SUBSET {"k", "v"}]
  <2>1. mode' = [t \in Table |-> IF t \in freed THEN {} ELSE mode[t]]
    BY DEF Sweep
  <2> HIDE DEF freed
  <2> QED BY <2>1 DEF TypeOK
<1>5. /\ markedopen' \subseteq UpVal
      /\ tosweep' \subseteq Page
      /\ gcstate' \in {"pause", "sweep"}
      /\ full' \in {"no", "finish", "cycle"}
      /\ UNCHANGED <<upvars, gmt, cur, from, gray, lists, currentwhite, pc>>
  BY DEF Sweep, TypeOK
<1> QED BY <1>1, <1>2, <1>3, <1>4, <1>5 DEF TypeOK, Ref, upvars, lists

LEMMA CollectorType ==
    ASSUME TypeOK, Collector
    PROVE  TypeOK'
<1>1. CASE StartCycle
  BY <1>1, MarkRootsType DEF StartCycle, TypeOK, execvars, upvars
<1>2. CASE \E o \in Obj : Propagate(o)
  BY <1>2, PropagateType
<1>3. CASE AtomicUpvals
  <2> DEFINE S == {UvValue(u) : u \in GrayOpen}
  <2>1. S \in SUBSET Ref
    BY UvValueType DEF GrayOpen
  <2>2. color' = ColorsAfterMarking(S) /\ gray' = GrayAfterMarking(S)
    BY <1>3 DEF AtomicUpvals
  <2>3. color' \in [Obj -> Colors] /\ gray' \subseteq Listed
    <3> HIDE DEF S
    <3> QED BY <2>1, <2>2, MarkingType
  <2> QED BY <1>3, <2>3 DEF AtomicUpvals, TypeOK, execvars, upvars, lists
<1>4. CASE AtomicWeak
  <2>1. color' \in [Obj -> Colors] /\ Marked(LateRoots) \cap Listed \subseteq Listed
    BY <1>4, RootsType, MarkingType DEF AtomicWeak
  <2>2. gray' \subseteq Listed
    BY <1>4, <2>1 DEF AtomicWeak, TypeOK, Listed
  <2> QED BY <1>4, <2>1, <2>2 DEF AtomicWeak, TypeOK, execvars, upvars
<1>5. CASE AtomicAgain
  BY <1>5 DEF AtomicAgain, TypeOK, execvars, upvars
<1>6. CASE AtomicFinish
  BY <1>6, AtomicFinishType
<1>7. CASE \E p \in Page : Sweep(p)
  BY <1>7, SweepType
<1>8. CASE FullMark
  BY <1>8, MarkRootsType DEF FullMark, TypeOK, execvars, upvars
<1> QED BY <1>1, <1>2, <1>3, <1>4, <1>5, <1>6, <1>7, <1>8 DEF Collector

-----------------------------------------------------------------------------
(* Every step of the program *)

LEMMA SetRegType ==
    ASSUME TypeOK, NEW i \in Slot, NEW v \in Ref, SetReg(i, v)
    PROVE  ref' \in [Obj -> [Fld -> Ref]]
<1>1. cur \in Obj /\ i \in Fld
  BY Constants DEF TypeOK
<1> QED BY <1>1, StoreType DEF SetReg

LEMMA ReadableType ==
    ASSUME TypeOK, NEW v \in Value \cup {Nil}
    PROVE  v \in Ref
BY Constants DEF Ref

LEMMA NewClosureType ==
    ASSUME TypeOK, NEW i \in Slot, NEW f \in Func, NEW v \in Obj,
           ref' = [ref EXCEPT ![f][CAP] = v, ![cur][i] = f]
    PROVE  ref' \in [Obj -> [Fld -> Ref]]
<1> DEFINE r == [ref EXCEPT ![f][CAP] = v]
<1>1. ref \in [Obj -> [Fld -> Ref]] /\ cur \in Obj /\ i \in Fld /\ CAP \in Fld /\ f \in Obj
  BY Constants DEF TypeOK, Ref
<1>2. r \in [Obj -> [Fld -> Ref]]
  BY <1>1 DEF Ref
<1>3. ref' = [r EXCEPT ![cur][i] = f]
  OBVIOUS
<1> HIDE DEF r
<1>4. [r[cur] EXCEPT ![i] = f] \in [Fld -> Ref]
  BY <1>1, <1>2 DEF Ref
<1> QED BY <1>1, <1>2, <1>3, <1>4

LEMMA CloseType ==
    ASSUME TypeOK, NEW S \in SUBSET UpVal, NEW o \in Obj
    PROVE  (IF o \in S THEN [ref[o] EXCEPT ![VAL] = UvValue(o)] ELSE ref[o]) \in [Fld -> Ref]
<1>1. ref[o] \in [Fld -> Ref] /\ VAL \in Fld
  BY Constants DEF TypeOK, Ref
<1> QED BY <1>1, UvValueType

LEMMA ResumeType ==
    ASSUME TypeOK, NEW co \in Thread, Resume(co)
    PROVE  TypeOK'
<1>1. co \in Listed
  BY DEF Listed
<1>2. color' \in [Obj -> Colors] /\ gray' \subseteq Listed /\ grayagain' \subseteq Listed
  BY <1>1, BackType DEF Resume, ThreadBarrier
<1>3. cur' \in Thread /\ from' \in [Thread -> Thread \cup {Nil}]
  BY DEF Resume, TypeOK
<1>4. UNCHANGED <<ref, top, mode, gmt, upvars, weak, phase>>
  BY DEF Resume
<1> QED BY <1>2, <1>3, <1>4 DEF TypeOK, upvars, phase

\* The resumer of the running thread is where Yield continues.
LEMMA YieldType ==
    ASSUME TypeOK, ResumeChain, Yield
    PROVE  TypeOK'
<1>1. from[cur] # Nil
  BY DEF Yield, ResumeChain, IsActive
<1> QED BY <1>1 DEF Yield, TypeOK, upvars, lists, phase

LEMMA XMoveType ==
    ASSUME TypeOK, ResumeChain, NEW a \in Thread, NEW b \in Thread, XMove(a, b)
    PROVE  TypeOK'
<1>1. a # b
  BY DEF XMove, Inactive, IsActive, ResumeChain
<1>2. b \in Listed /\ a \in Obj /\ b \in Obj
  BY Constants DEF Listed
<1>3. color' \in [Obj -> Colors] /\ gray' \subseteq Listed /\ grayagain' \subseteq Listed
  BY <1>2, BackType DEF XMove, ThreadBarrier
<1>0. /\ top[a] \in Nat /\ top[a] > 0 /\ top[a] <= StackSize
      /\ top[b] \in Nat /\ top[b] < StackSize
      /\ top' = [top EXCEPT ![a] = top[a] - 1, ![b] = top[b] + 1]
  BY Constants DEF XMove, TypeOK
<1>4. top[b] + 1 \in Fld /\ top[a] \in Fld
  BY <1>0, Constants DEF Slot
<1>5. ref[a][top[a]] \in Ref
  BY <1>2, <1>4 DEF TypeOK, Ref
<1>6. ref' \in [Obj -> [Fld -> Ref]]
  BY <1>2, <1>4, <1>5, StoreType DEF XMove
<1>7. top' \in [Thread -> 0 .. StackSize]
  <2>1. top[a] - 1 \in 0 .. StackSize /\ top[b] + 1 \in 0 .. StackSize
    BY <1>0, Constants
  <2> QED BY <1>0, <2>1 DEF TypeOK
<1>8. UNCHANGED <<mode, gmt, cur, from, upvars, weak, phase>>
  BY DEF XMove
<1> QED BY <1>3, <1>6, <1>7, <1>8 DEF TypeOK, Ref, upvars, phase

LEMMA ProgramType ==
    ASSUME TypeOK, ResumeChain, Program
    PROVE  TypeOK'
<1> USE DEF Ref
<1>1. ASSUME NEW i \in Slot, NEW v \in Value \cup {Nil}, Load(i, v)
      PROVE  TypeOK'
  <2>1. ref' \in [Obj -> [Fld -> Ref]]
    BY <1>1, ReadableType, SetRegType DEF Load
  <2> QED BY <1>1, <2>1 DEF Load, TypeOK, execvars, upvars, lists, phase
<1>2. ASSUME NEW i \in Slot, NEW o \in Obj, NewObject(o, i) \/ NewString(o, i)
      PROVE  TypeOK'
  <2>1. ref' \in [Obj -> [Fld -> Ref]]
    BY <1>2, SetRegType DEF NewObject, NewString
  <2>2. color' \in [Obj -> Colors]
    BY <1>2 DEF NewObject, NewString, TypeOK, White, Colors
  <2> QED BY <1>2, <2>1, <2>2 DEF NewObject, NewString, TypeOK, execvars, upvars, lists, phase
<1>3. ASSUME NEW i \in Slot, NEW f \in Func, NEW v \in Obj, NewClosure(f, i, v)
      PROVE  TypeOK'
  <2>1. ref' \in [Obj -> [Fld -> Ref]]
    BY <1>3, NewClosureType DEF NewClosure
  <2>2. color' \in [Obj -> Colors]
    BY <1>3 DEF NewClosure, TypeOK, White, Colors
  <2> QED BY <1>3, <2>1, <2>2 DEF NewClosure, TypeOK, execvars, upvars, lists, phase
<1>4. ASSUME NEW i \in Slot, NEW f \in Func, NEW j \in Slot, NEW u \in UpVal,
             NewClosureOver(f, i, j, u)
      PROVE  TypeOK'
  <2>1. ref' \in [Obj -> [Fld -> Ref]]
    BY <1>4, NewClosureType, Constants DEF NewClosureOver
  <2>2. color' \in [Obj -> Colors]
    BY <1>4 DEF NewClosureOver, TypeOK, White, Colors
  <2>3. owner' \in [UpVal -> Thread \cup {Nil}] /\ level' \in [UpVal -> Slot]
    BY <1>4, SMTT(30) DEF NewClosureOver, TypeOK, upvars
  <2>4. markedopen' \subseteq UpVal /\ UNCHANGED <<currentwhite, gcstate, tosweep, pc, full>>
    BY <1>4 DEF NewClosureOver, TypeOK, phase
  <2>5. UNCHANGED <<execvars, gray, lists>>
    BY <1>4 DEF NewClosureOver
  <2> QED BY <2>1, <2>2, <2>3, <2>4, <2>5 DEF TypeOK, execvars, lists
<1>5. ASSUME NEW j \in Slot, CloseUpvals(j)
      PROVE  TypeOK'
  <2> DEFINE S == {u \in OpenOf(cur) : level[u] >= j}
  <2>1. S \in SUBSET UpVal
    BY DEF OpenOf
  <2>2. /\ owner' \in [UpVal -> Thread \cup {Nil}] /\ level' \in [UpVal -> Slot]
        /\ color' \in [Obj -> Colors] /\ gray' \subseteq Listed
    BY <1>5, <2>1, ClosingType DEF CloseUpvals
  <2>3. ref' = [o \in Obj |-> IF o \in S THEN [ref[o] EXCEPT ![VAL] = UvValue(o)] ELSE ref[o]]
    BY <1>5 DEF CloseUpvals
  <2>4. ref' \in [Obj -> [Fld -> Ref]]
    <3> HIDE DEF S
    <3> QED BY <2>1, <2>3, CloseType
  <2>5. UNCHANGED <<execvars, lists, phase>>
    BY <1>5 DEF CloseUpvals
  <2> QED BY <2>2, <2>4, <2>5 DEF TypeOK, execvars, lists, phase
<1>6. CASE Call \/ Return
  BY <1>6, Constants DEF Call, Return, TypeOK, upvars, lists, phase
<1>7. ASSUME NEW f \in Func, NEW v \in Value \cup {Nil}, SetCaptured(f, v)
      PROVE  TypeOK'
  <2>1. f \in Obj /\ CAP \in Fld /\ v \in Ref
    BY Constants
  <2>2. ref' \in [Obj -> [Fld -> Ref]]
    BY <1>7, <2>1, StoreType DEF SetCaptured
  <2>3. color' \in [Obj -> Colors] /\ gray' \subseteq Listed
    BY <1>7, <2>1, BarrierType DEF SetCaptured
  <2> QED BY <1>7, <2>2, <2>3 DEF SetCaptured, TypeOK, execvars, upvars, lists, phase
<1>8. ASSUME NEW f \in Func, NEW v \in Value \cup {Nil}, SetUpval(f, v)
      PROVE  TypeOK'
  <2> DEFINE u == ref[f][CAP]
  <2>1. u \in UpVal /\ u \in Obj /\ VAL \in Fld /\ v \in Ref
    BY <1>8, Constants DEF SetUpval
  <2>2. IsOpen(u) => owner[u] \in Obj /\ level[u] \in Fld
    <3> HIDE DEF u
    <3> QED BY <2>1, Constants DEF TypeOK, IsOpen
  <2>3. /\ IF IsOpen(u) THEN Store(owner[u], level[u], v) ELSE Store(u, VAL, v)
        /\ Barrier(u, v)
        /\ UNCHANGED <<execvars, upvars, lists, phase>>
    BY <1>8 DEF SetUpval
  <2> HIDE DEF u
  <2>4. ref' \in [Obj -> [Fld -> Ref]]
    BY <2>1, <2>2, <2>3, StoreType
  <2>5. color' \in [Obj -> Colors] /\ gray' \subseteq Listed
    BY <2>1, <2>3, BarrierType
  <2> QED BY <2>3, <2>4, <2>5 DEF TypeOK, execvars, upvars, lists, phase
<1>9. ASSUME NEW t \in Table, NEW k \in Value \cup {Nil}, NEW v \in Value \cup {Nil},
             SetTable(t, k, v)
      PROVE  TypeOK'
  <2>1. t \in Obj /\ KEY \in Fld /\ VAL \in Fld /\ k \in Ref /\ v \in Ref
    BY Constants
  <2>2. ref' \in [Obj -> [Fld -> Ref]]
    BY <1>9, <2>1 DEF SetTable, TypeOK
  <2>3. PICK S \in SUBSET Ref : TableBarrier(t, S)
    BY <1>9, <2>1 DEF SetTable
  <2>4. color' \in [Obj -> Colors] /\ gray' \subseteq Listed /\ grayagain' \subseteq Listed
    BY <2>3, TableBarrierType
  <2> QED BY <1>9, <2>2, <2>4 DEF SetTable, TypeOK, execvars, upvars, phase
<1>10. ASSUME NEW o \in Table \cup Udata, NEW mt \in MetaTable \cup {Nil}, SetMetatable(o, mt)
       PROVE  TypeOK'
  <2>1. o \in Obj /\ MT \in Fld /\ mt \in Ref
    BY Constants
  <2>2. ref' \in [Obj -> [Fld -> Ref]]
    BY <1>10, <2>1, StoreType DEF SetMetatable
  <2>3. color' \in [Obj -> Colors] /\ gray' \subseteq Listed
    BY <1>10, <2>1, BarrierType DEF SetMetatable
  <2> QED BY <1>10, <2>2, <2>3 DEF SetMetatable, TypeOK, execvars, upvars, lists, phase
<1>11. ASSUME NEW mt \in MetaTable \cup {Nil}, SetBasicMetatable(mt)
       PROVE  TypeOK'
  BY <1>11 DEF SetBasicMetatable, TypeOK, upvars, lists, phase
<1>12. ASSUME NEW mt \in MetaTable, NEW m \in Modes, SetMode(mt, m)
       PROVE  TypeOK'
  <2>1. mt \in Table /\ mt \in Listed /\ m \in SUBSET {"k", "v"}
    BY Constants DEF Listed
  <2>2. color' \in [Obj -> Colors] /\ gray' \subseteq Listed /\ grayagain' \subseteq Listed
    BY <1>12, <2>1, BackType DEF SetMode
  <2> QED BY <1>12, <2>1, <2>2 DEF SetMode, TypeOK, upvars, phase
<1>13. ASSUME NEW th \in Thread, ResetThread(th)
       PROVE  TypeOK'
  <2> DEFINE S == OpenOf(th)
  <2>1. S \in SUBSET UpVal
    BY DEF OpenOf
  <2>2. /\ owner' \in [UpVal -> Thread \cup {Nil}] /\ level' \in [UpVal -> Slot]
        /\ color' \in [Obj -> Colors] /\ gray' \subseteq Listed
    BY <1>13, <2>1, ClosingType DEF ResetThread
  <2>3. ref' = [o \in Obj |->
                  IF o = th THEN [f \in Fld |-> Nil]
                  ELSE IF o \in S THEN [ref[o] EXCEPT ![VAL] = UvValue(o)] ELSE ref[o]]
    BY <1>13 DEF ResetThread
  <2>4. ref' \in [Obj -> [Fld -> Ref]]
    <3> HIDE DEF S
    <3>1. ASSUME NEW o \in Obj PROVE ref'[o] \in [Fld -> Ref]
      BY <2>1, <2>3, CloseType
    <3> QED BY <2>3, <3>1
  <2>5. top' \in [Thread -> 0 .. StackSize]
    BY <1>13, Constants DEF ResetThread, TypeOK
  <2>6. UNCHANGED <<mode, gmt, cur, from, lists, phase>>
    BY <1>13 DEF ResetThread
  <2> QED BY <2>2, <2>4, <2>5, <2>6 DEF TypeOK, lists, phase
<1>14. CASE FullGC
  <2>1. UsedPages \subseteq Page
    BY Constants DEF UsedPages
  <2> QED BY <1>14, <2>1 DEF FullGC, TypeOK, execvars, upvars, lists
<1> QED BY <1>1, <1>2, <1>3, <1>4, <1>5, <1>6, <1>7, <1>8, <1>9, <1>10, <1>11, <1>12, <1>13,
           <1>14, ResumeType, YieldType, XMoveType DEF Program

-----------------------------------------------------------------------------
(* The chain of resumed threads *)

\* Only Resume and Yield touch the chain: one appends a thread, the other removes it.
LEMMA ChainSteps ==
    ASSUME [Next]_vars
    PROVE  \/ \E co \in Thread : Resume(co)
           \/ Yield
           \/ UNCHANGED <<cur, from>>
<1>1. CASE UNCHANGED vars
  BY <1>1 DEF vars, execvars
<1>2. CASE Collector
  BY <1>2 DEF Collector, StartCycle, Propagate, AtomicUpvals, AtomicWeak,
              AtomicAgain, AtomicFinish, Sweep, FullMark, execvars
<1>3. ASSUME NEW i \in Slot,
             \/ \E v \in Value \cup {Nil} : Load(i, v)
             \/ \E o \in Obj : NewObject(o, i) \/ NewString(o, i)
             \/ \E f \in Func, v \in Obj : NewClosure(f, i, v)
             \/ \E f \in Func, j \in Slot, u \in UpVal : NewClosureOver(f, i, j, u)
             \/ CloseUpvals(i)
      PROVE  UNCHANGED <<cur, from>>
  BY <1>3 DEF Load, NewObject, NewString, NewClosure, NewClosureOver, CloseUpvals, execvars
<1>4. CASE Call \/ Return \/ FullGC
  BY <1>4 DEF Call, Return, FullGC, execvars
<1>5. ASSUME \/ \E f \in Func, v \in Value \cup {Nil} : SetCaptured(f, v) \/ SetUpval(f, v)
             \/ \E t \in Table, k, v \in Value \cup {Nil} : SetTable(t, k, v)
             \/ \E o \in Table \cup Udata, mt \in MetaTable \cup {Nil} : SetMetatable(o, mt)
             \/ \E mt \in MetaTable \cup {Nil} : SetBasicMetatable(mt)
      PROVE  UNCHANGED <<cur, from>>
  BY <1>5 DEF SetCaptured, SetUpval, SetTable, SetMetatable, SetBasicMetatable, execvars
<1>6. ASSUME \/ \E mt \in MetaTable, m \in Modes : SetMode(mt, m)
             \/ \E co \in Thread : ResetThread(co)
             \/ \E a, b \in Thread : XMove(a, b)
      PROVE  UNCHANGED <<cur, from>>
  BY <1>6 DEF SetMode, ResetThread, XMove, execvars
<1>7. CASE Program
  BY <1>3, <1>4, <1>5, <1>6, <1>7 DEF Program
<1> QED BY <1>1, <1>2, <1>7 DEF Next

LEMMA ChainStep ==
    ASSUME TypeOK, ResumeChain, [Next]_vars
    PROVE  ResumeChain'
<1>1. ASSUME NEW co \in Thread, Resume(co)
      PROVE  ResumeChain'
  <2>1. /\ ~IsActive(co)
        /\ from' = [from EXCEPT ![co] = cur]
        /\ cur' = co
    BY <1>1 DEF Resume, Inactive
  <2>2. co # cur /\ co # Main /\ from[co] = Nil
    BY <2>1 DEF ResumeChain, IsActive
  <2>3. \A th \in Thread : from'[th] = IF th = co THEN cur ELSE from[th]
    BY <2>1 DEF TypeOK
  <2>4. \A th \in Thread : IsActive(th) => IsActive(th)'
    BY <2>3, Constants DEF TypeOK, IsActive
  <2>5. cur \in Thread /\ cur # Nil
    BY Constants DEF TypeOK
  <2>6. IsActive(cur)'
    BY <2>1, <2>3, <2>5 DEF IsActive
  <2>7. ASSUME NEW th \in Thread, from'[th] # Nil
        PROVE  IsActive(from[th])' /\ from'[th] # cur'
    BY <2>1, <2>2, <2>3, <2>4, <2>5, <2>7 DEF ResumeChain, TypeOK
  <2>8. ASSUME NEW a \in Thread, NEW b \in Thread, from'[a] # Nil, from'[a] = from'[b]
        PROVE  a = b
    BY <2>3, <2>8 DEF ResumeChain
  <2>9. ASSUME NEW W \in SUBSET Thread, W # {}
        PROVE  \E th \in W : from'[th] \notin W
    <3>1. CASE \A th \in W \ {co} : from[th] \notin W \ {co} => from[th] \notin W
      <4>1. CASE W \ {co} # {}
        <5>1. W \ {co} \in SUBSET Thread
          OBVIOUS
        <5>2. PICK th \in W \ {co} : from[th] \notin W \ {co}
          BY <4>1, <5>1 DEF ResumeChain
        <5> QED BY <2>3, <3>1, <5>2
      <4>2. CASE W \ {co} = {}
        <5>1. co \in W /\ cur \notin W
          BY <2>2, <2>9, <4>2
        <5> QED BY <2>3, <5>1
      <4> QED BY <4>1, <4>2
    <3>2. ASSUME NEW th \in W \ {co}, from[th] = co
          PROVE  FALSE
      BY <2>1, <2>2, <3>2, Constants DEF ResumeChain
    <3> QED BY <3>1, <3>2
  <2> QED BY <2>6, <2>7, <2>8, <2>9 DEF ResumeChain
<1>2. CASE Yield
  <2>1. /\ cur # Main
        /\ cur' = from[cur]
        /\ from' = [from EXCEPT ![cur] = Nil]
    BY <1>2 DEF Yield
  <2>2. cur \in Thread /\ from[cur] # Nil /\ from[cur] \in Thread
    BY <2>1 DEF ResumeChain, IsActive, TypeOK
  <2>3. \A th \in Thread : from'[th] = IF th = cur THEN Nil ELSE from[th]
    BY <2>1 DEF TypeOK
  <2>4. \A th \in Thread : IsActive(th) /\ th # cur => IsActive(th)'
    BY <2>3 DEF IsActive
  <2>5. \A th \in Thread : from[th] # Nil => from[th] \in Thread
    BY DEF TypeOK
  <2>6. IsActive(cur)'
    BY <2>1, <2>2, <2>4 DEF ResumeChain
  <2>7. ASSUME NEW th \in Thread, from'[th] # Nil
        PROVE  IsActive(from[th])' /\ from'[th] # cur'
    BY <2>1, <2>2, <2>3, <2>4, <2>5, <2>7 DEF ResumeChain
  <2>8. ASSUME NEW a \in Thread, NEW b \in Thread, from'[a] # Nil, from'[a] = from'[b]
        PROVE  a = b
    BY <2>3, <2>8 DEF ResumeChain
  <2>9. ASSUME NEW W \in SUBSET Thread, W # {}
        PROVE  \E th \in W : from'[th] \notin W
    <3>1. PICK th \in W : from[th] \notin W
      BY <2>9 DEF ResumeChain
    <3>2. Nil \notin W
      BY Constants
    <3> QED BY <2>3, <3>1, <3>2
  <2> QED BY <2>6, <2>7, <2>8, <2>9 DEF ResumeChain
<1>3. CASE UNCHANGED <<cur, from>>
  BY <1>3 DEF ResumeChain, IsActive
<1> QED BY <1>1, <1>2, <1>3, ChainSteps

-----------------------------------------------------------------------------

LEMMA InitType ==
    ASSUME Init
    PROVE  TypeOK /\ ResumeChain
<1>1. TypeOK
  BY Constants DEF Init, TypeOK, Colors, White
<1>2. \A W \in SUBSET Thread : \A th \in W : from[th] \notin W
  BY Constants DEF Init
<1>3. ResumeChain
  BY <1>2 DEF Init, ResumeChain, IsActive
<1> QED BY <1>1, <1>3

LEMMA TypeStep ==
    ASSUME TypeOK, ResumeChain, [Next]_vars
    PROVE  TypeOK'
<1>1. CASE UNCHANGED vars
  BY <1>1 DEF TypeOK, vars, execvars, upvars, lists, phase
<1>2. CASE Collector
  BY <1>2, CollectorType
<1>3. CASE Program
  BY <1>3, ProgramType
<1> QED BY <1>1, <1>2, <1>3 DEF Next

\* Every variable keeps its type; in particular Yield always finds a thread to continue.
THEOREM TypeCorrect == Spec => []TypeOK
<1>1. Init => TypeOK /\ ResumeChain
  BY InitType
<1>2. TypeOK /\ ResumeChain /\ [Next]_vars => TypeOK' /\ ResumeChain'
  BY TypeStep, ChainStep
<1> QED BY <1>1, <1>2, PTL DEF Spec

\* The resumed threads always form one chain that ends with the running thread, whatever
\* sequence of resumes, yields, errors and resets the program performs.
THEOREM ChainCorrect == Spec => []ResumeChain
<1>1. Init => TypeOK /\ ResumeChain
  BY InitType
<1>2. TypeOK /\ ResumeChain /\ [Next]_vars => TypeOK' /\ ResumeChain'
  BY TypeStep, ChainStep
<1> QED BY <1>1, <1>2, PTL DEF Spec

-----------------------------------------------------------------------------
(* Colours and lists: the inductive invariant *)

\* The atomic phase and a full collection are where the collector thinks they are.
Phases ==
    /\ pc # "none" => gcstate = "atomic"
    /\ full = "finish" => ~KeepInvariant
    /\ full = "cycle" => gcstate # "pause"

\* The white of the previous cycle exists only while it is swept.
OneWhite == gcstate # "sweep" => \A o \in Obj : color[o] # Other(currentwhite)

\* The pages the sweep has visited hold objects of the current white only.
Swept ==
    gcstate = "sweep" =>
        \A o \in Obj \ {Main} : color[o] \in {"free", currentwhite} \/ PageOf[o] \in tosweep

\* An open upvalue is white or gray, and not dead.
OpenColors == \A u \in UpVal : IsOpen(u) => color[u] \in {currentwhite, "gray"}

\* While marking, an upvalue that a thread has claimed is gray; between the atomic phase
\* and the next marking no open upvalue has its bit set.
OpenBits ==
    /\ KeepInvariant => \A u \in markedopen : IsOpen(u) => color[u] = "gray"
    /\ gcstate = "sweep" /\ full # "finish" => \A u \in markedopen : ~IsOpen(u)

ColorInv ==
    /\ TypeOK
    /\ ResumeChain
    /\ Phases
    /\ OneWhite
    /\ Swept
    /\ OpenColors
    /\ OpenBits
    /\ OneList
    /\ PauseClean
    /\ NeverBlack

-----------------------------------------------------------------------------
(* Marking *)

LEMMA Kinds ==
    /\ Listed \cap (Str \cup Udata \cup UpVal) = {}
    /\ Table \cap Thread = {}
    /\ Thread \cap UpVal = {} /\ Thread \cap Str = {} /\ UpVal \cap Str = {}
    /\ Thread \subseteq Listed /\ Table \subseteq Listed
BY DisjointAssumption DEF Listed

LEMMA Whitenesses ==
    ASSUME TypeOK
    PROVE  /\ currentwhite \in White
           /\ Other(currentwhite) \in White /\ Other(currentwhite) # currentwhite
           /\ White = {currentwhite, Other(currentwhite)}
           /\ White \cap {"free", "gray", "black"} = {}
BY DEF TypeOK, White, Other

\* Marking S paints some white objects, all the white ones of S among them.
LEMMA Painting ==
    ASSUME TypeOK, NEW S \in SUBSET Ref
    PROVE  /\ \A o \in Obj :
                 \/ o \notin Marked(S) /\ ColorsAfterMarking(S)[o] = color[o]
                 \/ o \in Marked(S) /\ IsWhite(o) /\ ColorsAfterMarking(S)[o] = ColorMarked(o)
           /\ \A o \in S : o # Nil /\ IsWhite(o) => o \in Marked(S)
           /\ \A o \in Obj : ColorMarked(o) \in {"gray", "black"}
           /\ \A o \in Listed : ColorMarked(o) = "gray"
           /\ \A u \in UpVal : IsOpen(u) => ColorMarked(u) = "gray"
<1>1. \A o \in Marked(S) : IsWhite(o)
  BY MarkedWhite
<1>2. \A o \in Obj : ColorsAfterMarking(S)[o] = IF o \in Marked(S) THEN ColorMarked(o) ELSE color[o]
  BY DEF ColorsAfterMarking
<1>3. \A o \in S : o # Nil /\ IsWhite(o) => o \in Marked(S)
  BY DEF Marked, Whites
<1>4. /\ \A o \in Obj : ColorMarked(o) \in {"gray", "black"}
      /\ \A o \in Listed : ColorMarked(o) = "gray"
      /\ \A u \in UpVal : IsOpen(u) => ColorMarked(u) = "gray"
  BY Kinds, DisjointAssumption DEF ColorMarked
<1> QED BY <1>1, <1>2, <1>3, <1>4

-----------------------------------------------------------------------------
(* What a step of the program does to the colours *)

\* What an allocation may turn white: a free block, or a string that is interned again.
Fresh(o) == color[o] = "free" \/ (o \in Str /\ ~Live(o))

\* The ways a step of the program recolours an object: it may be allocated, whitened
\* behind the sweep, marked by a barrier, turned back by a barrier, or be an upvalue
\* that is closed while marking.
Recolor(o) ==
    \/ color'[o] = color[o]
    \/ color'[o] = currentwhite /\ Fresh(o)
    \/ color'[o] = currentwhite /\ ~KeepInvariant /\ color[o] \in {"gray", "black"}
    \/ color'[o] = ColorMarked(o) /\ KeepInvariant /\ IsWhite(o)
    \/ color'[o] = "gray" /\ color[o] = "black" /\ o \in Listed
    \/ color'[o] = "black" /\ color[o] = "gray" /\ o \in UpVal /\ KeepInvariant /\ ~IsOpen(o)'

\* The lists follow the colours.
Requeue ==
    /\ gray' = gray \cup {o \in Listed : IsWhite(o) /\ color'[o] = "gray"}
    /\ grayagain' = grayagain \cup {o \in Listed : color[o] = "black" /\ color'[o] = "gray"}
    /\ weak' = weak

Recolored == color' \in [Obj -> Colors] /\ (\A o \in Obj : Recolor(o)) /\ Requeue

LEMMA RecolorNothing ==
    ASSUME TypeOK, UNCHANGED <<color, gray, grayagain, weak>>
    PROVE  Recolored
BY Whitenesses DEF Recolored, Recolor, Requeue, IsWhite, White, TypeOK

LEMMA RecolorAllocated ==
    ASSUME TypeOK, NEW A \in SUBSET Obj, \A o \in A : Fresh(o),
           color' = [o \in Obj |-> IF o \in A THEN currentwhite ELSE color[o]],
           UNCHANGED <<gray, grayagain, weak>>
    PROVE  Recolored
<1>1. color' \in [Obj -> Colors]
  BY DEF TypeOK, White, Colors
<1>2. \A o \in Obj : Recolor(o)
  BY DEF Recolor
<1>3. \A o \in Listed : (IsWhite(o) \/ color[o] = "black") => color'[o] # "gray"
  BY Whitenesses, Constants DEF IsWhite
<1> QED BY <1>1, <1>2, <1>3 DEF Recolored, Requeue

LEMMA RecolorNew ==
    ASSUME TypeOK, NEW o \in Obj, Fresh(o),
           color' = [color EXCEPT ![o] = currentwhite],
           UNCHANGED <<gray, grayagain, weak>>
    PROVE  Recolored
<1>1. color' = [x \in Obj |-> IF x \in {o} THEN currentwhite ELSE color[x]]
  BY DEF TypeOK
<1>2. {o} \in SUBSET Obj
  OBVIOUS
<1>3. \A x \in {o} : Fresh(x)
  OBVIOUS
<1> QED BY <1>1, <1>2, <1>3, RecolorAllocated

LEMMA RecolorMarked ==
    ASSUME TypeOK, KeepInvariant, NEW S \in SUBSET Ref,
           color' = ColorsAfterMarking(S), gray' = GrayAfterMarking(S),
           UNCHANGED <<grayagain, weak>>
    PROVE  Recolored
<1>1. color' \in [Obj -> Colors]
  BY MarkingType
<1>2. \A o \in Obj : \/ o \notin Marked(S) /\ color'[o] = color[o]
                     \/ o \in Marked(S) /\ IsWhite(o) /\ color'[o] = ColorMarked(o)
  BY Painting
<1>3. \A o \in Obj : Recolor(o)
  BY <1>2 DEF Recolor
<1>4. \A o \in Listed : IsWhite(o) /\ color'[o] = "gray" <=> o \in Marked(S)
  BY <1>2, Painting, Constants, Whitenesses DEF IsWhite
<1>5. \A o \in Listed : ~(color[o] = "black" /\ color'[o] = "gray")
  BY <1>2, Constants, Whitenesses DEF IsWhite
<1>6. gray' = gray \cup {o \in Listed : IsWhite(o) /\ color'[o] = "gray"}
  BY <1>4 DEF GrayAfterMarking
<1> QED BY <1>1, <1>3, <1>5, <1>6 DEF Recolored, Requeue

LEMMA RecolorBarrier ==
    ASSUME TypeOK, NEW o \in Obj, NEW v \in Ref, Barrier(o, v), UNCHANGED <<grayagain, weak>>
    PROVE  Recolored
<1>1. CASE UNCHANGED <<color, gray>>
  BY <1>1, RecolorNothing
<1>2. CASE KeepInvariant /\ color' = ColorsAfterMarking({v}) /\ gray' = GrayAfterMarking({v})
  BY <1>2, RecolorMarked
<1>3. CASE /\ ~KeepInvariant /\ color[o] = "black"
           /\ color' = [color EXCEPT ![o] = currentwhite] /\ UNCHANGED gray
  <2>1. \A x \in Obj : color'[x] = IF x = o THEN currentwhite ELSE color[x]
    BY <1>3 DEF TypeOK
  <2>2. color' \in [Obj -> Colors]
    BY <1>3 DEF TypeOK, White, Colors
  <2>3. \A x \in Listed : (IsWhite(x) \/ color[x] = "black") => color'[x] # "gray"
    BY <2>1, Whitenesses, Constants DEF IsWhite
  <2>4. \A x \in Obj : Recolor(x)
    BY <1>3, <2>1 DEF Recolor
  <2>5. Requeue
    BY <1>3, <2>3 DEF Requeue
  <2> QED BY <2>2, <2>4, <2>5 DEF Recolored
<1> QED BY <1>1, <1>2, <1>3 DEF Barrier

LEMMA RecolorBack ==
    ASSUME TypeOK, NEW o \in Listed, color[o] = "black", BarrierBack(o), UNCHANGED weak
    PROVE  Recolored
<1>1. o \in Obj /\ color' = [color EXCEPT ![o] = "gray"]
  BY Constants DEF BarrierBack
<1>2. \A x \in Obj : color'[x] = IF x = o THEN "gray" ELSE color[x]
  BY <1>1 DEF TypeOK
<1>3. color' \in [Obj -> Colors]
  BY <1>1 DEF TypeOK, Colors
<1>4. \A x \in Obj : Recolor(x)
  BY <1>2 DEF Recolor
<1>5. {x \in Listed : color[x] = "black" /\ color'[x] = "gray"} = {o}
  BY <1>2, Constants
<1>6. {x \in Listed : IsWhite(x) /\ color'[x] = "gray"} = {}
  BY <1>2, Whitenesses, Constants DEF IsWhite
<1>7. Requeue
  BY <1>5, <1>6 DEF Requeue, BarrierBack
<1> QED BY <1>3, <1>4, <1>7 DEF Recolored

LEMMA RecolorTableBarrier ==
    ASSUME TypeOK, NEW t \in Table, NEW S \in SUBSET Ref, TableBarrier(t, S), UNCHANGED weak
    PROVE  Recolored
<1>1. CASE UNCHANGED <<color, gray, grayagain>>
  BY <1>1, RecolorNothing
<1>2. CASE /\ gcstate = "propagateagain" /\ color' = ColorsAfterMarking(S)
           /\ gray' = GrayAfterMarking(S) /\ UNCHANGED grayagain
  BY <1>2, RecolorMarked DEF KeepInvariant
<1>3. CASE color[t] = "black" /\ BarrierBack(t)
  BY <1>3, RecolorBack, Kinds
<1> QED BY <1>1, <1>2, <1>3 DEF TableBarrier

LEMMA RecolorThreadBarrier ==
    ASSUME TypeOK, NEW th \in Thread, ThreadBarrier(th), UNCHANGED weak
    PROVE  Recolored /\ color'[th] # "black"
<1>1. th \in Listed /\ th \in Obj
  BY Kinds, Constants
<1>2. CASE color[th] = "black"
  BY <1>1, <1>2, RecolorBack DEF ThreadBarrier, BarrierBack, TypeOK
<1>3. CASE color[th] # "black"
  BY <1>3, RecolorNothing DEF ThreadBarrier
<1> QED BY <1>2, <1>3

LEMMA RecolorClosing ==
    ASSUME TypeOK, NEW S \in SUBSET UpVal, Closing(S), UNCHANGED <<grayagain, weak>>
    PROVE  Recolored
<1> DEFINE S1 == {u \in S : color[u] = "gray"}
           values == {UvValue(u) : u \in S1}
<1>1. color' \in [Obj -> Colors]
  BY ClosingType
<1>2. \A u \in S1 : u \in UpVal /\ color[u] = "gray" /\ ~IsOpen(u)'
  BY DEF Closing, IsOpen
<1>3. values \in SUBSET Ref
  BY UvValueType
<1>4. CASE KeepInvariant
  <2>1. /\ color' = [o \in Obj |-> IF o \in S1 THEN "black" ELSE ColorsAfterMarking(values)[o]]
        /\ gray' = GrayAfterMarking(values)
    BY <1>4 DEF Closing
  <2> HIDE DEF values, S1
  <2>2. \A o \in Obj : \/ o \in S1 /\ color'[o] = "black"
                       \/ o \notin S1 /\ o \notin Marked(values) /\ color'[o] = color[o]
                       \/ /\ o \notin S1 /\ o \in Marked(values)
                          /\ IsWhite(o) /\ color'[o] = ColorMarked(o)
    BY <1>3, <2>1, Painting
  <2>3. \A o \in Obj : Recolor(o)
    BY <1>2, <1>4, <2>2 DEF Recolor
  <2>4. \A o \in Listed : o \notin S1
    BY <1>2, Kinds
  <2>5. \A o \in Marked(values) : IsWhite(o)
    BY <1>3, MarkedWhite
  <2>6. \A o \in Listed : IsWhite(o) /\ color'[o] = "gray" <=> o \in Marked(values)
    BY <1>3, <2>2, <2>4, <2>5, Painting, Constants, Whitenesses DEF IsWhite
  <2>7. \A o \in Listed : ~(color[o] = "black" /\ color'[o] = "gray")
    BY <2>2, <2>4, Constants, Whitenesses DEF IsWhite
  <2>8. gray' = gray \cup {o \in Listed : IsWhite(o) /\ color'[o] = "gray"}
    BY <2>1, <2>6 DEF GrayAfterMarking
  <2> QED BY <1>1, <2>3, <2>7, <2>8 DEF Recolored, Requeue
<1>5. CASE ~KeepInvariant
  <2>1. /\ color' = [o \in Obj |-> IF o \in S1 THEN currentwhite ELSE color[o]]
        /\ UNCHANGED gray
    BY <1>5 DEF Closing
  <2> HIDE DEF S1
  <2>2. \A o \in Obj : Recolor(o)
    BY <1>2, <1>5, <2>1 DEF Recolor
  <2>3. \A o \in Listed : (IsWhite(o) \/ color[o] = "black") => color'[o] # "gray"
    BY <2>1, Whitenesses, Constants DEF IsWhite
  <2> QED BY <1>1, <2>1, <2>2, <2>3 DEF Recolored, Requeue
<1> QED BY <1>4, <1>5

-----------------------------------------------------------------------------
(* Steps of the program *)

\* What a step of the program does to the rest of the state.
Upvals ==
    /\ markedopen' \subseteq markedopen
    /\ \A u \in UpVal : IsOpen(u)' =>
          \/ IsOpen(u)
          \/ color'[u] = currentwhite /\ u \notin markedopen'

Actives == \A th \in Thread : IsActive(th)' => IsActive(th) \/ color'[th] # "black"

Control == UNCHANGED <<currentwhite, gcstate, tosweep, pc, full>>

LEMMA SameUpvals ==
    ASSUME UNCHANGED <<upvars, markedopen>>
    PROVE  Upvals
BY DEF Upvals, IsOpen, upvars

LEMMA ClosingUpvals ==
    ASSUME TypeOK, NEW S \in SUBSET UpVal, Closing(S), UNCHANGED markedopen
    PROVE  Upvals
BY DEF Upvals, Closing, IsOpen, TypeOK

LEMMA SameActives ==
    ASSUME UNCHANGED from
    PROVE  Actives
BY DEF Actives, IsActive

LEMMA ProgramRecolors ==
    ASSUME TypeOK, ResumeChain, Program
    PROVE  (Recolored /\ Control /\ Upvals /\ Actives) \/ FullGC
<1>1. ASSUME NEW i \in Slot, NEW v \in Value \cup {Nil}, Load(i, v)
      PROVE  Recolored /\ Control /\ Upvals /\ Actives
  BY <1>1, RecolorNothing, SameUpvals, SameActives DEF Load, Control, execvars, lists, phase
<1>2. ASSUME NEW i \in Slot, NEW o \in Obj, NewObject(o, i) \/ NewString(o, i)
      PROVE  Recolored /\ Control /\ Upvals /\ Actives
  <2>1. /\ UNCHANGED <<execvars, upvars, gray, lists, phase>>
        /\ \/ UNCHANGED color
           \/ /\ Fresh(o)
              /\ color' = [color EXCEPT ![o] = currentwhite]
    BY <1>2 DEF NewObject, NewString, Fresh
  <2>2. CASE UNCHANGED color
    BY <2>1, <2>2, RecolorNothing, SameUpvals, SameActives DEF Control, execvars, lists, phase
  <2>3. CASE /\ Fresh(o)
             /\ color' = [color EXCEPT ![o] = currentwhite]
    <3>2. Recolored
      BY <2>1, <2>3, RecolorNew DEF lists, Fresh
    <3> QED BY <2>1, <3>2, SameUpvals, SameActives DEF Control, execvars, phase
  <2> QED BY <2>1, <2>2, <2>3
<1>3. ASSUME NEW i \in Slot, NEW f \in Func, NEW v \in Obj, NewClosure(f, i, v)
      PROVE  Recolored /\ Control /\ Upvals /\ Actives
  <2>1. f \in Obj /\ color[f] = "free"
    BY <1>3, Constants DEF NewClosure
  <2>2. color' = [color EXCEPT ![f] = currentwhite]
    BY <1>3 DEF NewClosure
  <2>3. UNCHANGED <<execvars, upvars, gray, lists, phase>>
    BY <1>3 DEF NewClosure
  <2>4. Recolored
    BY <2>1, <2>2, <2>3, RecolorNew DEF lists, Fresh
  <2> QED BY <2>3, <2>4, SameUpvals, SameActives DEF Control, execvars, phase
<1>4. ASSUME NEW i \in Slot, NEW f \in Func, NEW j \in Slot, NEW u \in UpVal,
             NewClosureOver(f, i, j, u)
      PROVE  Recolored /\ Control /\ Upvals /\ Actives
  <2>1. f \in Obj /\ u \in Obj /\ color[f] = "free" /\ UNCHANGED <<execvars, gray, lists>>
    BY <1>4, Constants DEF NewClosureOver
  <2>2. CASE color' = [color EXCEPT ![f] = currentwhite] /\ UNCHANGED <<upvars, phase>>
    <3>2. Recolored
      BY <2>1, <2>2, RecolorNew DEF lists, Fresh
    <3> QED BY <2>1, <2>2, <3>2, SameUpvals, SameActives DEF Control, execvars, phase
  <2>3. CASE /\ color[u] = "free"
             /\ color' = [color EXCEPT ![f] = currentwhite, ![u] = currentwhite]
             /\ owner' = [owner EXCEPT ![u] = cur]
             /\ markedopen' = markedopen \ {u}
             /\ UNCHANGED <<currentwhite, gcstate, tosweep, pc, full>>
    <3>1. color' = [x \in Obj |-> IF x \in {f, u} THEN currentwhite ELSE color[x]]
      BY <2>1, <2>3 DEF TypeOK
    <3>2. Recolored
      BY <2>1, <2>3, <3>1, RecolorAllocated, ZenonT(40) DEF lists, Fresh
    <3>3. Upvals
      BY <2>1, <2>3, <3>1, Constants DEF Upvals, IsOpen, TypeOK
    <3> QED BY <2>1, <2>3, <3>2, <3>3, SameActives DEF Control, execvars
  <2> QED BY <1>4, <2>2, <2>3 DEF NewClosureOver
<1>5. ASSUME NEW j \in Slot, CloseUpvals(j)
      PROVE  Recolored /\ Control /\ Upvals /\ Actives
  <2>1. PICK S \in SUBSET UpVal : Closing(S)
    BY <1>5 DEF CloseUpvals, OpenOf
  <2>2. UNCHANGED <<execvars, lists, phase>>
    BY <1>5 DEF CloseUpvals
  <2> QED BY <2>1, <2>2, RecolorClosing, ClosingUpvals, SameActives
          DEF Control, execvars, lists, phase
<1>6. CASE Call \/ Return
  BY <1>6, RecolorNothing, SameUpvals, SameActives DEF Call, Return, Control, lists, phase
<1>7. ASSUME NEW f \in Func, NEW v \in Value \cup {Nil}, SetCaptured(f, v) \/ SetUpval(f, v)
      PROVE  Recolored /\ Control /\ Upvals /\ Actives
  <2>1. PICK o \in Obj : Barrier(o, v)
    BY <1>7, Constants DEF SetCaptured, SetUpval
  <2>2. UNCHANGED <<execvars, upvars, lists, phase>>
    BY <1>7 DEF SetCaptured, SetUpval
  <2>3. v \in Ref
    BY ReadableType
  <2> QED BY <2>1, <2>2, <2>3, RecolorBarrier, SameUpvals, SameActives
          DEF Control, execvars, lists, phase
<1>8. ASSUME NEW t \in Table, NEW k \in Value \cup {Nil}, NEW v \in Value \cup {Nil},
             SetTable(t, k, v)
      PROVE  Recolored /\ Control /\ Upvals /\ Actives
  <2>1. k \in Ref /\ v \in Ref
    BY ReadableType
  <2>2. PICK S \in SUBSET Ref : TableBarrier(t, S)
    BY <1>8, <2>1 DEF SetTable
  <2>3. UNCHANGED <<execvars, upvars, weak, phase>>
    BY <1>8 DEF SetTable
  <2> QED BY <2>2, <2>3, RecolorTableBarrier, SameUpvals, SameActives DEF Control, execvars, phase
<1>9. ASSUME NEW o \in Table \cup Udata, NEW mt \in MetaTable \cup {Nil}, SetMetatable(o, mt)
      PROVE  Recolored /\ Control /\ Upvals /\ Actives
  <2>1. o \in Obj /\ mt \in Ref
    BY Constants DEF Ref
  <2> QED BY <1>9, <2>1, RecolorBarrier, SameUpvals, SameActives
          DEF SetMetatable, Control, execvars, lists, phase
<1>10. ASSUME NEW mt \in MetaTable \cup {Nil}, SetBasicMetatable(mt)
       PROVE  Recolored /\ Control /\ Upvals /\ Actives
  BY <1>10, RecolorNothing, SameUpvals, SameActives DEF SetBasicMetatable, Control, lists, phase
<1>11. ASSUME NEW mt \in MetaTable, NEW m \in Modes, SetMode(mt, m)
       PROVE  Recolored /\ Control /\ Upvals /\ Actives
  <2>1. mt \in Listed
    BY Constants, Kinds
  <2>2. Recolored
    BY <1>11, <2>1, RecolorBack, RecolorNothing DEF SetMode
  <2> QED BY <1>11, <2>2, SameUpvals, SameActives DEF SetMode, Control, phase
<1>12. ASSUME NEW co \in Thread, Resume(co)
       PROVE  Recolored /\ Control /\ Upvals /\ Actives
  <2>1. Recolored /\ color'[co] # "black"
    BY <1>12, RecolorThreadBarrier DEF Resume
  <2>2. Actives
    BY <1>12, <2>1 DEF Resume, Actives, IsActive, TypeOK
  <2> QED BY <1>12, <2>1, <2>2, SameUpvals DEF Resume, Control, phase
<1>13. CASE Yield
  <2>1. Actives
    BY <1>13 DEF Yield, Actives, IsActive, TypeOK
  <2> QED BY <1>13, <2>1, RecolorNothing, SameUpvals DEF Yield, Control, lists, phase
<1>14. ASSUME NEW th \in Thread, ResetThread(th)
       PROVE  Recolored /\ Control /\ Upvals /\ Actives
  <2>1. PICK S \in SUBSET UpVal : Closing(S)
    BY <1>14 DEF ResetThread, OpenOf
  <2>2. UNCHANGED <<from, lists, phase>>
    BY <1>14 DEF ResetThread
  <2> QED BY <2>1, <2>2, RecolorClosing, ClosingUpvals, SameActives DEF Control, lists, phase
<1>15. ASSUME NEW a \in Thread, NEW b \in Thread, XMove(a, b)
       PROVE  Recolored /\ Control /\ Upvals /\ Actives
  BY <1>15, RecolorThreadBarrier, SameUpvals, SameActives DEF XMove, Control, phase
<1> QED BY <1>1, <1>2, <1>3, <1>4, <1>5, <1>6, <1>7, <1>8, <1>9, <1>10, <1>11, <1>12, <1>13,
           <1>14, <1>15 DEF Program

\* Whatever a step of the program recolours, the invariant holds afterwards.
LEMMA RecoloredStep ==
    ASSUME ColorInv, TypeOK', Recolored, Control, Upvals, Actives
    PROVE  Phases' /\ OneWhite' /\ Swept' /\ OpenColors' /\ OpenBits' /\ OneList'
           /\ PauseClean' /\ NeverBlack'
<1>1. TypeOK
  BY DEF ColorInv
<1>2. /\ currentwhite' = currentwhite /\ gcstate' = gcstate /\ tosweep' = tosweep
      /\ pc' = pc /\ full' = full
      /\ KeepInvariant' = KeepInvariant
  BY DEF Control, KeepInvariant
<1>3. \A o \in Obj : Recolor(o)
  BY DEF Recolored
<1> DEFINE cw == currentwhite
           ow == Other(currentwhite)
<1>4. /\ cw # ow /\ {cw, ow} \cap {"free", "gray", "black"} = {}
      /\ \A o \in Obj : IsWhite(o) <=> color[o] \in {cw, ow}
      /\ \A o \in Obj : ColorMarked(o) \in {"gray", "black"}
  BY <1>1, Whitenesses, Kinds DEF IsWhite, ColorMarked
<1> HIDE DEF cw, ow
<1>5. Phases'
  BY <1>2 DEF ColorInv, Phases
<1>6. OneWhite'
  <2> SUFFICES ASSUME gcstate # "sweep", NEW o \in Obj
               PROVE  color'[o] # ow
    BY <1>2 DEF OneWhite, ow
  <2>1. color[o] # ow
    BY DEF ColorInv, OneWhite, ow
  <2> QED BY <1>3, <1>4, <2>1 DEF Recolor, Fresh, cw
<1>7. Swept'
  <2> SUFFICES ASSUME gcstate = "sweep", NEW o \in Obj \ {Main}, PageOf[o] \notin tosweep
               PROVE  color'[o] \in {"free", cw}
    BY <1>2 DEF Swept, cw
  <2>1. color[o] \in {"free", cw}
    BY DEF ColorInv, Swept, cw
  <2>2. ~KeepInvariant
    BY DEF KeepInvariant
  <2> QED BY <1>3, <1>4, <2>1, <2>2 DEF Recolor, Fresh, cw
<1>8. OpenColors'
  <2> SUFFICES ASSUME NEW u \in UpVal, IsOpen(u)'
               PROVE  color'[u] \in {cw, "gray"}
    BY <1>2 DEF OpenColors, cw
  <2>1. u \in Obj
    BY Constants
  <2>2. IsOpen(u) \/ color'[u] = cw
    BY DEF Upvals, cw
  <2>3. ASSUME IsOpen(u) PROVE color[u] \in {cw, "gray"} /\ ColorMarked(u) = "gray"
    BY <2>3, Kinds, DisjointAssumption DEF ColorInv, OpenColors, ColorMarked, cw
  <2> QED BY <1>3, <1>4, <2>1, <2>2, <2>3 DEF Recolor, Fresh, cw
<1>9. OpenBits'
  <2>1. ASSUME KeepInvariant, NEW u \in markedopen', IsOpen(u)'
        PROVE  color'[u] = "gray"
    <3>1. u \in UpVal /\ u \in Obj /\ u \in markedopen /\ IsOpen(u)
      BY <1>1, <2>1, Constants DEF Upvals, TypeOK
    <3>2. color[u] = "gray"
      BY <2>1, <3>1 DEF ColorInv, OpenBits
    <3>3. u \notin Str
      BY <3>1, Kinds
    <3> QED BY <1>3, <1>4, <2>1, <3>1, <3>2, <3>3 DEF Recolor, Fresh
  <2>2. ASSUME gcstate = "sweep", full # "finish", NEW u \in markedopen'
        PROVE  ~IsOpen(u)'
    BY <1>1, <2>2 DEF Upvals, TypeOK, ColorInv, OpenBits
  <2> QED BY <1>2, <2>1, <2>2 DEF OpenBits
<1>10. OneList'
  <2> SUFFICES ASSUME KeepInvariant
               PROVE  /\ {o \in Listed : color'[o] = "gray"} = gray' \cup grayagain' \cup weak'
                      /\ gray' \cap grayagain' = {}
                      /\ gray' \cap weak' = {}
                      /\ grayagain' \cap weak' = {}
    BY <1>2 DEF OneList
  <2>1. /\ {o \in Listed : color[o] = "gray"} = gray \cup grayagain \cup weak
        /\ gray \cap grayagain = {}
        /\ gray \cap weak = {}
        /\ grayagain \cap weak = {}
    BY DEF ColorInv, OneList
  <2>2. /\ gray' = gray \cup {o \in Listed : IsWhite(o) /\ color'[o] = "gray"}
        /\ grayagain' = grayagain \cup {o \in Listed : color[o] = "black" /\ color'[o] = "gray"}
        /\ weak' = weak
    BY DEF Recolored, Requeue
  <2>3. ASSUME NEW o \in Listed
        PROVE  /\ color[o] = "gray" => color'[o] = "gray"
               /\ color'[o] = "gray" => color[o] = "gray" \/ IsWhite(o) \/ color[o] = "black"
    <3>1. o \in Obj /\ o \notin Str /\ o \notin UpVal
      BY Constants, Kinds
    <3> QED BY <1>3, <1>4, <3>1 DEF Recolor, Fresh, cw
  <2>4. \A o \in Listed : color[o] = "gray" => ~IsWhite(o) /\ color[o] # "black"
    BY <1>4, Constants
  <2>5. \A o \in Listed : ~(IsWhite(o) /\ color[o] = "black")
    BY <1>4, Constants
  <2> QED BY <2>1, <2>2, <2>3, <2>4, <2>5
<1>11. PauseClean'
  <2> SUFFICES ASSUME gcstate = "pause"
               PROVE  /\ \A o \in Obj : color'[o] \in {"free", cw}
                      /\ full = "no" => \A u \in markedopen' : ~IsOpen(u)'
    BY <1>2 DEF PauseClean, cw
  <2>1. \A o \in Obj : color[o] \in {"free", cw}
    BY DEF ColorInv, PauseClean, cw
  <2>2. ~KeepInvariant
    BY DEF KeepInvariant
  <2>3. \A o \in Obj : color'[o] \in {"free", cw}
    BY <1>3, <1>4, <2>1, <2>2 DEF Recolor, Fresh, cw
  <2>4. full = "no" => \A u \in markedopen' : ~IsOpen(u)'
    BY <1>1 DEF Upvals, TypeOK, ColorInv, PauseClean
  <2> QED BY <2>3, <2>4
<1>12. \A th \in Thread : IsActive(th)' => color'[th] # "black"
  <2> SUFFICES ASSUME NEW th \in Thread, IsActive(th)', IsActive(th)
               PROVE  color'[th] # "black"
    BY DEF Actives
  <2>1. th \in Obj /\ th \notin UpVal /\ color[th] # "black"
    BY Constants, Kinds DEF ColorInv, NeverBlack
  <2>2. ColorMarked(th) = "gray"
    BY Kinds DEF ColorMarked
  <2> QED BY <1>3, <1>4, <2>1, <2>2 DEF Recolor, Fresh, cw
<1>13. NeverBlack'
  BY <1>2, <1>4, <1>8, <1>12 DEF OpenColors, NeverBlack, cw
<1> QED BY <1>5, <1>6, <1>7, <1>8, <1>9, <1>10, <1>11, <1>13

\* A full collection that interrupts a marking starts a sweep of every page in use.
LEMMA FullGCStep ==
    ASSUME ColorInv, FullGC
    PROVE  Phases' /\ OneWhite' /\ Swept' /\ OpenColors' /\ OpenBits' /\ OneList'
           /\ PauseClean' /\ NeverBlack'
<1>1. /\ UNCHANGED <<ref, execvars, upvars, color, currentwhite, markedopen, pc>>
      /\ full' = "finish" /\ pc = "none"
  BY DEF FullGC, Running
<1>2. OpenColors' /\ NeverBlack'
  BY <1>1 DEF ColorInv, OpenColors, NeverBlack, IsActive, IsOpen, execvars, upvars
<1>3. CASE KeepInvariant
  <2>1. gcstate' = "sweep" /\ tosweep' = UsedPages
    BY <1>3 DEF FullGC
  <2>2. Swept'
    BY <1>1, <2>1 DEF Swept, UsedPages
  <2> QED BY <1>1, <1>2, <2>1, <2>2
          DEF Phases, OneWhite, OpenBits, OneList, PauseClean, KeepInvariant
<1>4. CASE ~KeepInvariant
  <2>1. UNCHANGED <<gray, lists, tosweep, gcstate>>
    BY <1>4 DEF FullGC
  <2> QED BY <1>1, <1>2, <1>4, <2>1
          DEF ColorInv, Phases, OneWhite, Swept, OpenBits, OneList, PauseClean, KeepInvariant,
              IsOpen, upvars
<1> QED BY <1>3, <1>4

LEMMA ProgramStep ==
    ASSUME ColorInv, TypeOK', Program
    PROVE  Phases' /\ OneWhite' /\ Swept' /\ OpenColors' /\ OpenBits' /\ OneList'
           /\ PauseClean' /\ NeverBlack'
<1>1. TypeOK /\ ResumeChain
  BY DEF ColorInv
<1>2. CASE Recolored /\ Control /\ Upvals /\ Actives
  BY <1>2, RecoloredStep
<1>3. CASE FullGC
  BY <1>3, FullGCStep
<1> QED BY <1>1, <1>2, <1>3, ProgramRecolors

-----------------------------------------------------------------------------
(* Steps of the collector *)

\* Beginning a cycle, in a heap that is all white.
LEMMA MarkRootsStep ==
    ASSUME ColorInv, gcstate = "pause", MarkRoots,
           UNCHANGED <<execvars, upvars, currentwhite, tosweep, pc>>,
           full' \in {"no", "cycle"},
           \A u \in markedopen' : ~IsOpen(u)
    PROVE  Phases' /\ OneWhite' /\ Swept' /\ OpenColors' /\ OpenBits' /\ OneList'
           /\ PauseClean' /\ NeverBlack'
<1>1. TypeOK
  BY DEF ColorInv
<1>2. Roots \in SUBSET Ref
  BY <1>1, RootsType
<1>3. /\ color' = ColorsAfterMarking(Roots)
      /\ gray' = Marked(Roots) \cap Listed
      /\ grayagain' = {} /\ weak' = {} /\ gcstate' = "propagate"
  BY DEF MarkRoots
<1>4. \A o \in Obj : \/ o \notin Marked(Roots) /\ color'[o] = color[o]
                     \/ o \in Marked(Roots) /\ IsWhite(o) /\ color'[o] = ColorMarked(o)
  BY <1>1, <1>2, <1>3, Painting
<1>5. \A o \in Obj : color[o] \in {"free", currentwhite}
  BY DEF ColorInv, PauseClean
<1>6. /\ currentwhite \notin {"free", "gray", "black"}
      /\ Other(currentwhite) \notin {"free", "gray", "black", currentwhite}
  BY <1>1, Whitenesses
<1>7. /\ \A o \in Obj : ColorMarked(o) \in {"gray", "black"}
      /\ \A o \in Listed : ColorMarked(o) = "gray"
      /\ \A u \in UpVal : IsOpen(u) => ColorMarked(u) = "gray"
  BY <1>1, <1>2, Painting
<1>8. UNCHANGED <<owner, from, currentwhite>> /\ gcstate' = "propagate"
  BY <1>3 DEF execvars, upvars
<1>9. OneWhite'
  BY <1>4, <1>5, <1>6, <1>7, <1>8 DEF OneWhite
<1>10. OpenColors'
  BY <1>4, <1>7, <1>8, Constants DEF ColorInv, OpenColors, IsOpen
<1>11. OpenBits'
  BY <1>8 DEF OpenBits, IsOpen
<1>12. {o \in Listed : color'[o] = "gray"} = gray'
  <2>1. \A o \in Listed : color'[o] = "gray" <=> o \in Marked(Roots)
    BY <1>4, <1>5, <1>6, <1>7, Constants
  <2> QED BY <1>3, <2>1
<1>13. OneList'
  BY <1>3, <1>12 DEF OneList
<1>14. NeverBlack'
  <2>1. \A th \in Thread : color'[th] # "black"
    BY <1>4, <1>5, <1>6, <1>7, Constants, Kinds
  <2> QED BY <1>6, <1>8, <1>10, <2>1 DEF OpenColors, NeverBlack
<1>15. Phases'
  BY <1>8 DEF ColorInv, Phases
<1>16. Swept' /\ PauseClean'
  BY <1>8 DEF Swept, PauseClean
<1> QED BY <1>9, <1>10, <1>11, <1>13, <1>14, <1>15, <1>16

\* Marking S and blackening some of the gray objects E keeps the colours in order.
LEMMA PaintingStep ==
    ASSUME ColorInv, KeepInvariant, NEW S \in SUBSET Ref, NEW E \in SUBSET Listed,
           UNCHANGED <<owner, from, currentwhite>>,
           \A o \in Obj \ E : color'[o] = ColorsAfterMarking(S)[o],
           \A o \in E : color[o] = "gray" /\ color'[o] \in {"gray", "black"},
           \A th \in E \cap Thread : IsActive(th) => color'[th] = "gray"
    PROVE  /\ OneWhite' /\ OpenColors' /\ NeverBlack'
           /\ \A u \in UpVal : IsOpen(u) /\ color[u] = "gray" => color'[u] = "gray"
           /\ \A u \in UpVal \cap S : IsOpen(u) => color'[u] = "gray"
           /\ \A o \in Listed : color'[o] = "gray"
                 <=> (color[o] = "gray" /\ (o \in E => color'[o] = "gray")) \/ o \in Marked(S)
<1>1. TypeOK /\ gcstate # "sweep" /\ \A o \in Obj : color[o] # Other(currentwhite)
  BY DEF ColorInv, OneWhite, KeepInvariant
<1>2. /\ currentwhite \notin {"free", "gray", "black"}
      /\ Other(currentwhite) \notin {"free", "gray", "black", currentwhite}
      /\ \A o \in Obj : IsWhite(o) <=> color[o] \in {currentwhite, Other(currentwhite)}
  BY <1>1, Whitenesses DEF IsWhite
<1>3. \A o \in Obj \ E : \/ o \notin Marked(S) /\ color'[o] = color[o]
                         \/ o \in Marked(S) /\ IsWhite(o) /\ color'[o] = ColorMarked(o)
  BY <1>1, Painting
<1>4. /\ \A o \in Obj : ColorMarked(o) \in {"gray", "black"}
      /\ \A o \in Listed : ColorMarked(o) = "gray"
      /\ \A u \in UpVal : IsOpen(u) => ColorMarked(u) = "gray"
      /\ \A o \in S : o # Nil /\ IsWhite(o) => o \in Marked(S)
      /\ \A o \in Marked(S) : IsWhite(o)
  BY <1>1, Painting, MarkedWhite
<1>5. OneWhite'
  <2>1. \A o \in Obj : color'[o] # Other(currentwhite)
    BY <1>1, <1>2, <1>3, <1>4
  <2> QED BY <2>1 DEF OneWhite
<1>6. \A u \in UpVal : u \in Obj \ E /\ u # Nil
  BY Constants, Kinds
<1>7. \A u \in UpVal : IsOpen(u) => color[u] \in {currentwhite, "gray"}
  BY DEF ColorInv, OpenColors
<1>8. OpenColors'
  <2>1. \A u \in UpVal : IsOpen(u) => color'[u] \in {currentwhite, "gray"}
    BY <1>3, <1>4, <1>6, <1>7
  <2> QED BY <2>1 DEF OpenColors, IsOpen
<1>9. \A u \in UpVal : IsOpen(u) /\ color[u] = "gray" => color'[u] = "gray"
  BY <1>2, <1>3, <1>4, <1>6
<1>10. \A u \in UpVal \cap S : IsOpen(u) => color'[u] = "gray"
  BY <1>2, <1>3, <1>4, <1>6, <1>7
<1>11. NeverBlack'
  <2>1. \A th \in Thread : IsActive(th) => color'[th] # "black"
    <3> SUFFICES ASSUME NEW th \in Thread, IsActive(th)
                 PROVE  color'[th] # "black"
      OBVIOUS
    <3>1. th \in Obj /\ th \in Listed /\ color[th] # "black"
      BY Constants, Kinds DEF ColorInv, NeverBlack
    <3> QED BY <1>3, <1>4, <3>1
  <2>2. \A u \in UpVal : IsOpen(u)' => color'[u] \notin {"black", "free"}
    BY <1>2, <1>8 DEF OpenColors
  <2> QED BY <2>1, <2>2 DEF NeverBlack, IsActive
<1>12. \A o \in Listed : color'[o] = "gray"
           <=> (color[o] = "gray" /\ (o \in E => color'[o] = "gray")) \/ o \in Marked(S)
  BY <1>2, <1>3, <1>4, Constants
<1> QED BY <1>5, <1>8, <1>9, <1>10, <1>11, <1>12

LEMMA PropagateStep ==
    ASSUME ColorInv, NEW o \in Obj, Propagate(o)
    PROVE  Phases' /\ OneWhite' /\ Swept' /\ OpenColors' /\ OpenBits' /\ OneList'
           /\ PauseClean' /\ NeverBlack'
<1> DEFINE S == Traced(o)
           marked == GrayAfterMarking(S) \ {o}
           isweak == o \in Table /\ WeakMode(o) # {}
           isactive == o \in Thread /\ IsActive(o)
           again == IF isactive THEN grayagain \cup {o} ELSE grayagain
<1>1. /\ TypeOK /\ Phases
      /\ o \in gray /\ o \in Listed
  BY DEF ColorInv, TypeOK, Propagate
<1>2. KeepInvariant /\ KeepInvariant' /\ gcstate' \in {"propagate", "propagateagain", "atomic"}
      /\ (pc # "none" => gcstate = "atomic" /\ gcstate' = "atomic")
  BY <1>1 DEF Propagate, KeepInvariant, Phases
<1>3. S \in SUBSET Ref
  BY <1>1, TracedType
<1>4. color[o] = "gray"
  BY <1>1, <1>2 DEF ColorInv, OneList
<1>5. /\ UNCHANGED <<execvars, upvars, currentwhite, tosweep, pc, full>>
      /\ markedopen' = IF o \in Thread THEN markedopen \cup OpenOf(o) ELSE markedopen
      /\ weak' = IF isweak THEN weak \cup {o} ELSE weak
      /\ \/ gray' = again /\ grayagain' = {} /\ marked = {}
         \/ gray' = marked /\ grayagain' = again
  BY DEF Propagate
<1>6. color' = [ColorsAfterMarking(S) EXCEPT ![o] = IF isweak \/ isactive THEN "gray" ELSE "black"]
  BY DEF Propagate
<1> HIDE DEF S, isweak, isactive
<1>7. /\ \A x \in Obj \ {o} : color'[x] = ColorsAfterMarking(S)[x]
      /\ color'[o] = IF isweak \/ isactive THEN "gray" ELSE "black"
  BY <1>1, <1>3, <1>6, MarkingType
<1>8. /\ UNCHANGED <<owner, from, currentwhite>>
      /\ \A x \in Obj : IsOpen(x)' = IsOpen(x)
  BY <1>5 DEF execvars, upvars, IsOpen
<1> DEFINE E == {o}
<1>9. /\ E \in SUBSET Listed
      /\ \A x \in Obj \ E : color'[x] = ColorsAfterMarking(S)[x]
      /\ \A x \in E : color[x] = "gray" /\ color'[x] \in {"gray", "black"}
      /\ \A th \in E \cap Thread : IsActive(th) => color'[th] = "gray"
  BY <1>1, <1>4, <1>7 DEF isactive
<1>10. /\ OneWhite' /\ OpenColors' /\ NeverBlack'
       /\ \A u \in UpVal : IsOpen(u) /\ color[u] = "gray" => color'[u] = "gray"
       /\ \A u \in UpVal \cap S : IsOpen(u) => color'[u] = "gray"
       /\ \A x \in Listed : color'[x] = "gray"
              <=> (color[x] = "gray" /\ (x \in E => color'[x] = "gray")) \/ x \in Marked(S)
  <2> HIDE DEF E
  <2> QED BY <1>2, <1>3, <1>8, <1>9, PaintingStep
<1>11. OpenBits'
  <2>1. \A u \in markedopen : u \in UpVal /\ (IsOpen(u) => color[u] = "gray")
    BY <1>1, <1>2 DEF ColorInv, OpenBits, TypeOK
  <2>2. o \in Thread => OpenOf(o) \subseteq UpVal \cap S
    BY Kinds DEF S, Traced, OpenOf
  <2>3. \A u \in markedopen' : IsOpen(u) => color'[u] = "gray"
    BY <1>5, <1>10, <2>1, <2>2
  <2>4. \A u \in markedopen' : u \in UpVal
    BY <1>5, <2>1, <2>2
  <2> QED BY <1>2, <1>8, <2>3, <2>4, Constants DEF OpenBits
<1>12. OneList'
  <2>1. /\ {x \in Listed : color[x] = "gray"} = gray \cup grayagain \cup weak
        /\ gray \cap grayagain = {} /\ gray \cap weak = {} /\ grayagain \cap weak = {}
    BY <1>2 DEF ColorInv, OneList
  <2>2. \A x \in Marked(S) : x \in Obj /\ color[x] # "gray"
    BY <1>1, <1>3, MarkedWhite DEF IsWhite, White
  <2>3. marked = (gray \cup (Marked(S) \cap Listed)) \ {o}
    BY DEF GrayAfterMarking
  <2>4. \A x \in Listed : color'[x] = "gray"
           <=> (color[x] = "gray" /\ (x = o => isweak \/ isactive)) \/ x \in Marked(S)
    BY <1>7, <1>10
  <2>5. ~(isweak /\ isactive)
    BY Kinds DEF isweak, isactive
  <2>6. o \notin grayagain /\ o \notin weak
    BY <1>1, <2>1
  <2>7. /\ {x \in Listed : color'[x] = "gray"} = marked \cup again \cup weak'
        /\ marked \cap again = {} /\ marked \cap weak' = {} /\ again \cap weak' = {}
    <3>1. \A x \in Listed : color[x] = "gray" <=> x \in gray \cup grayagain \cup weak
      BY <2>1
    <3>2. \A x \in Marked(S) \cap Listed : x \notin gray \cup grayagain \cup weak
      BY <2>2, <3>1
    <3>3. weak' \subseteq Listed /\ marked \subseteq Listed /\ again \subseteq Listed
      BY <1>1, <1>5, <2>3, Kinds DEF TypeOK
    <3>4. \A x \in Listed : color'[x] = "gray" <=> x \in marked \cup again \cup weak'
      BY <1>1, <1>5, <2>2, <2>3, <2>4, <2>6, <3>1
    <3>5. {x \in Listed : color'[x] = "gray"} = marked \cup again \cup weak'
      BY <3>3, <3>4
    <3>6. marked \cap again = {} /\ marked \cap weak' = {}
      BY <1>5, <2>1, <2>3, <3>2
    <3>7. again \cap weak' = {}
      BY <1>5, <2>1, <2>5, <2>6
    <3> QED BY <3>5, <3>6, <3>7
  <2> HIDE DEF marked, again
  <2>8. /\ {x \in Listed : color'[x] = "gray"} = gray' \cup grayagain' \cup weak'
        /\ gray' \cap grayagain' = {} /\ gray' \cap weak' = {} /\ grayagain' \cap weak' = {}
    BY <1>5, <2>7
  <2> QED BY <2>8 DEF OneList
<1>13. Phases' /\ Swept' /\ PauseClean'
  BY <1>1, <1>2, <1>5 DEF Phases, Swept, PauseClean
<1> QED BY <1>10, <1>11, <1>12, <1>13

\* The steps of the atomic phase before the last, which may mark S and move the lists.
LEMMA AtomicStep ==
    ASSUME ColorInv, gcstate = "atomic", gcstate' = "atomic", NEW S \in SUBSET Ref,
           color' = ColorsAfterMarking(S),
           UNCHANGED <<execvars, upvars, currentwhite, markedopen, tosweep, full>>,
           gray' \cup grayagain' \cup weak' = gray \cup grayagain \cup weak \cup (Marked(S) \cap Listed),
           gray' \cap grayagain' = {}, gray' \cap weak' = {}, grayagain' \cap weak' = {}
    PROVE  Phases' /\ OneWhite' /\ Swept' /\ OpenColors' /\ OpenBits' /\ OneList'
           /\ PauseClean' /\ NeverBlack'
<1>1. TypeOK /\ KeepInvariant
  BY DEF ColorInv, KeepInvariant
<1>2. UNCHANGED <<owner, from, currentwhite>> /\ \A x : IsOpen(x)' = IsOpen(x)
  BY DEF execvars, upvars, IsOpen
<1> DEFINE E == {}
<1>3. /\ E \in SUBSET Listed
      /\ \A x \in Obj \ E : color'[x] = ColorsAfterMarking(S)[x]
      /\ \A x \in E : color[x] = "gray" /\ color'[x] \in {"gray", "black"}
      /\ \A th \in E \cap Thread : IsActive(th) => color'[th] = "gray"
  OBVIOUS
<1>4. /\ OneWhite' /\ OpenColors' /\ NeverBlack'
      /\ \A u \in UpVal : IsOpen(u) /\ color[u] = "gray" => color'[u] = "gray"
      /\ \A x \in Listed : color'[x] = "gray"
             <=> (color[x] = "gray" /\ (x \in E => color'[x] = "gray")) \/ x \in Marked(S)
  <2> HIDE DEF E
  <2> QED BY <1>1, <1>2, <1>3, PaintingStep
<1>5. OpenBits'
  BY <1>1, <1>2, <1>4 DEF ColorInv, OpenBits, TypeOK
<1>6. OneList'
  <2>1. {x \in Listed : color[x] = "gray"} = gray \cup grayagain \cup weak
    BY <1>1 DEF ColorInv, OneList
  <2>2. {x \in Listed : color'[x] = "gray"} = gray' \cup grayagain' \cup weak'
    BY <1>4, <2>1
  <2> QED BY <2>2 DEF OneList
<1>7. Phases' /\ Swept' /\ PauseClean'
  BY DEF ColorInv, Phases, Swept, PauseClean, KeepInvariant
<1> QED BY <1>4, <1>5, <1>6, <1>7

LEMMA MarkNothing ==
    ASSUME TypeOK
    PROVE  Marked({}) = {} /\ color = ColorsAfterMarking({})
<1>1. Whites({}) = {} /\ Immediate({}) = {}
  BY DEF Whites, Immediate
<1>2. Marked({}) = {}
  BY <1>1 DEF Marked
<1> QED BY <1>2 DEF ColorsAfterMarking, TypeOK

\* The flip: the marked objects survive, what is left in the lists does not matter.
LEMMA AtomicFinishStep ==
    ASSUME ColorInv, AtomicFinish
    PROVE  Phases' /\ OneWhite' /\ Swept' /\ OpenColors' /\ OpenBits' /\ OneList'
           /\ PauseClean' /\ NeverBlack'
<1> DEFINE closed == {u \in Orphans : ~IsWhite(u)}
           S == WeakStrings \cup {UvValue(u) : u \in closed}
<1>1. TypeOK /\ Phases
  BY DEF ColorInv
<1>2. /\ pc = "again" /\ pc' = "none" /\ gcstate' = "sweep"
      /\ gcstate = "atomic" /\ KeepInvariant
      /\ currentwhite' = Other(currentwhite)
      /\ tosweep' = UsedPages
      /\ UNCHANGED <<from, full>>
  BY <1>1 DEF AtomicFinish, Phases, execvars, KeepInvariant
<1>3. closed \subseteq UpVal /\ Orphans \subseteq UpVal
  BY DEF Orphans
<1>4. S \in SUBSET Ref
  BY <1>1, <1>3, UvValueType, Constants DEF WeakStrings, Ref
<1>5. color' = [o \in Obj |-> IF o \in closed THEN "black" ELSE ColorsAfterMarking(S)[o]]
  BY DEF AtomicFinish
<1>6. \A u \in UpVal : IsOpen(u)' => IsOpen(u) /\ u \in markedopen /\ u \notin closed
  BY <1>1 DEF AtomicFinish, IsOpen, Orphans, TypeOK
<1> HIDE DEF S, closed
<1>7. \A o \in Obj \ closed : \/ o \notin Marked(S) /\ color'[o] = color[o]
                              \/ o \in Marked(S) /\ IsWhite(o) /\ color'[o] = ColorMarked(o)
  BY <1>1, <1>4, <1>5, Painting
<1>8. \A u \in UpVal : IsOpen(u)' => color'[u] = "gray"
  <2> SUFFICES ASSUME NEW u \in UpVal, IsOpen(u)' PROVE color'[u] = "gray"
    OBVIOUS
  <2>1. u \in Obj \ closed /\ color[u] = "gray"
    BY <1>2, <1>6, Constants DEF ColorInv, OpenBits
  <2> QED BY <1>7, <2>1 DEF IsWhite, White
<1>9. OpenColors'
  BY <1>8 DEF OpenColors
<1>10. Swept'
  <2>0. \A u \in closed : color[u] # "free"
    BY <1>1, Whitenesses DEF ColorInv, OpenColors, closed, Orphans
  <2>1. \A o \in Obj : color'[o] = "free" \/ color[o] # "free"
    BY <1>7, <2>0 DEF IsWhite, White
  <2>2. \A o \in Obj \ {Main} : color[o] # "free" => PageOf[o] \in tosweep'
    BY <1>2 DEF UsedPages
  <2> QED BY <2>1, <2>2 DEF Swept
<1>11. OpenBits'
  <2>1. markedopen' = {u \in markedopen : ~IsOpen(u)}
    BY DEF AtomicFinish
  <2>2. \A u \in markedopen' : u \in UpVal /\ ~IsOpen(u)'
    BY <1>1, <1>6, <2>1 DEF TypeOK
  <2> QED BY <1>2, <2>2 DEF OpenBits, KeepInvariant
<1>12. NeverBlack'
  <2>1. \A th \in Thread : IsActive(th) => color'[th] # "black"
    <3> SUFFICES ASSUME NEW th \in Thread, IsActive(th) PROVE color'[th] # "black"
      OBVIOUS
    <3>1. th \in Obj \ closed /\ color[th] # "black"
      BY <1>3, Constants, Kinds DEF ColorInv, NeverBlack
    <3>2. ColorMarked(th) = "gray"
      BY <1>1, <1>4, Painting, Kinds
    <3> QED BY <1>7, <3>1, <3>2
  <2> QED BY <1>2, <1>8, <2>1 DEF NeverBlack, IsActive
<1>13. Phases' /\ OneWhite' /\ OneList' /\ PauseClean'
  BY <1>1, <1>2 DEF Phases, OneWhite, OneList, PauseClean, KeepInvariant
<1> QED BY <1>9, <1>10, <1>11, <1>12, <1>13

LEMMA SweepStep ==
    ASSUME ColorInv, NEW p \in Page, Sweep(p)
    PROVE  Phases' /\ OneWhite' /\ Swept' /\ OpenColors' /\ OpenBits' /\ OneList'
           /\ PauseClean' /\ NeverBlack'
<1> DEFINE last == tosweep = {p}
<1>1. TypeOK /\ Phases
  BY DEF ColorInv
<1>2. /\ gcstate = "sweep" /\ p \in tosweep /\ tosweep' = tosweep \ {p}
      /\ gcstate' = (IF last THEN "pause" ELSE "sweep")
      /\ full' = (IF last /\ full = "cycle" THEN "no" ELSE full)
      /\ markedopen' \subseteq markedopen
      /\ pc' = pc /\ pc = "none"
      /\ UNCHANGED <<owner, from, currentwhite>>
  BY <1>1 DEF Sweep, upvars, Phases
<1>3. /\ \A o \in Obj : color'[o] = IF o \in InPage(p) THEN SweptColor(o)
                                   ELSE IF last /\ o = Main THEN currentwhite
                                   ELSE color[o]
      /\ \A u : IsOpen(u)' = IsOpen(u)
  BY <1>2 DEF Sweep, IsOpen
<1>4. /\ currentwhite \notin {"free", "gray", "black"}
      /\ Other(currentwhite) \notin {"free", "gray", "black", currentwhite}
  BY <1>1, Whitenesses
<1>5. \A o : SweptColor(o) \in {"free", currentwhite}
  BY DEF SweptColor
<1>6. \A o \in Obj \ {Main} : \/ color'[o] \in {"free", currentwhite}
                              \/ PageOf[o] \in tosweep'
  <2> SUFFICES ASSUME NEW o \in Obj \ {Main}, PageOf[o] \notin tosweep'
               PROVE  color'[o] \in {"free", currentwhite}
    OBVIOUS
  <2>1. CASE o \in InPage(p)
    BY <1>3, <1>5, <2>1
  <2>2. CASE o \notin InPage(p)
    <3>1. color[o] = "free" \/ PageOf[o] \notin tosweep
      BY <1>2, <2>2 DEF InPage
    <3>2. color[o] \in {"free", currentwhite}
      BY <1>2, <3>1 DEF ColorInv, Swept
    <3> QED BY <1>3, <2>2, <3>2
  <2> QED BY <2>1, <2>2
<1>7. last => \A o \in Obj : color'[o] \in {"free", currentwhite}
  <2> SUFFICES ASSUME last, NEW o \in Obj PROVE color'[o] \in {"free", currentwhite}
    OBVIOUS
  <2>1. CASE o = Main
    BY <1>3, <2>1 DEF InPage
  <2>2. CASE o # Main
    BY <1>2, <1>6, <2>2
  <2> QED BY <2>1, <2>2
<1>8. Swept' /\ OneWhite'
  BY <1>2, <1>4, <1>6, <1>7 DEF Swept, OneWhite
<1>9. \A u \in UpVal : IsOpen(u) => color'[u] \in {currentwhite, "gray"}
  <2> SUFFICES ASSUME NEW u \in UpVal, IsOpen(u) PROVE color'[u] \in {currentwhite, "gray"}
    OBVIOUS
  <2>1. u \in Obj /\ color[u] \in {currentwhite, "gray"}
    BY Constants DEF ColorInv, OpenColors
  <2>2. SweptColor(u) = currentwhite
    BY <1>4, <2>1 DEF SweptColor, IsDead
  <2> QED BY <1>3, <2>1, <2>2
<1>10. OpenColors'
  BY <1>2, <1>3, <1>9 DEF OpenColors
<1>11. full # "finish" => \A u \in markedopen' : ~IsOpen(u)'
  BY <1>2, <1>3 DEF ColorInv, OpenBits
<1>12. OpenBits' /\ PauseClean'
  <2>1. full' # "finish" => full # "finish"
    BY <1>2
  <2> QED BY <1>2, <1>7, <1>11, <2>1 DEF OpenBits, PauseClean, KeepInvariant
<1>13. NeverBlack'
  <2>1. \A th \in Thread : IsActive(th) => color'[th] # "black"
    BY <1>3, <1>4, <1>5, Constants DEF ColorInv, NeverBlack
  <2> QED BY <1>2, <1>3, <1>4, <1>9, <2>1 DEF NeverBlack, IsActive
<1>14. Phases' /\ OneList'
  BY <1>1, <1>2 DEF Phases, OneList, KeepInvariant
<1> QED BY <1>8, <1>10, <1>12, <1>13, <1>14

LEMMA CollectorStep ==
    ASSUME ColorInv, Collector
    PROVE  Phases' /\ OneWhite' /\ Swept' /\ OpenColors' /\ OpenBits' /\ OneList'
           /\ PauseClean' /\ NeverBlack'
<1>1. TypeOK /\ Phases
  BY DEF ColorInv
<1>2. CASE StartCycle
  <2>1. \A u \in markedopen' : ~IsOpen(u)
    BY <1>2 DEF StartCycle, ColorInv, PauseClean
  <2> QED BY <1>2, <2>1, MarkRootsStep DEF StartCycle
<1>3. CASE \E o \in Obj : Propagate(o)
  BY <1>3, PropagateStep
<1>4. CASE AtomicUpvals
  <2> DEFINE S == {UvValue(u) : u \in GrayOpen}
  <2>1. S \in SUBSET Ref
    BY <1>1, UvValueType DEF GrayOpen
  <2>2. /\ color' = ColorsAfterMarking(S) /\ gray' = GrayAfterMarking(S)
        /\ gcstate = "atomic" /\ gcstate' = "atomic"
        /\ UNCHANGED <<execvars, upvars, grayagain, weak, currentwhite, markedopen, tosweep, full>>
    BY <1>4 DEF AtomicUpvals, lists
  <2> HIDE DEF S
  <2>3. /\ gray \cap grayagain = {} /\ gray \cap weak = {} /\ grayagain \cap weak = {}
        /\ {x \in Listed : color[x] = "gray"} = gray \cup grayagain \cup weak
    BY <2>2 DEF ColorInv, OneList, KeepInvariant
  <2>4. \A x \in Marked(S) : color[x] # "gray"
    BY <1>1, <2>1, MarkedWhite DEF IsWhite, White
  <2>5. /\ gray' \cup grayagain' \cup weak'
              = gray \cup grayagain \cup weak \cup (Marked(S) \cap Listed)
        /\ gray' \cap grayagain' = {} /\ gray' \cap weak' = {} /\ grayagain' \cap weak' = {}
    BY <2>2, <2>3, <2>4 DEF GrayAfterMarking
  <2> QED BY <2>1, <2>2, <2>5, AtomicStep
<1>5. CASE AtomicWeak
  <2> DEFINE S == LateRoots
  <2>1. S \in SUBSET Ref
    BY <1>1, RootsType
  <2>2. /\ color' = ColorsAfterMarking(S) /\ gray' = weak \cup (Marked(S) \cap Listed)
        /\ gray = {} /\ weak' = {}
        /\ gcstate = "atomic" /\ gcstate' = "atomic"
        /\ UNCHANGED <<execvars, upvars, grayagain, currentwhite, markedopen, tosweep, full>>
    BY <1>1, <1>5 DEF AtomicWeak, Phases
  <2> HIDE DEF S
  <2>3. /\ grayagain \cap weak = {}
        /\ {x \in Listed : color[x] = "gray"} = gray \cup grayagain \cup weak
    BY <2>2 DEF ColorInv, OneList, KeepInvariant
  <2>4. \A x \in Marked(S) : color[x] # "gray"
    BY <1>1, <2>1, MarkedWhite DEF IsWhite, White
  <2>5. /\ gray' \cup grayagain' \cup weak'
              = gray \cup grayagain \cup weak \cup (Marked(S) \cap Listed)
        /\ gray' \cap grayagain' = {} /\ gray' \cap weak' = {} /\ grayagain' \cap weak' = {}
    BY <2>2, <2>3, <2>4
  <2> QED BY <2>1, <2>2, <2>5, AtomicStep
<1>6. CASE AtomicAgain
  <2> DEFINE S == {}
  <2>1. S \in SUBSET Ref
    OBVIOUS
  <2>2. /\ color' = color /\ gray' = grayagain /\ gray = {} /\ grayagain' = {}
        /\ gcstate = "atomic" /\ gcstate' = "atomic"
        /\ UNCHANGED <<execvars, upvars, weak, currentwhite, markedopen, tosweep, full>>
    BY <1>1, <1>6 DEF AtomicAgain, Phases
  <2>3. grayagain \cap weak = {}
    BY <2>2 DEF ColorInv, OneList, KeepInvariant
  <2>4. color' = ColorsAfterMarking(S) /\ Marked(S) = {}
    BY <1>1, <2>2, MarkNothing
  <2> HIDE DEF S
  <2>5. /\ gray' \cup grayagain' \cup weak'
              = gray \cup grayagain \cup weak \cup (Marked(S) \cap Listed)
        /\ gray' \cap grayagain' = {} /\ gray' \cap weak' = {} /\ grayagain' \cap weak' = {}
    BY <2>2, <2>3, <2>4
  <2> QED BY <2>1, <2>2, <2>4, <2>5, AtomicStep
<1>7. CASE AtomicFinish
  BY <1>7, AtomicFinishStep
<1>8. CASE \E p \in Page : Sweep(p)
  BY <1>8, SweepStep
<1>9. CASE FullMark
  <2>1. \A u \in markedopen' : ~IsOpen(u)
    BY <1>9 DEF FullMark
  <2> QED BY <1>9, <2>1, MarkRootsStep DEF FullMark
<1> QED BY <1>2, <1>3, <1>4, <1>5, <1>6, <1>7, <1>8, <1>9 DEF Collector

-----------------------------------------------------------------------------

LEMMA InitColors ==
    ASSUME Init
    PROVE  ColorInv
<1>1. TypeOK /\ ResumeChain
  BY InitType
<1>2. OneWhite /\ PauseClean /\ NeverBlack
  BY Constants DEF Init, OneWhite, PauseClean, NeverBlack, Other, IsOpen
<1>3. Phases /\ Swept /\ OpenColors /\ OpenBits /\ OneList
  BY Constants DEF Init, Phases, Swept, OpenColors, OpenBits, OneList, KeepInvariant, IsOpen
<1> QED BY <1>1, <1>2, <1>3 DEF ColorInv

LEMMA ColorStep ==
    ASSUME ColorInv, [Next]_vars
    PROVE  ColorInv'
<1>1. TypeOK' /\ ResumeChain'
  BY TypeStep, ChainStep DEF ColorInv
<1>2. CASE Collector
  BY <1>1, <1>2, CollectorStep DEF ColorInv
<1>3. CASE Program
  BY <1>1, <1>3, ProgramStep DEF ColorInv
<1>4. CASE UNCHANGED vars
  BY <1>1, <1>4
  DEF ColorInv, Phases, OneWhite, Swept, OpenColors, OpenBits, OneList, PauseClean, NeverBlack,
      KeepInvariant, IsOpen, IsActive, vars, execvars, upvars, lists, phase
<1> QED BY <1>2, <1>3, <1>4 DEF Next

\* The colours and lists stay in order for ever.
THEOREM ColorsCorrect == Spec => []ColorInv
<1>1. Init => ColorInv
  BY InitColors
<1>2. ColorInv /\ [Next]_vars => ColorInv'
  BY ColorStep
<1> QED BY <1>1, <1>2, PTL DEF Spec

\* Every gray object with a gclist is in exactly one list while marking: no barrier and no
\* traversal corrupts the intrusive lists.
THEOREM OneListCorrect == Spec => []OneList
<1>1. ColorInv => OneList
  BY DEF ColorInv
<1> QED BY <1>1, ColorsCorrect, PTL

\* Every cycle, even one that a full collection interrupts, leaves the heap ready for the
\* next: everything white, no open upvalue with its bit set.
THEOREM PauseCleanCorrect == Spec => []PauseClean
<1>1. ColorInv => PauseClean
  BY DEF ColorInv
<1> QED BY <1>1, ColorsCorrect, PTL

\* The assertions of luau_execute and of the upvalue visitors: an active thread and an open
\* upvalue are never black, and an open upvalue is never freed.
THEOREM NeverBlackCorrect == Spec => []NeverBlack
<1>1. ColorInv => NeverBlack
  BY DEF ColorInv
<1> QED BY <1>1, ColorsCorrect, PTL

-----------------------------------------------------------------------------
(***************************************************************************)
(* The inductive invariant behind NoDangling, NoBlackToWhite and           *)
(* BlackThreads, and why the steps of the collector preserve it.  The parts*)
(* support one another: a reference of a black object is marked because it *)
(* was live when it was written or traversed, and a live object holds live *)
(* references after the atomic phase because everything it reaches was     *)
(* marked.                                                                 *)
(***************************************************************************)

(* The inductive invariant *)

NonWhite(x) == x = Nil \/ color[x] \in {"gray", "black"}

\* The values the code stores in field f of an object of the kind of o.
Fits(o, f, v) ==
    \/ v = Nil
    \/ o \in Table /\ f = MT /\ v \in MetaTable
    \/ o \in Table /\ f \in {KEY, VAL} /\ v \in Value
    \/ o \in Udata /\ f = MT /\ v \in MetaTable
    \/ o \in UpVal /\ f = VAL /\ v \in Value
    \/ o \in Func /\ f = CAP /\ v \in Obj
    \/ o \in Thread /\ f \in Slot /\ v \in Value

Shapes ==
    /\ \A o \in Obj : \A f \in Fld : Fits(o, f, ref[o][f])
    /\ \A u \in UpVal : IsOpen(u) => ref[u][VAL] = Nil

\* A block that is free holds nothing.
FreeEmpty == \A o \in Obj : color[o] = "free" => \A f \in Fld : ref[o][f] = Nil

\* Active threads are alive, in particular the one a yield continues, because the frame
\* that resumes a thread keeps it in a slot no closure can overwrite.
RootsLive ==
    /\ \A o \in Roots : o # Nil => Live(o)
    /\ \A th \in Thread : IsActive(th) => Live(th)
    /\ \A th \in Thread : from[th] # Nil => Keeps(from[th], th)

\* The fields of a live object refer to live objects, except the key of an empty node.
FieldsLive ==
    \A o \in Obj : Live(o) =>
        \A f \in Fld : \/ ref[o][f] = Nil
                       \/ Live(ref[o][f])
                       \/ o \in Table /\ f = KEY /\ ref[o][VAL] = Nil

\* The thread of an open upvalue is alive, and marked if it has claimed the upvalue.
OpenOwner ==
    \A u \in UpVal : IsOpen(u) =>
        /\ Live(owner[u])
        /\ KeepInvariant /\ u \in markedopen => NonWhite(owner[u])

\* While marking, an object without a gclist is gray only if it is an open upvalue.
GrayKinds ==
    KeepInvariant =>
        \A o \in Obj : color[o] = "gray" => o \in Listed \/ (o \in UpVal /\ IsOpen(o))

BlackObjects ==
    KeepInvariant =>
        \A o \in Obj \ Thread : color[o] = "black" => \A f \in Fld : NonWhite(ref[o][f])

BlackStacks ==
    KeepInvariant =>
        \A th \in Thread : color[th] = "black" =>
            /\ \A f \in Fld : NonWhite(ref[th][f]) \/ \E u \in OpenOf(th) : level[u] = f
            /\ \A u \in OpenOf(th) : color[u] = "gray" /\ u \in markedopen

\* What the stages of the atomic phase have achieved.
AtomicDone ==
    /\ pc # "none" => \A u \in UpVal : IsOpen(u) /\ color[u] = "gray" => NonWhite(UvValue(u))
    /\ pc \in {"weak", "again"} =>
          /\ \A t \in weak : NonWhite(ref[t][MT])
          /\ NonWhite(cur) /\ NonWhite(gmt)
    /\ pc = "again" =>
          \A o \in grayagain : o \in Thread /\ \A f \in Fld : NonWhite(ref[o][f])

RootsMarked == KeepInvariant => NonWhite(Main) /\ NonWhite(Registry)

\* The part of the invariant that LuaGCProofs does not prove.
RefInv ==
    /\ Shapes
    /\ FreeEmpty
    /\ RootsLive
    /\ FieldsLive
    /\ OpenOwner
    /\ GrayKinds
    /\ BlackObjects
    /\ BlackStacks
    /\ AtomicDone
    /\ RootsMarked

SafeInv == ColorInv /\ RefInv

-----------------------------------------------------------------------------
(* Colours and references *)

\* Outside of the sweep there are no dead objects.
LEMMA Lively ==
    ASSUME ColorInv, gcstate # "sweep"
    PROVE  \A o \in Obj : Live(o) <=> color[o] # "free"
BY DEF ColorInv, OneWhite, Live, IsDead

LEMMA LiveColors ==
    ASSUME TypeOK, NEW x \in Obj
    PROVE  /\ Live(x) => IsWhite(x) \/ NonWhite(x)
           /\ NonWhite(x) => Live(x) /\ ~IsWhite(x)
           /\ IsWhite(x) => color[x] # "free"
<1>1. x # Nil
  BY Constants
<1>2. color[x] \in {"free", "w0", "w1", "gray", "black"}
  BY DEF TypeOK, Colors
<1>3. Other(currentwhite) \in White
  BY Whitenesses
<1> QED BY <1>1, <1>2, <1>3 DEF Live, IsDead, IsWhite, NonWhite, White

\* The kinds that have a field, from the field's value.
LEMMA FitKinds ==
    ASSUME Shapes, NEW o \in Obj, NEW f \in Fld, ref[o][f] # Nil
    PROVE  /\ o \notin Str
           /\ o \in Udata => f = MT /\ ref[o][f] \in MetaTable
           /\ o \in UpVal => f = VAL /\ ref[o][f] \in Value
           /\ o \in Func => f = CAP
           /\ o \in Thread => f \in Slot /\ ref[o][f] \in Value
           /\ o \in Table => f \in {KEY, VAL, MT}
<1>1. Fits(o, f, ref[o][f])
  BY DEF Shapes
<1> QED BY <1>1, DisjointAssumption DEF Fits

\* The value of an upvalue is no upvalue; it is alive if the upvalue or its thread is.
LEMMA UvValues ==
    ASSUME ColorInv, RefInv, NEW u \in UpVal, Live(u)
    PROVE  /\ UvValue(u) \in Value \cup {Nil}
           /\ UvValue(u) = Nil \/ Live(UvValue(u))
<1>1. TypeOK /\ u \in Obj /\ VAL \in Fld /\ u \notin Table /\ u \in UpVal
  BY Constants, Kinds, DisjointAssumption DEF ColorInv
<1>2. CASE IsOpen(u)
  <2>1. owner[u] \in Thread /\ level[u] \in Fld /\ owner[u] \in Obj
    BY <1>1, <1>2, Constants DEF TypeOK, IsOpen
  <2>2. owner[u] \notin Table /\ Live(owner[u])
    BY <1>2, <2>1, Kinds DEF RefInv, OpenOwner
  <2>3. ref[owner[u]][level[u]] \in Value \cup {Nil}
    BY <2>1, FitKinds DEF RefInv
  <2>4. ref[owner[u]][level[u]] = Nil \/ Live(ref[owner[u]][level[u]])
    BY <2>1, <2>2 DEF RefInv, FieldsLive
  <2> QED BY <1>2, <2>3, <2>4 DEF UvValue
<1>3. CASE ~IsOpen(u)
  <2>1. ref[u][VAL] \in Value \cup {Nil}
    BY <1>1, FitKinds DEF RefInv
  <2>2. ref[u][VAL] = Nil \/ Live(ref[u][VAL])
    BY <1>1 DEF RefInv, FieldsLive
  <2> QED BY <1>3, <2>1, <2>2 DEF UvValue
<1> QED BY <1>2, <1>3

\* What marking marks at once is no upvalue.
LEMMA ImmediateValues ==
    ASSUME ColorInv, RefInv, NEW S \in SUBSET Obj, \A u \in S \cap UpVal : Live(u)
    PROVE  Immediate(S) \subseteq Value \cup {Nil}
<1>1. ASSUME NEW d \in S \cap Udata PROVE ref[d][MT] \in Value \cup {Nil}
  <2>1. d \in Obj /\ MT \in Fld
    BY Constants
  <2>2. MetaTable \subseteq Value
    BY Constants, DisjointAssumption DEF Value, Obj
  <2> QED BY <2>1, <2>2, FitKinds DEF RefInv
<1> QED BY <1>1, UvValues DEF Immediate

-----------------------------------------------------------------------------
(* What marking a set of live objects achieves *)

Shaded(C, x) == x = Nil \/ C[x] \in {"gray", "black"}

\* The colours C after marking S: what becomes black at once has only marked references,
\* and the value of every upvalue that was reached is marked.
Marking(C, S) ==
    /\ C \in [Obj -> Colors]
    /\ \A o \in Obj : ~IsWhite(o) => C[o] = color[o]
    /\ \A o \in Obj : IsWhite(o) => C[o] = color[o] \/ C[o] \in {"gray", "black"}
    /\ \A o \in S : Shaded(C, o)
    /\ \A o \in Obj : IsWhite(o) /\ C[o] = "black" =>
          o \notin Thread /\ \A f \in Fld : Shaded(C, ref[o][f])
    /\ \A o \in Obj : IsWhite(o) /\ C[o] = "gray" => o \in Listed \/ (o \in UpVal /\ IsOpen(o))
    /\ \A u \in UpVal : IsWhite(u) /\ Shaded(C, u) => u \in S /\ Shaded(C, UvValue(u))

LEMMA MarkingMarks ==
    ASSUME ColorInv, RefInv, gcstate # "sweep", NEW S \in SUBSET Ref,
           \A o \in S : o = Nil \/ Live(o)
    PROVE  Marking(ColorsAfterMarking(S), S)
<1> DEFINE one == Whites(S)
           two == one \cup Whites(Immediate(one))
           M   == Marked(S)
           C   == ColorsAfterMarking(S)
<1>1. TypeOK
  BY DEF ColorInv
<1>2. M = two \cup Whites(Immediate(two))
  BY DEF Marked
<1>3. M \subseteq Obj /\ \A o \in M : IsWhite(o)
  BY <1>1, MarkedWhite
<1>4. one \subseteq two /\ two \subseteq M
  BY <1>2
<1>5. \A o \in Obj : IsWhite(o) => Live(o)
  BY <1>1, Lively, LiveColors
<1>6. Immediate(one) \subseteq Value \cup {Nil} /\ Immediate(two) \subseteq Value \cup {Nil}
  <2>1. one \subseteq Obj /\ two \subseteq Obj
    BY <1>3, <1>4
  <2>2. (\A u \in one \cap UpVal : Live(u)) /\ (\A u \in two \cap UpVal : Live(u))
    BY <1>3, <1>4, <1>5
  <2> HIDE DEF one, two
  <2> QED BY <2>1, <2>2, ImmediateValues
<1>7. \A x \in Immediate(one) : x = Nil \/ ~IsWhite(x) \/ x \in two
  BY DEF Whites
<1>8. \A x \in Immediate(two) : x = Nil \/ ~IsWhite(x) \/ x \in M
  BY <1>2 DEF Whites
<1>9. /\ \A o \in M : C[o] = ColorMarked(o) /\ C[o] \in {"gray", "black"}
      /\ \A o \in Obj \ M : C[o] = color[o]
      /\ \A o \in S : o # Nil /\ IsWhite(o) => o \in M
  <2> HIDE DEF M
  <2> QED BY <1>1, <1>3, Painting DEF M, C
<1>10. \A o \in M \ two : o \in Whites(Immediate(two))
  BY <1>2
<1>11. \A o \in two \ one : o \in Whites(Immediate(one))
  OBVIOUS
<1>12. \A u \in UpVal : u \notin Value
  BY DEF Value
<1>13. \A u \in UpVal \cap M : u \in one
  BY <1>6, <1>10, <1>11, <1>12, Constants DEF Whites
<1>14. \A x \in Obj : Live(x) /\ (~IsWhite(x) \/ x \in M) => Shaded(C, x)
  BY <1>1, <1>9, LiveColors, Constants DEF Shaded, NonWhite
<1> HIDE DEF one, two, M, C
<1>15. \A u \in UpVal : u \in one => Shaded(C, UvValue(u))
  <2> SUFFICES ASSUME NEW u \in UpVal, u \in one, UvValue(u) # Nil
               PROVE  Shaded(C, UvValue(u))
    BY DEF Shaded
  <2>1. Live(u)
    BY <1>3, <1>4, <1>5
  <2>2. Live(UvValue(u)) /\ UvValue(u) \in Obj
    BY <2>1, UvValues, Constants
  <2>3. UvValue(u) \in Immediate(one)
    BY DEF Immediate
  <2> QED BY <1>4, <1>7, <1>14, <2>2, <2>3
<1>16. C \in [Obj -> Colors]
  BY <1>1, MarkingType DEF C
<1>17. \A o \in S : Shaded(C, o)
  BY <1>9, <1>14 DEF Shaded, Ref
<1>18. ASSUME NEW o \in Obj, IsWhite(o), C[o] = "black"
       PROVE  o \notin Thread /\ \A f \in Fld : Shaded(C, ref[o][f])
  <2>1. o \in M
    BY <1>1, <1>9, <1>18, Whitenesses DEF IsWhite
  <2>2. ColorMarked(o) = "black"
    BY <1>9, <1>18, <2>1
  <2>3. o \in Str \cup Udata \/ (o \in UpVal /\ ~IsOpen(o))
    BY <2>2 DEF ColorMarked
  <2>4. o \notin Thread /\ o \notin Table
    BY <2>3, Kinds, DisjointAssumption
  <2>5. Live(o)
    BY <1>3, <1>5, <2>1
  <2>6. ASSUME NEW f \in Fld, ref[o][f] # Nil
        PROVE  Shaded(C, ref[o][f])
    <3>1. Live(ref[o][f]) /\ ref[o][f] \in Obj
      BY <1>1, <2>4, <2>5, <2>6 DEF RefInv, FieldsLive, TypeOK
    <3>2. CASE o \in Udata
      <4>1. f = MT
        BY <2>6, <3>2, FitKinds DEF RefInv
      <4>2. o \in two
        <5>1. ASSUME o \in Whites(Immediate(two)) PROVE o \in two
          <6>1. o \in Immediate(two) /\ o \notin MetaTable
            BY <3>2, <5>1, Constants, DisjointAssumption DEF Whites
          <6>2. PICK x \in two : \/ x \in Udata /\ o = ref[x][MT]
                                 \/ x \in UpVal /\ o = UvValue(x)
            BY <6>1 DEF Immediate
          <6>3. x \in Obj /\ MT \in Fld /\ o # Nil
            BY <1>3, <1>4, Constants
          <6>4. ~(x \in Udata /\ o = ref[x][MT])
            BY <6>1, <6>3, FitKinds DEF RefInv
          <6>5. x \in one /\ o = UvValue(x) /\ x \in UpVal
            BY <1>4, <1>13, <6>2, <6>4
          <6>6. o \in Immediate(one)
            BY <6>5 DEF Immediate
          <6> QED BY <1>3, <1>7, <2>1, <6>3, <6>6
        <5> QED BY <1>10, <2>1, <5>1
      <4>3. ref[o][f] \in Immediate(two)
        BY <3>2, <4>1, <4>2 DEF Immediate
      <4> QED BY <1>8, <1>14, <2>6, <3>1, <4>3
    <3>3. CASE o \in UpVal /\ ~IsOpen(o)
      <4>1. f = VAL
        BY <2>6, <3>3, FitKinds DEF RefInv
      <4>2. ref[o][f] = UvValue(o)
        BY <3>3, <4>1 DEF UvValue
      <4> QED BY <1>13, <1>15, <2>1, <3>3, <4>2
    <3>4. CASE o \in Str
      BY <2>6, <3>4, FitKinds DEF RefInv
    <3> QED BY <2>3, <3>2, <3>3, <3>4
  <2> QED BY <2>4, <2>6 DEF Shaded
<1>19. ASSUME NEW o \in Obj, IsWhite(o), C[o] = "gray"
       PROVE  o \in Listed \/ (o \in UpVal /\ IsOpen(o))
  <2>1. o \in M
    BY <1>1, <1>9, <1>19, Whitenesses DEF IsWhite
  <2>2. ColorMarked(o) # "black"
    BY <1>9, <1>19, <2>1
  <2>3. o \notin Str \cup Udata /\ ~(o \in UpVal /\ ~IsOpen(o))
    BY <2>2 DEF ColorMarked
  <2> QED BY <2>3 DEF Obj, Listed
<1>20. ASSUME NEW u \in UpVal, IsWhite(u), Shaded(C, u)
       PROVE  u \in S /\ Shaded(C, UvValue(u))
  <2>1. u \in Obj /\ u # Nil
    BY Constants
  <2>2. u \in M
    BY <1>1, <1>9, <1>20, <2>1, Whitenesses DEF IsWhite, Shaded
  <2>3. u \in one
    BY <1>13, <2>2
  <2> QED BY <1>15, <2>3 DEF one, Whites
<1>21. /\ \A o \in Obj : ~IsWhite(o) => C[o] = color[o]
       /\ \A o \in Obj : IsWhite(o) => C[o] = color[o] \/ C[o] \in {"gray", "black"}
  BY <1>3, <1>9
<1> QED BY <1>16, <1>17, <1>18, <1>19, <1>20, <1>21 DEF Marking, C

LEMMA MarkingNothing ==
    ASSUME TypeOK
    PROVE  Marking(color, {})
BY Whitenesses, Constants DEF Marking, TypeOK, IsWhite, White, Shaded

LEMMA MarkingKeeps ==
    ASSUME TypeOK, NEW S, Marking(color', S), NEW x \in Ref
    PROVE  /\ NonWhite(x) => Shaded(color', x)
           /\ x \in Obj => (color'[x] = "free" <=> color[x] = "free")
BY Whitenesses, Constants DEF Marking, NonWhite, Shaded, IsWhite, Ref, White, TypeOK

-----------------------------------------------------------------------------
(* Steps of the collector that free nothing *)

\* A step that only colours objects and clears fields keeps live references live.
LEMMA LiveStep ==
    ASSUME ColorInv, ColorInv', RefInv, gcstate # "sweep", gcstate' # "sweep",
           UNCHANGED <<execvars, upvars>>,
           \A o \in Obj : color'[o] = "free" <=> color[o] = "free",
           \A o \in Obj : \A f \in Fld : ref'[o][f] \in {ref[o][f], Nil},
           \A th \in Thread : \A i \in 1 .. top[th] : ref'[th][i] = ref[th][i]
    PROVE  /\ \A o \in Obj : Live(o)' <=> Live(o)
           /\ Shapes' /\ FreeEmpty' /\ RootsLive' /\ FieldsLive'
<1>1. TypeOK /\ TypeOK'
  BY DEF ColorInv
<1>2. /\ \A o \in Obj : Live(o) <=> color[o] # "free"
      /\ \A o \in Obj : Live(o)' <=> color'[o] # "free"
  <2>1. \A o \in Obj : color'[o] # Other(currentwhite')
    BY DEF ColorInv, OneWhite
  <2>2. \A o \in Obj : Live(o)' <=> color'[o] # "free"
    BY <2>1 DEF Live, IsDead
  <2> QED BY <2>2, Lively
<1>3. \A o \in Obj : Live(o)' <=> Live(o)
  BY <1>2
<1>4. owner' = owner /\ level' = level /\ gmt' = gmt /\ from' = from /\ top' = top
  BY DEF execvars, upvars
<1>5. Shapes'
  <2>1. ASSUME NEW o \in Obj, NEW f \in Fld PROVE Fits(o, f, ref'[o][f])
    BY DEF RefInv, Shapes, Fits
  <2>2. ASSUME NEW u \in UpVal, IsOpen(u)' PROVE ref'[u][VAL] = Nil
    <3>1. IsOpen(u) /\ u \in Obj /\ VAL \in Fld
      BY <1>4, <2>2, Constants DEF IsOpen
    <3>2. ref[u][VAL] = Nil
      BY <3>1 DEF RefInv, Shapes
    <3> QED BY <3>1, <3>2
  <2> QED BY <2>1, <2>2 DEF Shapes, Fits
<1>6. FreeEmpty'
  BY DEF RefInv, FreeEmpty
<1>7. RootsLive'
  <2>1. \A o \in Roots' : o # Nil => Live(o)'
    BY <1>1, <1>3, <1>4, RootsType DEF RefInv, RootsLive, Roots, Ref
  <2>2. \A th \in Thread : IsActive(th)' => Live(th)'
    BY <1>3, <1>4, Constants DEF RefInv, RootsLive, IsActive
  <2>3. ASSUME NEW th \in Thread, from[th] # Nil
        PROVE  Keeps(from[th], th)'
    <3>1. from[th] \in Thread
      BY <1>1, <2>3 DEF TypeOK
    <3>2. Keeps(from[th], th)
      BY <2>3 DEF RefInv, RootsLive
    <3> QED BY <1>4, <3>1, <3>2 DEF Keeps, OpenOf
  <2> QED BY <1>4, <2>1, <2>2, <2>3 DEF RootsLive
<1>8. FieldsLive'
  <2> SUFFICES ASSUME NEW o \in Obj, Live(o)', NEW f \in Fld, ref'[o][f] # Nil,
                      ~(o \in Table /\ f = KEY /\ ref'[o][VAL] = Nil)
               PROVE  Live(ref[o][f])'
    BY DEF FieldsLive
  <2>1. ref'[o][f] = ref[o][f] /\ ref[o][f] \in Obj /\ VAL \in Fld
    BY <1>1, Constants DEF TypeOK
  <2>2. ~(o \in Table /\ f = KEY /\ ref[o][VAL] = Nil)
    BY <2>1
  <2>3. Live(ref[o][f])
    BY <1>3, <2>1, <2>2 DEF RefInv, FieldsLive
  <2> QED BY <1>2, <1>3, <2>1, <2>3 DEF Live, IsDead
<1> QED BY <1>3, <1>5, <1>6, <1>7, <1>8

\* markroot, on a heap that is white.
LEMMA MarkRootsSafe ==
    ASSUME ColorInv, ColorInv', RefInv, gcstate = "pause", MarkRoots,
           UNCHANGED <<ref, execvars, upvars, currentwhite, pc>>,
           \A u \in markedopen' : ~IsOpen(u)'
    PROVE  RefInv'
<1>1. TypeOK /\ TypeOK' /\ Roots \in SUBSET Ref
  BY RootsType DEF ColorInv
<1>2. Marking(color', Roots)
  BY <1>1, MarkingMarks DEF MarkRoots, RefInv, RootsLive
<1>3. gcstate' = "propagate" /\ KeepInvariant' /\ pc' = "none"
  BY DEF MarkRoots, KeepInvariant, ColorInv, Phases
<1>4. \A o \in Obj : color[o] \in {"free", currentwhite}
  BY DEF ColorInv, PauseClean
<1>5. \A o \in Obj : color'[o] \in {"gray", "black"} => IsWhite(o)
  BY <1>1, <1>2, <1>4, Whitenesses DEF Marking
<1>6. \A o \in Obj : color'[o] = "free" <=> color[o] = "free"
  BY <1>1, <1>2, MarkingKeeps DEF Ref
<1>7. \A o \in Obj : \A f \in Fld : ref'[o][f] \in {ref[o][f], Nil}
  OBVIOUS
<1>8. \A th \in Thread : \A i \in 1 .. top[th] : ref'[th][i] = ref[th][i]
  OBVIOUS
<1>9. (\A o \in Obj : Live(o)' <=> Live(o)) /\ Shapes' /\ FreeEmpty' /\ RootsLive' /\ FieldsLive'
  BY <1>3, <1>6, <1>7, <1>8, LiveStep
<1>10. OpenOwner'
  <2> SUFFICES ASSUME NEW u \in UpVal, IsOpen(u)'
               PROVE  Live(owner[u])' /\ u \notin markedopen'
    BY DEF OpenOwner
  <2>1. owner'[u] = owner[u] /\ IsOpen(u)
    BY DEF IsOpen, upvars
  <2>2. owner[u] \in Obj /\ Live(owner[u])
    BY <1>1, <2>1, Constants DEF RefInv, OpenOwner, TypeOK, IsOpen
  <2>3. Live(owner[u])'
    BY <1>9, <2>1, <2>2 DEF Live, IsDead
  <2> QED BY <2>3
<1>11. GrayKinds'
  BY <1>2, <1>5 DEF GrayKinds, Marking, IsOpen, upvars
<1>12. BlackObjects'
  BY <1>2, <1>5 DEF BlackObjects, Marking, Shaded, NonWhite
<1>13. BlackStacks'
  BY <1>2, <1>5, Constants DEF BlackStacks, Marking
<1>14. AtomicDone'
  BY <1>3 DEF AtomicDone
<1>15. RootsMarked'
  BY <1>2 DEF RootsMarked, Marking, Roots, Shaded, NonWhite
<1> QED BY <1>9, <1>10, <1>11, <1>12, <1>13, <1>14, <1>15 DEF RefInv

\* Marking S while marking, without looking at any object's fields again.
LEMMA PaintStep ==
    ASSUME ColorInv, ColorInv', RefInv, KeepInvariant, KeepInvariant',
           NEW S, Marking(color', S),
           UNCHANGED <<ref, execvars, upvars, currentwhite, markedopen>>
    PROVE  /\ AtomicDone' => RefInv'
           /\ \A x \in Ref : NonWhite(x) => NonWhite(x)'
<1>1. TypeOK /\ TypeOK' /\ gcstate # "sweep" /\ gcstate' # "sweep"
  BY DEF ColorInv, KeepInvariant
<1>2. \A x \in Ref : NonWhite(x) => NonWhite(x)'
  BY <1>1, MarkingKeeps DEF NonWhite, Shaded
<1>3. \A o \in Obj : color'[o] = "free" <=> color[o] = "free"
  BY <1>1, MarkingKeeps DEF Ref
<1>4. \A o \in Obj : \A f \in Fld : ref'[o][f] \in {ref[o][f], Nil}
  OBVIOUS
<1>5. \A th \in Thread : \A i \in 1 .. top[th] : ref'[th][i] = ref[th][i]
  OBVIOUS
<1>6. (\A o \in Obj : Live(o)' <=> Live(o)) /\ Shapes' /\ FreeEmpty' /\ RootsLive' /\ FieldsLive'
  BY <1>1, <1>3, <1>4, <1>5, LiveStep
<1>7. OpenOwner'
  <2> SUFFICES ASSUME NEW u \in UpVal, IsOpen(u)'
               PROVE  /\ Live(owner[u])'
                      /\ u \in markedopen' => NonWhite(owner[u])'
    BY DEF OpenOwner
  <2>1. owner'[u] = owner[u] /\ IsOpen(u)
    BY DEF IsOpen, upvars
  <2>2. owner[u] \in Obj /\ owner[u] \in Ref
    BY <1>1, <2>1, Constants DEF TypeOK, IsOpen, Ref
  <2>3. Live(owner[u]) /\ (u \in markedopen => NonWhite(owner[u]))
    BY <2>1 DEF RefInv, OpenOwner
  <2>4. Live(owner[u])'
    BY <1>6, <2>1, <2>2, <2>3 DEF Live, IsDead
  <2>5. u \in markedopen' => NonWhite(owner[u])'
    BY <1>2, <2>1, <2>2, <2>3 DEF NonWhite
  <2> QED BY <2>4, <2>5
<1>8. GrayKinds'
  <2> SUFFICES ASSUME NEW o \in Obj, color'[o] = "gray"
               PROVE  o \in Listed \/ (o \in UpVal /\ IsOpen(o))
    BY DEF GrayKinds, IsOpen, upvars
  <2> QED BY DEF Marking, RefInv, GrayKinds
<1>9. BlackObjects'
  <2> SUFFICES ASSUME NEW o \in Obj \ Thread, color'[o] = "black", NEW f \in Fld
               PROVE  Shaded(color', ref[o][f])
    BY DEF BlackObjects, NonWhite, Shaded
  <2>1. ref[o][f] \in Ref
    BY <1>1 DEF TypeOK, Ref
  <2>2. CASE IsWhite(o)
    BY <2>2 DEF Marking
  <2>3. CASE ~IsWhite(o)
    <3>1. NonWhite(ref[o][f])
      BY <2>3 DEF Marking, RefInv, BlackObjects
    <3> QED BY <1>1, <2>1, <3>1, MarkingKeeps
  <2> QED BY <2>2, <2>3
<1>10. BlackStacks'
  <2> SUFFICES ASSUME NEW th \in Thread, color'[th] = "black"
               PROVE  /\ \A f \in Fld : Shaded(color', ref[th][f])
                                           \/ \E u \in OpenOf(th) : level[u] = f
                      /\ \A u \in OpenOf(th) : color'[u] = "gray" /\ u \in markedopen
    BY DEF BlackStacks, NonWhite, Shaded, OpenOf, upvars
  <2>1. th \in Obj /\ ~IsWhite(th)
    BY Constants DEF Marking
  <2>2. color[th] = "black"
    BY <2>1 DEF Marking
  <2>3. ASSUME NEW f \in Fld
        PROVE  Shaded(color', ref[th][f]) \/ \E u \in OpenOf(th) : level[u] = f
    <3>1. ref[th][f] \in Ref
      BY <1>1, <2>1 DEF TypeOK, Ref
    <3>2. NonWhite(ref[th][f]) \/ \E u \in OpenOf(th) : level[u] = f
      BY <2>2 DEF RefInv, BlackStacks
    <3> QED BY <1>1, <3>1, <3>2, MarkingKeeps
  <2>4. ASSUME NEW u \in OpenOf(th)
        PROVE  color'[u] = "gray" /\ u \in markedopen
    <3>1. u \in Obj /\ color[u] = "gray" /\ u \in markedopen
      BY <2>2, Constants DEF RefInv, BlackStacks, OpenOf
    <3> QED BY <1>1, <3>1, Whitenesses DEF Marking, IsWhite
  <2> QED BY <2>3, <2>4
<1>11. RootsMarked'
  BY <1>2, Constants DEF RefInv, RootsMarked, NonWhite, Ref
<1> QED BY <1>2, <1>6, <1>7, <1>8, <1>9, <1>10, <1>11 DEF RefInv

LEMMA StartSafe ==
    ASSUME ColorInv, ColorInv', RefInv, StartCycle \/ FullMark
    PROVE  RefInv'
<1>1. TypeOK
  BY DEF ColorInv
<1>2. MarkRoots /\ gcstate = "pause" /\ UNCHANGED <<ref, execvars, upvars, currentwhite, pc>>
  BY DEF StartCycle, FullMark
<1>3. \A u \in markedopen' : ~IsOpen(u)'
  BY <1>1 DEF StartCycle, FullMark, ColorInv, PauseClean, IsOpen, upvars, TypeOK
<1> QED BY <1>2, <1>3, MarkRootsSafe

LEMMA AtomicSafe ==
    ASSUME ColorInv, ColorInv', RefInv, AtomicUpvals \/ AtomicWeak \/ AtomicAgain
    PROVE  RefInv'
<1>1. TypeOK /\ TypeOK' /\ gcstate = "atomic" /\ gcstate' = "atomic"
  BY DEF ColorInv, Phases, AtomicUpvals, AtomicWeak, AtomicAgain
<1>2. KeepInvariant /\ KeepInvariant' /\ gcstate # "sweep"
  BY <1>1 DEF KeepInvariant
<1>3. UNCHANGED <<ref, execvars, upvars, currentwhite, markedopen>>
  BY DEF AtomicUpvals, AtomicWeak, AtomicAgain
<1>4. \A u \in UpVal : /\ u \in Obj /\ UvValue(u) \in Ref
                       /\ IsOpen(u)' <=> IsOpen(u)
                       /\ UvValue(u)' = UvValue(u)
  BY <1>1, <1>3, UvValueType, Constants DEF IsOpen, UvValue, upvars
<1>5. ASSUME NEW u \in UpVal, IsOpen(u) PROVE Live(u)
  BY <1>4, <1>5, <1>1, LiveColors, Whitenesses, Lively DEF ColorInv, OpenColors, NonWhite, White
<1>6. CASE AtomicUpvals
  <2> DEFINE S == {UvValue(u) : u \in GrayOpen}
  <2>1. S \in SUBSET Ref /\ \A o \in S : o = Nil \/ Live(o)
    BY <1>4, <1>5, UvValues DEF GrayOpen
  <2>2. Marking(color', S)
    BY <1>2, <1>6, <2>1, MarkingMarks DEF AtomicUpvals
  <2> HIDE DEF S
  <2>3. ASSUME NEW u \in UpVal, IsOpen(u), color'[u] = "gray"
        PROVE  Shaded(color', UvValue(u))
    <3>1. CASE IsWhite(u)
      BY <2>2, <2>3, <3>1 DEF Marking, Shaded
    <3>2. CASE ~IsWhite(u)
      <4>1. color[u] = "gray"
        BY <1>4, <2>2, <2>3, <3>2 DEF Marking
      <4>2. UvValue(u) \in S
        BY <2>3, <4>1 DEF S, GrayOpen
      <4> QED BY <2>2, <4>2 DEF Marking
    <3> QED BY <3>1, <3>2
  <2>4. AtomicDone'
    BY <1>4, <1>6, <2>3 DEF AtomicDone, AtomicUpvals, NonWhite, Shaded
  <2> QED BY <1>2, <1>3, <2>2, <2>4, PaintStep
<1>7. CASE AtomicWeak
  <2>1. LateRoots \in SUBSET Ref /\ \A o \in LateRoots : o = Nil \/ Live(o)
    BY <1>1, Constants DEF LateRoots, Roots, RefInv, RootsLive, ColorInv, ResumeChain, TypeOK, Ref
  <2>2. Marking(color', LateRoots)
    BY <1>2, <1>7, <2>1, MarkingMarks DEF AtomicWeak
  <2>3. \A x \in Ref : NonWhite(x) => NonWhite(x)'
    BY <1>2, <1>3, <2>2, PaintStep
  <2>4. ASSUME NEW u \in UpVal, IsOpen(u), color'[u] = "gray"
        PROVE  NonWhite(UvValue(u))'
    <3>1. CASE IsWhite(u)
      BY <1>4, <2>2, <2>4, <3>1 DEF Marking, Shaded, NonWhite
    <3>2. CASE ~IsWhite(u)
      <4>1. color[u] = "gray"
        BY <1>4, <2>2, <2>4, <3>2 DEF Marking
      <4>2. NonWhite(UvValue(u))
        BY <1>7, <2>4, <4>1 DEF RefInv, AtomicDone, AtomicWeak
      <4> QED BY <1>4, <2>3, <4>2 DEF NonWhite
    <3> QED BY <3>1, <3>2
  <2>5. NonWhite(cur)' /\ NonWhite(gmt)'
    BY <1>3, <2>2 DEF Marking, LateRoots, NonWhite, Shaded, execvars
  <2>6. AtomicDone'
    BY <1>4, <1>7, <2>4, <2>5 DEF AtomicDone, AtomicWeak
  <2> QED BY <1>2, <1>3, <2>2, <2>6, PaintStep
<1>8. CASE AtomicAgain
  <2>1. UNCHANGED <<color, weak>> /\ pc = "weak" /\ pc' = "again" /\ grayagain' = {}
    BY <1>8 DEF AtomicAgain
  <2>2. Marking(color', {})
    BY <1>1, <2>1, MarkingNothing
  <2>3. \A u \in UpVal : IsOpen(u)' /\ color'[u] = "gray" => NonWhite(UvValue(u))'
    BY <1>4, <2>1 DEF RefInv, AtomicDone, NonWhite
  <2>4. /\ \A t \in weak' : NonWhite(ref[t][MT])'
        /\ NonWhite(cur)' /\ NonWhite(gmt)'
    BY <1>3, <2>1 DEF RefInv, AtomicDone, NonWhite, execvars
  <2>5. AtomicDone'
    BY <2>1, <2>3, <2>4 DEF AtomicDone
  <2> QED BY <1>2, <1>3, <2>2, <2>5, PaintStep
<1> QED BY <1>6, <1>7, <1>8

\* What a traversal of a live object marks is alive.
LEMMA TracedLive ==
    ASSUME ColorInv, RefInv, NEW o \in Listed, Live(o), NEW x \in Traced(o)
    PROVE  x = Nil \/ Live(x)
<1>1. TypeOK /\ o \in Obj
  BY Constants DEF ColorInv
<1>2. CASE \E f \in Fld : /\ x = ref[o][f]
                          /\ ~(o \in Table /\ f = KEY /\ ref[o][VAL] = Nil)
  BY <1>1, <1>2 DEF RefInv, FieldsLive
<1>3. CASE o \in Thread /\ x \in OpenOf(o)
  <2>1. x \in UpVal /\ IsOpen(x) /\ x \in Obj
    BY <1>3, Constants DEF OpenOf, IsOpen
  <2> QED BY <1>1, <2>1, Whitenesses DEF ColorInv, OpenColors, Live, IsDead
<1>4. \/ \E f \in Fld : /\ x = ref[o][f]
                        /\ ~(o \in Table /\ f = KEY /\ ref[o][VAL] = Nil)
      \/ o \in Thread /\ x \in OpenOf(o)
  <2>1. CASE o \in Table
    <3>1. KEY \in Fld /\ VAL \in Fld /\ MT \in Fld /\ VAL # KEY /\ MT # KEY
      BY Constants DEF KEY, VAL, MT
    <3> QED BY <2>1, <3>1 DEF Traced
  <2>2. CASE o \in Thread
    <3>1. 1 .. top[o] \subseteq Slot
      BY <1>1, <2>2, Constants DEF TypeOK, Slot
    <3> QED BY <2>2, <3>1, Kinds, Constants DEF Traced
  <2>3. CASE o \notin Table /\ o \notin Thread
    BY <2>3, Constants DEF Traced
  <2> QED BY <2>1, <2>2, <2>3
<1> QED BY <1>2, <1>3, <1>4

\* A traversal marks everything the object refers to, or erases the reference.
LEMMA PropagateSafe ==
    ASSUME ColorInv, ColorInv', RefInv, NEW o \in Obj, Propagate(o)
    PROVE  RefInv'
<1> DEFINE S == Traced(o)
           C == ColorsAfterMarking(S)
<1>1. TypeOK /\ TypeOK' /\ o \in gray /\ o \in Listed
  BY DEF ColorInv, TypeOK, Propagate
<1>2. KeepInvariant /\ gcstate # "sweep"
  BY DEF Propagate, ColorInv, Phases, KeepInvariant
<1>3. KeepInvariant' /\ gcstate' # "sweep"
  BY <1>2 DEF Propagate, KeepInvariant
<1>4. color[o] = "gray" /\ Live(o) /\ ~IsWhite(o)
  BY <1>1, <1>2, LiveColors DEF ColorInv, OneList, NonWhite
<1>5. /\ UNCHANGED <<execvars, upvars, currentwhite, tosweep, pc, full>>
      /\ ref' = [ref EXCEPT ![o] = [f \in Fld |-> IF ClearedBy(o, f) THEN Nil ELSE ref[o][f]]]
      /\ markedopen' = IF o \in Thread THEN markedopen \cup OpenOf(o) ELSE markedopen
  BY DEF Propagate
<1>6. /\ color' = [C EXCEPT ![o] = color'[o]]
      /\ color'[o] \in {"gray", "black"}
      /\ color'[o] = "black" => /\ o \in Table => WeakMode(o) = {}
                                /\ o \in Thread => ~IsActive(o)
  <2>1. C \in [Obj -> Colors]
    BY <1>1, MarkingType, TracedType
  <2> HIDE DEF C
  <2> QED BY <2>1 DEF Propagate, C
<1>7. S \in SUBSET Ref
  BY <1>1, TracedType
<1>8. \A x \in Obj : \A f \in Fld :
         ref'[x][f] = IF x = o /\ ClearedBy(o, f) THEN Nil ELSE ref[x][f]
  BY <1>1, <1>5 DEF TypeOK
<1>9. ASSUME NEW x \in S
      PROVE  x = Nil \/ Live(x)
  BY <1>1, <1>4, <1>9, TracedLive
<1>10. Marking(C, S)
  BY <1>2, <1>7, <1>9, MarkingMarks
<1> HIDE DEF C
<1>11. C[o] = "gray" /\ \A x \in Obj \ {o} : color'[x] = C[x]
  BY <1>4, <1>6, <1>10 DEF Marking
<1>12. /\ \A x \in Ref : Shaded(C, x) => Shaded(color', x)
       /\ \A x \in Ref : NonWhite(x) => Shaded(color', x)
       /\ \A x \in Obj : color'[x] = "free" <=> color[x] = "free"
  <2>1. \A x \in Obj : C[x] = "free" <=> color[x] = "free"
    BY <1>1, <1>10, Whitenesses DEF Marking, IsWhite
  <2>2. \A x \in Ref : NonWhite(x) => Shaded(C, x)
    BY <1>1, <1>10, Whitenesses, Constants DEF Marking, NonWhite, Shaded, IsWhite, Ref
  <2>3. \A x \in Ref : Shaded(C, x) => Shaded(color', x)
    BY <1>6, <1>11 DEF Shaded, Ref
  <2> QED BY <1>4, <1>6, <1>11, <2>1, <2>2, <2>3
<1> HIDE DEF S
<1>13. \A x \in Obj : \A f \in Fld : ref'[x][f] \in {ref[x][f], Nil}
  BY <1>8
<1>14. \A th \in Thread : \A i \in 1 .. top[th] : ref'[th][i] = ref[th][i]
  <2> SUFFICES ASSUME NEW th \in Thread, NEW i \in 1 .. top[th]
               PROVE  ref'[th][i] = ref[th][i]
    OBVIOUS
  <2>1. th \in Obj /\ i \in Fld /\ ~(i > top[th]) /\ th \notin Table
    BY <1>1, Constants, Kinds DEF TypeOK, Slot
  <2>2. ~ClearedBy(th, i)
    BY <2>1 DEF ClearedBy
  <2> QED BY <1>8, <2>1, <2>2
<1>15. /\ \A x \in Obj : Live(x)' <=> Live(x)
       /\ Shapes' /\ FreeEmpty' /\ RootsLive' /\ FieldsLive'
  BY <1>2, <1>3, <1>5, <1>12, <1>13, <1>14, LiveStep
<1>16. ASSUME NEW x \in Obj, NEW f \in Fld, NonWhite(ref[x][f])
       PROVE  NonWhite(ref[x][f])'
  <2>1. ref[x][f] \in Ref
    BY <1>1 DEF TypeOK, Ref
  <2> QED BY <1>12, <1>13, <1>16, <2>1 DEF NonWhite, Shaded
<1>17. ASSUME NEW f \in Fld, ref[o][f] \in S PROVE NonWhite(ref[o][f])'
  <2>1. Shaded(C, ref[o][f]) /\ ref[o][f] \in Ref
    BY <1>1, <1>10, <1>17 DEF Marking, TypeOK, Ref
  <2> QED BY <1>12, <1>13, <2>1 DEF NonWhite, Shaded
<1>18. ASSUME NEW f \in Fld, ref[o][f] = Nil \/ ClearedBy(o, f) PROVE NonWhite(ref[o][f])'
  BY <1>8, <1>18 DEF NonWhite
<1>19. o \in Table => NonWhite(ref[o][MT])'
  BY <1>17, Constants DEF S, Traced
<1>20. ASSUME o \in Table, WeakMode(o) = {}, NEW f \in Fld
       PROVE  NonWhite(ref[o][f])'
  <2>1. CASE f = VAL
    BY <1>17, <1>20, <2>1 DEF S, Traced
  <2>2. CASE f = KEY
    BY <1>17, <1>18, <1>20, <2>2 DEF S, Traced, ClearedBy
  <2>3. CASE f = MT
    BY <1>19, <1>20, <2>3
  <2>4. CASE ref[o][f] = Nil
    BY <1>18, <2>4
  <2>5. ref[o][f] = Nil \/ f \in {KEY, VAL, MT}
    BY <1>1, <1>20, FitKinds, Constants DEF RefInv
  <2> QED BY <2>1, <2>2, <2>3, <2>4, <2>5
<1>21. ASSUME o \in Func, NEW f \in Fld
       PROVE  NonWhite(ref[o][f])'
  <2>1. o \notin Table /\ o \notin Thread /\ o \in Obj
    BY <1>21, DisjointAssumption, Constants
  <2>2. ref[o][f] = Nil \/ f = CAP
    BY <1>21, <2>1, FitKinds DEF RefInv
  <2> QED BY <1>17, <1>18, <2>1, <2>2 DEF S, Traced
<1>22. ASSUME o \in Thread, ~IsActive(o) \/ gcstate = "atomic", NEW f \in Fld
       PROVE  NonWhite(ref[o][f])'
  <2>1. o \notin Table /\ o \in Obj /\ top[o] \in Nat
    BY <1>1, <1>22, Kinds, Constants DEF TypeOK
  <2>2. ref[o][f] = Nil \/ f \in Slot
    BY <1>22, <2>1, FitKinds DEF RefInv
  <2>3. f \in Slot => f \in 1 .. top[o] \/ f > top[o]
    BY <2>1, Constants DEF Slot
  <2>4. CASE f \in 1 .. top[o]
    BY <1>17, <1>22, <2>1, <2>4 DEF S, Traced
  <2>5. CASE f > top[o]
    BY <1>18, <1>22, <2>5 DEF ClearedBy
  <2> QED BY <1>18, <2>2, <2>3, <2>4, <2>5
<1>23. ASSUME NEW u \in UpVal, o \in Thread, u \in OpenOf(o)
       PROVE  color'[u] = "gray" /\ u \in markedopen'
  <2>1. u \in Obj /\ u # o /\ u \in S /\ IsOpen(u) /\ u # Nil
    BY <1>23, Constants, Kinds DEF S, Traced, OpenOf, IsOpen
  <2>2. Shaded(C, u) /\ C[u] = color'[u]
    BY <1>10, <1>11, <2>1 DEF Marking
  <2>3. color'[u] # "black"
    BY <1>5, <2>1 DEF ColorInv, NeverBlack, IsOpen, upvars
  <2> QED BY <1>5, <1>23, <2>1, <2>2, <2>3 DEF Shaded
<1>24. OpenOwner'
  <2> SUFFICES ASSUME NEW u \in UpVal, IsOpen(u)'
               PROVE  /\ Live(owner[u])'
                      /\ u \in markedopen' => NonWhite(owner[u])'
    BY DEF OpenOwner
  <2>1. owner'[u] = owner[u] /\ IsOpen(u)
    BY <1>5 DEF IsOpen, upvars
  <2>2. owner[u] \in Obj /\ owner[u] \in Ref
    BY <1>1, <2>1, Constants DEF TypeOK, IsOpen, Ref
  <2>3. Live(owner[u]) /\ (u \in markedopen => NonWhite(owner[u]))
    BY <1>2, <2>1 DEF RefInv, OpenOwner
  <2>4. Live(owner[u])'
    BY <1>15, <2>1, <2>2, <2>3 DEF Live, IsDead
  <2>5. CASE u \in markedopen
    BY <1>12, <2>1, <2>2, <2>3, <2>4, <2>5 DEF NonWhite, Shaded
  <2>6. CASE u \notin markedopen /\ u \in markedopen'
    <3>1. owner[u] = o
      BY <1>5, <2>6 DEF OpenOf
    <3> QED BY <1>6, <2>1, <2>4, <3>1 DEF NonWhite
  <2> QED BY <2>4, <2>5, <2>6
<1>25. GrayKinds'
  <2> SUFFICES ASSUME NEW x \in Obj, color'[x] = "gray", x # o
               PROVE  x \in Listed \/ (x \in UpVal /\ IsOpen(x))
    BY <1>1, <1>5 DEF GrayKinds, IsOpen, upvars
  <2> QED BY <1>2, <1>10, <1>11 DEF Marking, RefInv, GrayKinds
<1>26. BlackObjects'
  <2> SUFFICES ASSUME NEW x \in Obj \ Thread, color'[x] = "black", NEW f \in Fld
               PROVE  NonWhite(ref[x][f])'
    BY DEF BlackObjects
  <2>1. ref[x][f] \in Ref
    BY <1>1 DEF TypeOK, Ref
  <2>2. CASE x = o
    BY <1>1, <1>6, <1>20, <1>21, <2>2 DEF Listed
  <2>3. CASE x # o /\ IsWhite(x)
    <3>1. Shaded(C, ref[x][f])
      BY <1>10, <1>11, <2>3 DEF Marking
    <3> QED BY <1>12, <1>13, <2>1, <3>1 DEF NonWhite, Shaded
  <2>4. CASE x # o /\ ~IsWhite(x)
    <3>1. NonWhite(ref[x][f])
      BY <1>2, <1>10, <1>11, <2>4 DEF Marking, RefInv, BlackObjects
    <3> QED BY <1>16, <3>1
  <2> QED BY <2>2, <2>3, <2>4
<1>27. BlackStacks'
  <2> SUFFICES ASSUME NEW th \in Thread, color'[th] = "black"
               PROVE  /\ \A f \in Fld : NonWhite(ref[th][f])' \/ \E u \in OpenOf(th) : level[u] = f
                      /\ \A u \in OpenOf(th) : color'[u] = "gray" /\ u \in markedopen'
    BY <1>5 DEF BlackStacks, OpenOf, upvars
  <2>1. th \in Obj
    BY Constants
  <2>2. CASE th = o
    BY <1>6, <1>22, <1>23, <2>2 DEF OpenOf
  <2>3. CASE th # o
    <3>1. ~IsWhite(th) /\ color[th] = "black"
      BY <1>10, <1>11, <2>1, <2>3 DEF Marking
    <3>2. /\ \A f \in Fld : NonWhite(ref[th][f]) \/ \E u \in OpenOf(th) : level[u] = f
          /\ \A u \in OpenOf(th) : color[u] = "gray" /\ u \in markedopen
      BY <1>2, <3>1 DEF RefInv, BlackStacks
    <3>3. ASSUME NEW u \in OpenOf(th) PROVE color'[u] = "gray"
      <4>1. u \in Obj /\ u # o /\ color[u] = "gray"
        BY <1>1, <3>2, Constants, Kinds DEF OpenOf
      <4> QED BY <1>1, <1>10, <1>11, <4>1, Whitenesses DEF Marking, IsWhite
    <3>4. markedopen \subseteq markedopen'
      BY <1>5
    <3>5. \A f \in Fld : NonWhite(ref[th][f])' \/ \E u \in OpenOf(th) : level[u] = f
      BY <1>16, <2>1, <3>2
    <3> QED BY <3>2, <3>3, <3>4, <3>5
  <2> QED BY <2>2, <2>3
<1>28. ASSUME pc # "none", NEW u \in UpVal, IsOpen(u), color'[u] = "gray"
       PROVE  NonWhite(UvValue(u))'
  <2>1. u \in Obj /\ u # o
    BY <1>1, Constants, Kinds
  <2>2. owner[u] \in Obj /\ level[u] \in Fld
    BY <1>1, <1>28, Constants DEF TypeOK, IsOpen
  <2>3. UvValue(u) = ref[owner[u]][level[u]] /\ UvValue(u)' = ref'[owner[u]][level[u]]
    BY <1>5, <1>28 DEF UvValue, IsOpen, upvars
  <2>4. UvValue(u)' \in {UvValue(u), Nil} /\ UvValue(u) \in Ref
    BY <1>1, <1>13, <2>2, <2>3, UvValueType
  <2>5. CASE IsWhite(u)
    <3>1. Shaded(C, UvValue(u))
      BY <1>10, <1>11, <1>28, <2>1, <2>5 DEF Marking, Shaded
    <3> QED BY <1>12, <2>4, <3>1 DEF NonWhite, Shaded
  <2>6. CASE ~IsWhite(u)
    <3>1. NonWhite(UvValue(u))
      BY <1>10, <1>11, <1>28, <2>1, <2>6 DEF Marking, RefInv, AtomicDone
    <3> QED BY <1>12, <2>4, <3>1 DEF NonWhite, Shaded
  <2> QED BY <2>5, <2>6
<1>29. ASSUME pc \in {"weak", "again"}
       PROVE  /\ \A t \in weak' : NonWhite(ref[t][MT])'
              /\ NonWhite(cur)' /\ NonWhite(gmt)'
  <2>1. \A t \in weak' : t \in weak \/ (t = o /\ o \in Table)
    BY DEF Propagate
  <2>2. \A t \in weak : t \in Obj /\ MT \in Fld /\ NonWhite(ref[t][MT])
    BY <1>1, <1>29, Constants DEF TypeOK, RefInv, AtomicDone
  <2>3. NonWhite(cur) /\ NonWhite(gmt) /\ cur \in Ref /\ gmt \in Ref
    BY <1>1, <1>29, Constants DEF TypeOK, RefInv, AtomicDone, Ref
  <2>4. NonWhite(cur)' /\ NonWhite(gmt)'
    BY <1>5, <1>12, <2>3 DEF NonWhite, Shaded, execvars
  <2> QED BY <1>16, <1>19, <2>1, <2>2, <2>4
<1>30. ASSUME pc = "again", NEW x \in grayagain'
       PROVE  x \in Thread /\ \A f \in Fld : NonWhite(ref[x][f])'
  <2>1. gcstate = "atomic"
    BY <1>30 DEF ColorInv, Phases
  <2>2. x \in grayagain \/ (x = o /\ o \in Thread)
    BY <1>30, <2>1 DEF Propagate
  <2>3. x \in grayagain => x \in Thread /\ x \in Obj /\ \A f \in Fld : NonWhite(ref[x][f])
    BY <1>30, Constants DEF RefInv, AtomicDone
  <2> QED BY <1>16, <1>22, <2>1, <2>2, <2>3
<1>31. AtomicDone'
  BY <1>5, <1>28, <1>29, <1>30 DEF AtomicDone, IsOpen, upvars
<1>32. RootsMarked'
  BY <1>2, <1>12, Constants DEF RefInv, RootsMarked, NonWhite, Shaded, Ref
<1> QED BY <1>15, <1>24, <1>25, <1>26, <1>27, <1>31, <1>32 DEF RefInv

-----------------------------------------------------------------------------
(* The end of the atomic phase *)

\* Active threads are marked when the gray list runs out for the last time: one that is
\* not was resumed by a marked thread, whose slots have all been marked.
LEMMA ActivesMarked ==
    ASSUME ColorInv, RefInv, pc = "again", gray = {}
    PROVE  \A th \in Thread : IsActive(th) => NonWhite(th)
<1> DEFINE W == {th \in Thread : from[th] # Nil /\ ~NonWhite(th)}
<1>1. TypeOK /\ KeepInvariant
  BY DEF ColorInv, Phases, KeepInvariant
<1>2. NonWhite(Main)
  BY <1>1 DEF RefInv, RootsMarked
<1>3. ASSUME NEW th \in W PROVE FALSE
  <2>1. PICK x \in W : from[x] \notin W
    BY <1>3 DEF ColorInv, ResumeChain
  <2> DEFINE r == from[x]
  <2>2. x \in Thread /\ x \in Obj /\ r \in Thread /\ r \in Obj /\ r # Nil /\ ~NonWhite(x)
    BY <1>1, Constants DEF TypeOK
  <2>3. IsActive(r) /\ Keeps(r, x)
    BY <2>2 DEF ColorInv, ResumeChain, RefInv, RootsLive
  <2>4. NonWhite(r)
    BY <1>2, <2>1, <2>2, <2>3 DEF IsActive
  <2>5. color[r] = "gray"
    BY <2>2, <2>3, <2>4 DEF NonWhite, ColorInv, NeverBlack
  <2>6. r \in grayagain
    BY <1>1, <2>2, <2>5, Kinds DEF ColorInv, OneList, TypeOK
  <2>7. PICK i \in 1 .. top[r] : ref[r][i] = x
    BY <2>3 DEF Keeps
  <2>8. i \in Fld
    BY <1>1, <2>2, Constants DEF TypeOK, Slot
  <2>9. NonWhite(ref[r][i])
    BY <2>6, <2>8 DEF RefInv, AtomicDone
  <2> QED BY <2>2, <2>7, <2>9
<1>4. ASSUME NEW th \in Thread, IsActive(th) PROVE NonWhite(th)
  BY <1>2, <1>3, <1>4 DEF IsActive
<1> QED BY <1>4

\* When the white changes, the objects that stay alive are the marked ones, and they hold
\* references to marked objects only.
LEMMA AtomicFinishSafe ==
    ASSUME ColorInv, ColorInv', RefInv, AtomicFinish
    PROVE  RefInv'
<1> DEFINE closed == {u \in Orphans : ~IsWhite(u)}
           S == WeakStrings \cup {UvValue(u) : u \in closed}
           C == ColorsAfterMarking(S)
           M == Marked(S)
<1>1. /\ TypeOK /\ TypeOK' /\ pc = "again" /\ gray = {} /\ gcstate = "atomic"
      /\ KeepInvariant /\ ~KeepInvariant' /\ pc' = "none"
  BY DEF ColorInv, Phases, KeepInvariant, AtomicFinish
<1>2. /\ ref' = [o \in Obj |-> [f \in Fld |->
                    IF o \in ClearedEntries /\ f \in {KEY, VAL} THEN Nil
                    ELSE IF o \in closed /\ f = VAL THEN UvValue(o)
                    ELSE ref[o][f]]]
      /\ owner' = [u \in UpVal |-> IF u \in Orphans THEN Nil ELSE owner[u]]
      /\ level' = [u \in UpVal |-> IF u \in Orphans THEN 1 ELSE level[u]]
      /\ color' = [o \in Obj |-> IF o \in closed THEN "black" ELSE C[o]]
      /\ currentwhite' = Other(currentwhite)
      /\ UNCHANGED <<execvars, grayagain, full>>
  BY DEF AtomicFinish
<1>3. ASSUME NEW u \in closed
      PROVE  /\ u \in UpVal /\ u \in Obj /\ IsOpen(u) /\ color[u] = "gray"
             /\ UvValue(u) \in Ref /\ NonWhite(UvValue(u))
  <2>1. u \in UpVal /\ u \in Obj /\ IsOpen(u) /\ ~IsWhite(u)
    BY <1>3, Constants DEF Orphans
  <2>2. color[u] = "gray"
    BY <1>1, <2>1, Whitenesses DEF ColorInv, OpenColors, IsWhite
  <2> QED BY <1>1, <2>1, <2>2, UvValueType DEF RefInv, AtomicDone
<1>4. S \in SUBSET Ref /\ WeakStrings \subseteq Str /\ WeakStrings \subseteq S
  BY <1>3, Constants DEF WeakStrings, Ref
<1>5. \A u \in UpVal \ Orphans : (IsOpen(u)' <=> IsOpen(u)) /\ owner'[u] = owner[u] /\ level'[u] = level[u]
  BY <1>2 DEF IsOpen
<1>6. \A u \in Orphans : u \in UpVal /\ ~IsOpen(u)'
  BY <1>2 DEF IsOpen, Orphans
<1> HIDE DEF closed
<1>7. M \subseteq Str
  <2>1. \A x \in S : x \notin Str => x = Nil \/ ~IsWhite(x)
    <3> SUFFICES ASSUME NEW x \in S, x \notin Str, x # Nil PROVE ~IsWhite(x)
      OBVIOUS
    <3>1. PICK u \in closed : x = UvValue(u)
      BY <1>4
    <3>2. NonWhite(x) /\ x \in Obj
      BY <1>3, <3>1 DEF Ref
    <3> QED BY <1>1, <3>2, LiveColors
  <2>2. Whites(S) \subseteq Str
    BY <2>1 DEF Whites
  <2>3. Immediate(Whites(S)) = {}
    BY <2>2, DisjointAssumption DEF Immediate
  <2>4. Whites({}) = {}
    BY DEF Whites
  <2> HIDE DEF S
  <2> QED BY <2>2, <2>3, <2>4 DEF Marked
<1>8. ASSUME NEW o \in Obj
      PROVE  /\ o \in closed => color'[o] = "black"
             /\ o \in M => o \notin closed /\ color'[o] = "black"
             /\ o \notin M /\ o \notin closed => color'[o] = color[o]
  <2>1. o \in M => o \notin closed
    BY <1>3, <1>7, Kinds
  <2>2. o \in M => ColorMarked(o) = "black"
    BY <1>7 DEF ColorMarked
  <2> HIDE DEF S
  <2> QED BY <1>1, <1>2, <1>4, <2>1, <2>2, Painting
<1>9. \A x \in Ref : NonWhite(x) => Shaded(color', x)
  BY <1>8 DEF NonWhite, Shaded, Ref
<1>10. \A x \in WeakStrings : Shaded(color', x)
  <2>1. \A x \in WeakStrings : x \in Obj /\ x # Nil /\ (IsWhite(x) => x \in M)
    <3> HIDE DEF S
    <3> QED BY <1>1, <1>4, Constants, Painting
  <2>2. \A x \in WeakStrings : ~IsWhite(x) => NonWhite(x) \/ color[x] = "free"
    BY <1>1, <2>1 DEF TypeOK, Colors, White, IsWhite, NonWhite
  <2>3. \A t \in Table : \A f \in Fld : color[t] = "gray" /\ NonEmpty(t) /\ ref[t][f] \in Str
                                           => color[ref[t][f]] # "free"
    <3> SUFFICES ASSUME NEW t \in Table, NEW f \in Fld, color[t] = "gray", NonEmpty(t),
                        ref[t][f] \in Str
                 PROVE  color[ref[t][f]] # "free"
      OBVIOUS
    <3>1. t \in Obj /\ Live(t) /\ ref[t][f] # Nil
      BY <1>1, Constants, LiveColors DEF NonWhite
    <3>2. Live(ref[t][f])
      BY <3>1 DEF RefInv, FieldsLive, NonEmpty
    <3> QED BY <3>2 DEF Live
  <2>4. \A t \in weak : t \in Table /\ color[t] = "gray"
    BY <1>1, Kinds DEF ColorInv, OneList, TypeOK
  <2>5. \A x \in WeakStrings : color[x] # "free"
    BY <2>3, <2>4, Constants DEF WeakStrings
  <2> QED BY <1>8, <2>1, <2>2, <2>5 DEF Shaded, NonWhite
<1>11. /\ \A x \in Obj : Shaded(color', x) => Live(x)'
       /\ \A x \in Obj : Live(x)' => Shaded(color', x) \/ x \in Str
  <2>1. Other(Other(currentwhite)) = currentwhite
    BY <1>1 DEF TypeOK, White, Other
  <2>2. \A x \in Obj : Live(x)' <=> color'[x] # "free" /\ ~(color'[x] = currentwhite /\ x \notin Fixed)
    BY <1>2, <2>1 DEF Live, IsDead
  <2>3. \A x \in Obj : color'[x] \in {"free", "gray", "black", currentwhite, Other(currentwhite)}
    BY <1>1, Whitenesses DEF TypeOK, Colors, White
  <2>4. \A x \in Obj : color'[x] # Other(currentwhite)
    BY <1>1, <1>8, Whitenesses DEF ColorInv, OneWhite
  <2>5. Fixed \subseteq Str
    BY KindsAssumption
  <2> QED BY <1>1, <2>2, <2>3, <2>4, <2>5, Whitenesses, Constants DEF Shaded
<1>12. \A x \in Obj : \A f \in Fld :
          ref'[x][f] = IF x \in ClearedEntries /\ f \in {KEY, VAL} THEN Nil
                       ELSE IF x \in closed /\ f = VAL THEN UvValue(x)
                       ELSE ref[x][f]
  BY <1>2
<1>13. \A t \in ClearedEntries : t \in weak /\ t \in Table /\ color[t] = "gray"
  BY <1>1, Kinds DEF ColorInv, OneList, TypeOK, ClearedEntries
<1>14. \A th \in Thread : ref'[th] = ref[th]
  <2> SUFFICES ASSUME NEW th \in Thread PROVE ref'[th] = ref[th]
    OBVIOUS
  <2>1. th \in Obj /\ th \notin ClearedEntries /\ th \notin closed
    BY <1>3, <1>13, Kinds, Constants
  <2>2. ref'[th] = [f \in Fld |-> ref[th][f]]
    BY <1>2, <2>1
  <2> QED BY <1>1, <2>1, <2>2 DEF TypeOK
<1> HIDE DEF S, M, C
<1>15. ASSUME NEW t \in weak, NEW f \in Fld, ref'[t][f] # Nil,
              ~(f = KEY /\ ref'[t][VAL] = Nil)
       PROVE  Shaded(color', ref'[t][f])
  <2>1. t \in Table /\ t \in Obj /\ t \notin closed /\ VAL \in Fld /\ KEY \in Fld
    BY <1>1, <1>3, Constants, DisjointAssumption DEF TypeOK
  <2>2. ref[t][f] \in Ref /\ ref[t][f] # Nil /\ ref'[t][f] = ref[t][f]
    BY <1>1, <1>12, <1>15, <2>1 DEF TypeOK, Ref
  <2>3. f \in {KEY, VAL, MT}
    BY <2>1, <2>2, FitKinds DEF RefInv
  <2>4. CASE f = MT
    BY <1>1, <1>9, <1>15, <2>2, <2>4 DEF RefInv, AtomicDone
  <2>5. CASE f \in {KEY, VAL}
    <3>1. NonEmpty(t) /\ t \notin ClearedEntries
      BY <1>12, <1>15, <2>1, <2>2, <2>5 DEF NonEmpty
    <3>2. ~IsCleared(ref[t][KEY]) /\ ~IsCleared(ref[t][VAL])
      BY <1>15, <3>1 DEF ClearedEntries
    <3>3. CASE ref[t][f] \in Str
      <4>1. ref[t][f] \in WeakStrings
        BY <1>15, <2>5, <3>1, <3>2, <3>3 DEF WeakStrings
      <4> QED BY <1>10, <2>2, <4>1
    <3>4. CASE ref[t][f] \notin Str
      <4>1. ~IsWhite(ref[t][f]) /\ ref[t][f] \in Obj
        BY <2>2, <2>5, <3>2, <3>4 DEF IsCleared, Ref
      <4>2. color[t] = "gray" /\ Live(t)
        BY <1>1, <2>1, Kinds, LiveColors DEF ColorInv, OneList, NonWhite
      <4>3. Live(ref[t][f])
        BY <2>1, <2>2, <3>1, <4>2 DEF RefInv, FieldsLive, NonEmpty
      <4>4. NonWhite(ref[t][f])
        BY <1>1, <4>1, <4>3, LiveColors
      <4> QED BY <1>9, <2>2, <4>4
    <3> QED BY <3>3, <3>4
  <2> QED BY <2>3, <2>4, <2>5
<1>16. ASSUME NEW o \in Obj, Shaded(color', o), NEW f \in Fld, ref'[o][f] # Nil,
              ~(o \in Table /\ f = KEY /\ ref'[o][VAL] = Nil)
       PROVE  Shaded(color', ref'[o][f])
  <2>1. o # Nil /\ ref[o][f] \in Ref
    BY <1>1, Constants DEF TypeOK, Ref
  <2>2. ASSUME o \notin weak, o \notin closed
        PROVE  ref'[o][f] = ref[o][f]
    BY <1>12, <1>13, <2>2
  <2>3. o \notin M
    <3> SUFFICES ASSUME o \in Str PROVE FALSE
      BY <1>7
    <3>1. o \notin weak /\ o \notin closed
      BY <1>1, <1>3, DisjointAssumption DEF TypeOK
    <3>2. ref[o][f] # Nil
      BY <1>16, <2>2, <3>1
    <3> QED BY <3>2, FitKinds DEF RefInv
  <2>4. CASE o \in closed
    <3>1. o \in UpVal /\ o \notin ClearedEntries
      BY <1>3, <1>13, <2>4, DisjointAssumption
    <3>2. f = VAL
      BY <1>12, <1>16, <2>4, <3>1, FitKinds DEF RefInv
    <3> QED BY <1>3, <1>9, <1>12, <2>4, <3>1, <3>2
  <2>5. CASE o \notin closed /\ color[o] = "black"
    <3>1. o \notin weak
      BY <1>1, <2>5, Kinds DEF ColorInv, OneList, TypeOK
    <3>2. NonWhite(ref[o][f])
      <4>1. CASE o \notin Thread
        BY <1>1, <2>5, <4>1 DEF RefInv, BlackObjects
      <4>2. ASSUME o \in Thread, NEW u \in OpenOf(o), level[u] = f
            PROVE  NonWhite(ref[o][f])
        <5>1. color[u] = "gray" /\ u \in UpVal /\ IsOpen(u) /\ UvValue(u) = ref[o][f]
          BY <1>1, <2>1, <2>5, <4>2 DEF RefInv, BlackStacks, OpenOf, IsOpen, UvValue
        <5>2. NonWhite(UvValue(u))
          BY <1>1, <5>1 DEF RefInv, AtomicDone
        <5> QED BY <5>1, <5>2
      <4>3. o \in Thread => NonWhite(ref[o][f]) \/ \E u \in OpenOf(o) : level[u] = f
        BY <1>1, <2>5 DEF RefInv, BlackStacks
      <4> QED BY <4>1, <4>2, <4>3
    <3> QED BY <1>9, <2>1, <2>2, <2>5, <3>1, <3>2
  <2>6. CASE o \notin closed /\ color[o] = "gray"
    <3>1. CASE o \in weak
      <4>1. o \in Table
        BY <1>1, <3>1 DEF TypeOK
      <4> QED BY <1>15, <1>16, <3>1, <4>1
    <3>2. CASE o \in grayagain
      <4>1. o \notin weak /\ NonWhite(ref[o][f])
        BY <1>1, <3>2 DEF ColorInv, OneList, RefInv, AtomicDone
      <4> QED BY <1>9, <2>1, <2>2, <2>6, <4>1
    <3>3. CASE o \in UpVal /\ IsOpen(o)
      <4>1. o \notin weak
        BY <1>1, <3>3, DisjointAssumption DEF TypeOK
      <4>2. f = VAL /\ ref[o][VAL] = Nil
        BY <1>16, <2>2, <2>6, <3>3, <4>1, FitKinds DEF RefInv, Shapes
      <4> QED BY <1>16, <2>2, <2>6, <4>1, <4>2
    <3>4. o \in weak \/ o \in grayagain \/ (o \in UpVal /\ IsOpen(o))
      <4>1. o \in Listed \/ (o \in UpVal /\ IsOpen(o))
        BY <1>1, <2>6 DEF RefInv, GrayKinds
      <4>2. o \in Listed => o \in weak \/ o \in grayagain
        BY <1>1, <2>6 DEF ColorInv, OneList
      <4> QED BY <4>1, <4>2
    <3> QED BY <3>1, <3>2, <3>3, <3>4
  <2>7. color[o] \in {"gray", "black"} \/ o \in closed
    BY <1>8, <1>16, <2>1, <2>3 DEF Shaded
  <2> QED BY <2>4, <2>5, <2>6, <2>7
<1>17. Shapes'
  <2>1. ASSUME NEW o \in Obj, NEW f \in Fld PROVE Fits(o, f, ref'[o][f])
    <3>1. ASSUME o \in closed, f = VAL PROVE Fits(o, f, UvValue(o))
      <4>1. Live(o)
        BY <1>1, <1>3, <3>1, LiveColors DEF NonWhite
      <4> QED BY <1>3, <3>1, <4>1, UvValues DEF Fits
    <3>2. Fits(o, f, ref[o][f]) /\ Fits(o, f, Nil)
      BY DEF RefInv, Shapes, Fits
    <3> QED BY <1>12, <3>1, <3>2
  <2>2. ASSUME NEW u \in UpVal, IsOpen(u)' PROVE ref'[u][VAL] = Nil
    <3>1. u \notin Orphans /\ IsOpen(u) /\ u \in Obj /\ VAL \in Fld
      BY <1>5, <1>6, <2>2, Constants
    <3>2. u \notin closed
      BY <3>1 DEF closed
    <3>3. ref[u][VAL] = Nil
      BY <3>1 DEF RefInv, Shapes
    <3> QED BY <1>12, <3>1, <3>2, <3>3
  <2> QED BY <2>1, <2>2 DEF Shapes, Fits
<1>18. FreeEmpty'
  <2> SUFFICES ASSUME NEW o \in Obj, color'[o] = "free", NEW f \in Fld
               PROVE  ref'[o][f] = Nil
    BY DEF FreeEmpty
  <2>1. color[o] = "free" /\ o \notin closed
    BY <1>8
  <2>2. ref[o][f] = Nil
    BY <2>1 DEF RefInv, FreeEmpty
  <2> QED BY <1>12, <2>1, <2>2
<1>19. FieldsLive'
  <2> SUFFICES ASSUME NEW o \in Obj, Live(o)', NEW f \in Fld, ref'[o][f] # Nil,
                      ~(o \in Table /\ f = KEY /\ ref'[o][VAL] = Nil)
               PROVE  Live(ref[o][f])'
    BY DEF FieldsLive
  <2>1. ref'[o][f] \in Obj
    BY <1>1 DEF TypeOK
  <2>2. CASE o \in Str
    <3>1. o \notin closed /\ o \notin ClearedEntries
      BY <1>3, <1>13, <2>2, DisjointAssumption
    <3> QED BY <1>12, <2>2, <3>1, FitKinds DEF RefInv
  <2>3. CASE o \notin Str
    <3>1. Shaded(color', ref'[o][f])
      BY <1>11, <1>16, <2>3
    <3>2. \A x \in Obj : Shaded(color', x) => color'[x] # "free" /\ ~(color'[x] = Other(currentwhite') /\ x \notin Fixed)
      BY <1>11 DEF Live, IsDead
    <3> QED BY <2>1, <3>1, <3>2 DEF Live, IsDead
  <2> QED BY <2>2, <2>3
<1>20. RootsLive'
  <2>1. \A th \in Thread : IsActive(th)' => Live(th)'
    <3> SUFFICES ASSUME NEW th \in Thread, IsActive(th)' PROVE Live(th)'
      OBVIOUS
    <3>1. IsActive(th) /\ th \in Obj /\ th \in Ref
      BY <1>2, Constants DEF IsActive, execvars, Ref
    <3> QED BY <1>1, <1>9, <1>11, <3>1, ActivesMarked
  <2>2. ASSUME NEW x \in Roots', x # Nil PROVE Live(x)'
    <3>1. x \in Obj /\ NonWhite(x)
      BY <1>1, <1>2, <2>2, Constants
         DEF Roots, execvars, RefInv, RootsMarked, AtomicDone, TypeOK
    <3> QED BY <1>9, <1>11, <3>1 DEF Ref
  <2>3. ASSUME NEW th \in Thread, from[th] # Nil PROVE Keeps(from[th], th)'
    <3>1. from[th] \in Thread /\ Keeps(from[th], th)
      BY <1>1, <2>3 DEF TypeOK, RefInv, RootsLive
    <3>2. PICK i \in 1 .. top[from[th]] : ref[from[th]][i] = th /\ \A u \in OpenOf(from[th]) : level[u] # i
      BY <3>1 DEF Keeps
    <3>3. \A u \in UpVal : owner'[u] = from[th] => u \in OpenOf(from[th]) /\ level'[u] = level[u]
      <4> SUFFICES ASSUME NEW u \in UpVal, owner'[u] = from[th]
                   PROVE  owner[u] = from[th] /\ level'[u] = level[u]
        BY DEF OpenOf
      <4>1. owner'[u] # Nil
        BY <3>1, Constants
      <4>2. u \notin Orphans
        BY <1>6, <4>1 DEF IsOpen
      <4> QED BY <1>5, <4>2
    <3>4. from'[th] = from[th] /\ top'[from[th]] = top[from[th]] /\ ref'[from[th]] = ref[from[th]]
      BY <1>2, <1>14, <3>1 DEF execvars
    <3> QED BY <3>2, <3>3, <3>4 DEF Keeps, OpenOf
  <2> QED BY <1>2, <2>1, <2>2, <2>3 DEF RootsLive, execvars
<1>21. OpenOwner'
  <2> SUFFICES ASSUME NEW u \in UpVal, IsOpen(u)' PROVE Live(owner[u])'
    BY <1>1 DEF OpenOwner
  <2>1. u \notin Orphans /\ IsOpen(u) /\ owner'[u] = owner[u]
    BY <1>5, <1>6
  <2>2. u \in markedopen /\ owner[u] \in Obj
    BY <1>1, <2>1, Constants DEF Orphans, TypeOK, IsOpen
  <2>3. NonWhite(owner[u])
    BY <1>1, <2>1, <2>2 DEF RefInv, OpenOwner
  <2>4. Shaded(color', owner[u])
    BY <1>9, <2>2, <2>3 DEF Ref
  <2>5. \A x \in Obj : Shaded(color', x) => color'[x] # "free" /\ ~(color'[x] = Other(currentwhite') /\ x \notin Fixed)
    BY <1>11 DEF Live, IsDead
  <2> QED BY <2>1, <2>2, <2>4, <2>5 DEF Live, IsDead
<1> QED BY <1>1, <1>17, <1>18, <1>19, <1>20, <1>21
        DEF RefInv, GrayKinds, BlackObjects, BlackStacks, AtomicDone, RootsMarked

-----------------------------------------------------------------------------
(* The sweep *)

\* A step after which nothing is being marked need only keep references live.
LEMMA UnmarkedStep ==
    ASSUME ~KeepInvariant', pc' = "none",
           Shapes', FreeEmpty', RootsLive', FieldsLive',
           \A u \in UpVal : IsOpen(u)' => Live(owner[u])'
    PROVE  RefInv'
BY DEF RefInv, OpenOwner, GrayKinds, BlackObjects, BlackStacks, AtomicDone, RootsMarked

\* The sweep frees dead objects only, and what is alive refers to no dead object.
LEMMA SweepSafe ==
    ASSUME ColorInv, ColorInv', RefInv, NEW p \in Page, Sweep(p)
    PROVE  RefInv'
<1> DEFINE freed == {o \in InPage(p) : IsDead(o)}
<1>1. TypeOK /\ TypeOK' /\ gcstate = "sweep" /\ ~KeepInvariant' /\ pc' = "none"
  BY DEF ColorInv, Phases, KeepInvariant, Sweep
<1>2. /\ currentwhite' = currentwhite /\ gmt' = gmt /\ cur' = cur /\ from' = from
      /\ owner' = owner /\ level' = level
      /\ \A o \in Obj : ref'[o] = IF o \in freed THEN [f \in Fld |-> Nil] ELSE ref[o]
      /\ \A th \in Thread : top'[th] = IF th \in freed THEN 0 ELSE top[th]
  BY DEF Sweep, upvars
<1>3. \A o \in Obj : /\ o \in freed => color'[o] = "free" /\ ~Live(o)
                     /\ o \in InPage(p) \ freed => color'[o] = currentwhite /\ Live(o)
                     /\ o \notin InPage(p) => \/ color'[o] = color[o]
                                              \/ o = Main /\ color'[o] = currentwhite
  BY DEF Sweep, SweptColor, InPage, Live
<1>4. Live(Main) /\ Main \in Obj /\ currentwhite \notin {"free", Other(currentwhite)}
  BY <1>1, Whitenesses, Constants DEF RefInv, RootsLive, Roots
<1>5. \A o \in Obj : Live(o)' <=> Live(o)
  BY <1>2, <1>3, <1>4 DEF Live, IsDead
<1>6. \A o \in Obj : Live(o) => o \notin freed
  BY <1>3
<1> HIDE DEF freed
<1>7. Shapes'
  <2>1. ASSUME NEW o \in Obj, NEW f \in Fld PROVE Fits(o, f, ref'[o][f])
    <3>1. ref'[o][f] = ref[o][f] \/ ref'[o][f] = Nil
      BY <1>2
    <3> QED BY <3>1 DEF RefInv, Shapes, Fits
  <2>2. ASSUME NEW u \in UpVal, IsOpen(u)' PROVE ref'[u][VAL] = Nil
    <3>1. IsOpen(u) /\ u \in Obj /\ VAL \in Fld
      BY <1>2, <2>2, Constants DEF IsOpen
    <3>2. ref[u][VAL] = Nil
      BY <3>1 DEF RefInv, Shapes
    <3> QED BY <1>2, <3>1, <3>2
  <2> QED BY <2>1, <2>2 DEF Shapes, Fits
<1>8. FreeEmpty'
  <2> SUFFICES ASSUME NEW o \in Obj, color'[o] = "free", NEW f \in Fld
               PROVE  ref'[o][f] = Nil
    BY DEF FreeEmpty
  <2>1. o \in freed \/ color[o] = "free"
    BY <1>3, <1>4
  <2> QED BY <1>2, <2>1 DEF RefInv, FreeEmpty
<1>9. RootsLive'
  <2>1. ASSUME NEW x \in Roots, x # Nil PROVE Live(x)'
    <3>1. x \in Obj /\ Live(x)
      BY <1>1, <2>1, RootsType DEF RefInv, RootsLive, Ref
    <3> QED BY <1>5, <3>1
  <2>2. \A th \in Thread : IsActive(th)' => Live(th)'
    BY <1>2, <1>5, Constants DEF IsActive, RefInv, RootsLive
  <2>3. ASSUME NEW th \in Thread, from[th] # Nil PROVE Keeps(from[th], th)'
    <3>1. from[th] \in Thread /\ from[th] \in Obj /\ IsActive(from[th]) /\ Keeps(from[th], th)
      BY <1>1, <2>3, Constants DEF TypeOK, RefInv, RootsLive, ColorInv, ResumeChain
    <3>2. from[th] \notin freed
      BY <1>6, <3>1 DEF RefInv, RootsLive
    <3> QED BY <1>2, <3>1, <3>2 DEF Keeps, OpenOf
  <2> QED BY <1>2, <2>1, <2>2, <2>3 DEF RootsLive, Roots
<1>10. FieldsLive'
  <2> SUFFICES ASSUME NEW o \in Obj, Live(o)', NEW f \in Fld, ref'[o][f] # Nil,
                      ~(o \in Table /\ f = KEY /\ ref'[o][VAL] = Nil)
               PROVE  Live(ref[o][f])'
    BY DEF FieldsLive
  <2>1. Live(o) /\ ref'[o] = ref[o]
    BY <1>2, <1>5, <1>6
  <2>2. Live(ref[o][f]) /\ ref[o][f] \in Obj
    BY <1>1, <2>1 DEF RefInv, FieldsLive, TypeOK
  <2> QED BY <1>5, <2>1, <2>2 DEF Live, IsDead
<1>11. ASSUME NEW u \in UpVal, IsOpen(u)' PROVE Live(owner[u])'
  <2>1. IsOpen(u) /\ owner'[u] = owner[u] /\ owner[u] \in Obj
    BY <1>1, <1>2, <1>11, Constants DEF IsOpen, TypeOK
  <2>2. Live(owner[u])
    BY <2>1 DEF RefInv, OpenOwner
  <2> QED BY <1>5, <2>1, <2>2 DEF Live, IsDead
<1> QED BY <1>1, <1>7, <1>8, <1>9, <1>10, <1>11, UnmarkedStep

\* A full collection that abandons a marking changes no reference.
LEMMA FullGCSafe ==
    ASSUME ColorInv, ColorInv', RefInv, FullGC
    PROVE  RefInv'
<1>1. TypeOK /\ pc' = "none" /\ ~KeepInvariant'
  BY DEF ColorInv, FullGC, Running, KeepInvariant
<1>2. UNCHANGED <<ref, top, gmt, cur, from, owner, level, color, currentwhite>>
  BY DEF FullGC, execvars, upvars
<1>3. /\ Shapes' /\ FreeEmpty' /\ FieldsLive'
      /\ \A u \in UpVal : IsOpen(u)' => Live(owner[u])'
  BY <1>2 DEF RefInv, Shapes, FreeEmpty, FieldsLive, OpenOwner, Fits, Live, IsDead, IsOpen
<1>4. RootsLive'
  BY <1>2 DEF RefInv, RootsLive, Roots, Live, IsDead, IsActive, Keeps, OpenOf
<1> QED BY <1>1, <1>3, <1>4, UnmarkedStep

LEMMA CollectorSafe ==
    ASSUME ColorInv, ColorInv', RefInv, Collector
    PROVE  RefInv'
BY StartSafe, PropagateSafe, AtomicSafe, AtomicFinishSafe, SweepSafe DEF Collector


-----------------------------------------------------------------------------
(***************************************************************************)
(* The steps of the program.  Each is described by what it writes (Wrote), *)
(* what its barrier blackens and which upvalues it opens or closes, and any*)
(* step of that description preserves the invariant.                       *)
(***************************************************************************)

(* What a step of the program may do to references *)

\* The step stores a live value, marked if the object is black.
New(o, f) ==
    /\ Fits(o, f, ref'[o][f])
    /\ Live(o)'
    /\ Live(ref[o][f])'
    /\ o \in UpVal => ~IsOpen(o)'
    /\ o \in Thread => color'[o] # "black" \/ \E u \in OpenOf(o) : IsOpen(u)' /\ level[u] = f
    /\ KeepInvariant /\ o \notin Thread /\ color'[o] = "black" => NonWhite(ref[o][f])'

Wrote(o, f) ==
    \/ ref'[o][f] = Nil
    \/ /\ ref'[o][f] = ref[o][f]
       /\ o \in Table /\ f = KEY /\ ref'[o][VAL] # Nil => ref[o][VAL] # Nil
    \/ New(o, f)

Writes == \A o \in Obj : \A f \in Fld : Wrote(o, f)

\* An object that a barrier blackens has marked references.
Blackens ==
    KeepInvariant =>
        \A o \in Obj \ Thread : color'[o] = "black" /\ color[o] # "black" =>
            \A f \in Fld : NonWhite(ref[o][f])'

\* Upvalues are opened on the running thread, and closed with the part of the stack that
\* is in use only on a thread that is not black.
Opens ==
    \A u \in UpVal :
        /\ IsOpen(u)' =>
              \/ /\ IsOpen(u) /\ owner'[u] = owner[u] /\ level'[u] = level[u]
                 /\ u \in markedopen' <=> u \in markedopen
              \/ /\ ~IsOpen(u) /\ owner'[u] = cur /\ color'[cur] # "black"
                 /\ u \notin markedopen' /\ ref'[u][VAL] = Nil
        /\ IsOpen(u) /\ ~IsOpen(u)' =>
              /\ KeepInvariant => color'[u] # "gray"
              /\ color'[owner[u]] # "black" \/ \A f \in Fld : ref'[owner[u]][f] = Nil

Roots1 ==
    /\ gmt' # Nil => gmt' = gmt \/ Live(gmt)'
    /\ \A th \in Thread : IsActive(th)' => IsActive(th) \/ Live(th)'
    /\ \A th \in Thread : from'[th] # Nil => Keeps(from[th], th)'

Effect == Writes /\ Blackens /\ Opens /\ Roots1

\* What recolouring leaves alone.
LEMMA RecoloredColors ==
    ASSUME ColorInv, ColorInv', Recolored, Control
    PROVE  /\ KeepInvariant' <=> KeepInvariant
           /\ \A o \in Obj : Live(o) => Live(o)'
           /\ \A o \in Obj : Live(o)' => Live(o) \/ color[o] = "free" \/ o \in Str
           /\ \A o \in Obj : color'[o] = "free" => color[o] = "free"
           /\ KeepInvariant =>
                 /\ \A x \in Ref : NonWhite(x) => NonWhite(x)'
                 /\ \A o \in Obj : color'[o] = "gray" =>
                       color[o] = "gray" \/ o \in Listed \/ (o \in UpVal /\ IsOpen(o))
                 /\ \A th \in Thread : color'[th] = "black" => color[th] = "black"
<1>1. TypeOK /\ TypeOK' /\ currentwhite' = currentwhite /\ gcstate' = gcstate
  BY DEF ColorInv, Control
<1>2. \A o \in Obj : Recolor(o)
  BY DEF Recolored
<1> DEFINE cw == currentwhite
           ow == Other(currentwhite)
<1>3. /\ cw # ow /\ {cw, ow} \cap {"free", "gray", "black"} = {}
      /\ \A o \in Obj : IsWhite(o) <=> color[o] \in {cw, ow}
      /\ \A o \in Obj : ColorMarked(o) \in {"gray", "black"}
  BY <1>1, Whitenesses, Kinds DEF IsWhite, ColorMarked
<1>4. /\ \A o \in Obj : Live(o) <=> color[o] # "free" /\ ~(color[o] = ow /\ o \notin Fixed)
      /\ \A o \in Obj : Live(o)' <=> color'[o] # "free" /\ ~(color'[o] = ow /\ o \notin Fixed)
  BY <1>1 DEF Live, IsDead
<1>5. KeepInvariant => \A o \in Obj : color[o] # ow
  BY DEF ColorInv, OneWhite, KeepInvariant
<1>6. \A o \in Obj : ColorMarked(o) = "gray" => o \in Listed \/ (o \in UpVal /\ IsOpen(o))
  BY DEF ColorMarked, Obj, Listed
<1>7. \A th \in Thread : th \in Obj /\ th \notin UpVal /\ ColorMarked(th) = "gray"
  BY Kinds, Constants DEF ColorMarked
<1> HIDE DEF cw, ow
<1>8. \A o \in Obj : Live(o) => Live(o)'
  BY <1>2, <1>3, <1>4, <1>5 DEF Recolor, Fresh, cw
<1>9. \A o \in Obj : Live(o)' => Live(o) \/ color[o] = "free" \/ o \in Str
  BY <1>2, <1>3, <1>4, <1>5 DEF Recolor, Fresh, cw
<1>10. \A o \in Obj : color'[o] = "free" => color[o] = "free"
  BY <1>2, <1>3 DEF Recolor, Fresh, cw
<1>11. KeepInvariant => \A x \in Ref : NonWhite(x) => NonWhite(x)'
  <2> SUFFICES ASSUME KeepInvariant, NEW x \in Obj, color[x] \in {"gray", "black"}
               PROVE  color'[x] \in {"gray", "black"}
    BY DEF NonWhite, Ref
  <2>1. ~Fresh(x)
    BY <1>3, <1>4 DEF Fresh
  <2> QED BY <1>2, <1>3, <2>1 DEF Recolor
<1>12. ASSUME KeepInvariant, NEW o \in Obj, color'[o] = "gray"
       PROVE  color[o] = "gray" \/ o \in Listed \/ (o \in UpVal /\ IsOpen(o))
  BY <1>2, <1>3, <1>6, <1>12 DEF Recolor, cw
<1>13. ASSUME KeepInvariant, NEW th \in Thread, color'[th] = "black"
       PROVE  color[th] = "black"
  BY <1>2, <1>3, <1>7, <1>13 DEF Recolor, cw
<1> QED BY <1>1, <1>8, <1>9, <1>10, <1>11, <1>12, <1>13 DEF KeepInvariant

LEMMA EffectSafe ==
    ASSUME ColorInv, ColorInv', RefInv, Recolored, Control, pc = "none", Effect
    PROVE  RefInv'
<1>1. TypeOK /\ TypeOK' /\ pc' = "none" /\ Writes /\ Blackens /\ Opens /\ Roots1
  BY DEF ColorInv, Control, Effect
<1>2. Shapes'
  <2>1. ASSUME NEW o \in Obj, NEW f \in Fld PROVE Fits(o, f, ref'[o][f])
    <3>1. Wrote(o, f)
      BY <1>1 DEF Writes
    <3>2. Fits(o, f, ref[o][f]) /\ Fits(o, f, Nil)
      BY DEF RefInv, Shapes, Fits
    <3> QED BY <3>1, <3>2 DEF Wrote, New
  <2>2. ASSUME NEW u \in UpVal, IsOpen(u)' PROVE ref'[u][VAL] = Nil
    <3>1. IsOpen(u) => ref[u][VAL] = Nil
      BY DEF RefInv, Shapes
    <3>2. Wrote(u, VAL)
      BY <1>1, Constants DEF Writes
    <3> QED BY <1>1, <2>2, <3>1, <3>2 DEF Opens, Wrote, New
  <2> QED BY <2>1, <2>2 DEF Shapes, Fits
<1>3. FreeEmpty'
  <2> SUFFICES ASSUME NEW o \in Obj, color'[o] = "free", NEW f \in Fld
               PROVE  ref'[o][f] = Nil
    BY DEF FreeEmpty
  <2>1. color[o] = "free" /\ ~Live(o)'
    BY RecoloredColors DEF Live
  <2>2. ref[o][f] = Nil
    BY <2>1 DEF RefInv, FreeEmpty
  <2> QED BY <1>1, <2>1, <2>2 DEF Writes, Wrote, New
<1>4. FieldsLive'
  <2> SUFFICES ASSUME NEW o \in Obj, Live(o)', NEW f \in Fld, ref'[o][f] # Nil,
                      ~(o \in Table /\ f = KEY /\ ref'[o][VAL] = Nil)
               PROVE  Live(ref[o][f])'
    BY DEF FieldsLive
  <2>1. CASE New(o, f)
    BY <2>1 DEF New
  <2>2. CASE /\ ref'[o][f] = ref[o][f]
             /\ o \in Table /\ f = KEY /\ ref'[o][VAL] # Nil => ref[o][VAL] # Nil
    <3>1. Live(o)
      BY <2>2, RecoloredColors, FitKinds DEF RefInv, FreeEmpty
    <3>2. Live(ref[o][f]) /\ ref[o][f] \in Obj
      BY <1>1, <2>2, <3>1 DEF RefInv, FieldsLive, TypeOK
    <3>3. \A x \in Obj : Live(x) => color'[x] # "free" /\ ~(color'[x] = Other(currentwhite') /\ x \notin Fixed)
      BY RecoloredColors DEF Live, IsDead
    <3> QED BY <2>2, <3>2, <3>3 DEF Live, IsDead
  <2>3. Wrote(o, f)
    BY <1>1 DEF Writes
  <2> QED BY <2>1, <2>2, <2>3 DEF Wrote
<1>5. RootsLive'
  <2>1. ASSUME NEW x \in Roots', x # Nil PROVE Live(x)'
    <3>1. x \in Obj
      BY <1>1, <2>1, Constants DEF Roots, TypeOK
    <3>2. CASE x \in Roots
      <4>1. Live(x)
        BY <2>1, <3>2 DEF RefInv, RootsLive
      <4> QED BY <3>1, <4>1, RecoloredColors
    <3>3. CASE x \notin Roots
      <4>1. x = gmt' /\ gmt' # gmt /\ Live(gmt)'
        BY <1>1, <2>1, <3>3 DEF Roots, Roots1
      <4> QED BY <4>1 DEF Live, IsDead
    <3> QED BY <3>2, <3>3
  <2>2. \A th \in Thread : IsActive(th)' => Live(th)'
    BY <1>1, Constants, RecoloredColors DEF Roots1, RefInv, RootsLive
  <2> QED BY <1>1, <2>1, <2>2 DEF RootsLive, Roots1
<1>6. OpenOwner'
  <2> SUFFICES ASSUME NEW u \in UpVal, IsOpen(u)'
               PROVE  /\ Live(owner[u])'
                      /\ KeepInvariant /\ u \in markedopen' => NonWhite(owner[u])'
    BY RecoloredColors DEF OpenOwner
  <2>0. \A x \in Obj : Live(x) => color'[x] # "free" /\ ~(color'[x] = Other(currentwhite') /\ x \notin Fixed)
    BY RecoloredColors DEF Live, IsDead
  <2>1. CASE /\ IsOpen(u) /\ owner'[u] = owner[u]
             /\ u \in markedopen' <=> u \in markedopen
    <3>1. owner[u] \in Obj /\ Live(owner[u]) /\ owner[u] \in Ref
      BY <1>1, <2>1, Constants DEF TypeOK, IsOpen, RefInv, OpenOwner, Ref
    <3>2. Live(owner[u])'
      BY <2>0, <2>1, <3>1 DEF Live, IsDead
    <3>3. KeepInvariant /\ u \in markedopen' => NonWhite(owner[u])
      BY <2>1 DEF RefInv, OpenOwner
    <3>4. KeepInvariant /\ u \in markedopen' => NonWhite(owner[u])'
      <4> SUFFICES ASSUME KeepInvariant, u \in markedopen' PROVE NonWhite(owner[u])'
        OBVIOUS
      <4>1. color[owner[u]] \in {"gray", "black"}
        BY <3>1, <3>3, Constants DEF NonWhite
      <4>2. \A x \in Obj : color[x] \in {"gray", "black"} => color'[x] \in {"gray", "black"}
        BY RecoloredColors, Constants DEF NonWhite, Ref
      <4> QED BY <2>1, <3>1, <4>1, <4>2 DEF NonWhite
    <3> QED BY <3>2, <3>4
  <2>2. CASE owner'[u] = cur /\ u \notin markedopen'
    <3>1. cur \in Obj /\ Live(cur)
      BY <1>1, Constants DEF TypeOK, RefInv, RootsLive, ColorInv, ResumeChain
    <3> QED BY <2>0, <2>2, <3>1 DEF Live, IsDead
  <2> QED BY <1>1, <2>1, <2>2 DEF Opens
<1>7. GrayKinds'
  <2> SUFFICES ASSUME KeepInvariant, NEW o \in Obj, color'[o] = "gray"
               PROVE  o \in Listed \/ (o \in UpVal /\ IsOpen(o)')
    BY RecoloredColors DEF GrayKinds
  <2>1. o \in Listed \/ (o \in UpVal /\ IsOpen(o))
    BY RecoloredColors DEF RefInv, GrayKinds
  <2> QED BY <1>1, <2>1 DEF Opens
<1>8. BlackObjects'
  <2> SUFFICES ASSUME KeepInvariant, NEW o \in Obj \ Thread, color'[o] = "black", NEW f \in Fld
               PROVE  NonWhite(ref[o][f])'
    BY RecoloredColors DEF BlackObjects
  <2>1. CASE color[o] # "black"
    BY <1>1, <2>1 DEF Blackens
  <2>2. CASE color[o] = "black" /\ ref'[o][f] = ref[o][f]
    <3>1. NonWhite(ref[o][f]) /\ ref[o][f] \in Ref
      BY <1>1, <2>2 DEF RefInv, BlackObjects, TypeOK, Ref
    <3>2. \A x \in Ref : NonWhite(x) => x = Nil \/ color'[x] \in {"gray", "black"}
      BY RecoloredColors DEF NonWhite
    <3> QED BY <2>2, <3>1, <3>2 DEF NonWhite
  <2>3. CASE ref'[o][f] = Nil
    BY <2>3 DEF NonWhite
  <2>4. CASE New(o, f)
    BY <2>4 DEF New
  <2>5. Wrote(o, f)
    BY <1>1 DEF Writes
  <2> QED BY <2>1, <2>2, <2>3, <2>4, <2>5 DEF Wrote
<1>9. BlackStacks'
  <2> SUFFICES ASSUME KeepInvariant, NEW th \in Thread, color'[th] = "black"
               PROVE  /\ \A f \in Fld : NonWhite(ref[th][f])'
                                           \/ \E u \in OpenOf(th)' : level'[u] = f
                      /\ \A u \in OpenOf(th)' : color'[u] = "gray" /\ u \in markedopen'
    BY RecoloredColors DEF BlackStacks
  <2>1. th \in Obj /\ color[th] = "black" /\ th # Nil
    BY RecoloredColors, Constants
  <2>2. /\ \A f \in Fld : NonWhite(ref[th][f]) \/ \E u \in OpenOf(th) : level[u] = f
        /\ \A u \in OpenOf(th) : color[u] = "gray" /\ u \in markedopen
    BY <2>1 DEF RefInv, BlackStacks
  <2>3. \A x \in Ref : NonWhite(x) => x = Nil \/ color'[x] \in {"gray", "black"}
    BY RecoloredColors DEF NonWhite
  <2>4. ASSUME NEW u \in OpenOf(th)'
        PROVE  color'[u] = "gray" /\ u \in markedopen'
    <3>1. u \in UpVal /\ u \in Obj /\ owner'[u] = th /\ IsOpen(u)'
      BY <2>1, <2>4, Constants DEF OpenOf, IsOpen
    <3>2. owner[u] = th /\ IsOpen(u) /\ (u \in markedopen' <=> u \in markedopen)
      BY <1>1, <3>1 DEF Opens
    <3>3. color[u] = "gray" /\ u \in markedopen
      BY <2>2, <3>1, <3>2 DEF OpenOf
    <3>4. color'[u] \in {"gray", "black"}
      BY <2>3, <3>1, <3>3, Constants DEF NonWhite, Ref
    <3> QED BY <3>1, <3>2, <3>3, <3>4 DEF ColorInv, NeverBlack
  <2>5. ASSUME NEW u \in OpenOf(th), IsOpen(u)'
        PROVE  u \in OpenOf(th)' /\ level'[u] = level[u]
    <3>1. u \in UpVal /\ owner[u] = th /\ IsOpen(u)
      BY <2>1 DEF OpenOf, IsOpen
    <3>2. owner'[u] = owner[u] /\ level'[u] = level[u]
      BY <1>1, <2>5, <3>1 DEF Opens
    <3> QED BY <3>1, <3>2 DEF OpenOf
  <2>6. ASSUME NEW f \in Fld
        PROVE  NonWhite(ref[th][f])' \/ \E u \in OpenOf(th)' : level'[u] = f
    <3>1. CASE ref'[th][f] = Nil
      BY <3>1 DEF NonWhite
    <3>2. CASE ref'[th][f] = ref[th][f]
      <4>1. CASE NonWhite(ref[th][f])
        <5>1. ref[th][f] \in Ref
          BY <1>1, <2>1 DEF TypeOK, Ref
        <5> QED BY <2>3, <3>2, <4>1, <5>1 DEF NonWhite
      <4>2. ASSUME NEW u \in OpenOf(th), level[u] = f
            PROVE  NonWhite(ref[th][f])' \/ \E x \in OpenOf(th)' : level'[x] = f
        <5>1. CASE IsOpen(u)'
          BY <2>5, <4>2, <5>1
        <5>2. CASE ~IsOpen(u)'
          <6>1. u \in UpVal /\ owner[u] = th /\ IsOpen(u)
            BY <2>1 DEF OpenOf, IsOpen
          <6>2. ref'[th][f] = Nil
            BY <1>1, <5>2, <6>1 DEF Opens
          <6> QED BY <6>2 DEF NonWhite
        <5> QED BY <5>1, <5>2
      <4> QED BY <2>2, <4>1, <4>2
    <3>3. CASE New(th, f)
      <4>1. PICK u \in OpenOf(th) : IsOpen(u)' /\ level[u] = f
        BY <3>3 DEF New
      <4> QED BY <2>5, <4>1
    <3>4. Wrote(th, f)
      BY <1>1, <2>1 DEF Writes
    <3> QED BY <3>1, <3>2, <3>3, <3>4 DEF Wrote
  <2> QED BY <2>4, <2>6
<1>10. AtomicDone'
  BY <1>1 DEF AtomicDone
<1>11. RootsMarked'
  <2> SUFFICES ASSUME KeepInvariant PROVE NonWhite(Main)' /\ NonWhite(Registry)'
    BY RecoloredColors DEF RootsMarked
  <2>1. NonWhite(Main) /\ NonWhite(Registry) /\ Main \in Ref /\ Registry \in Ref
    BY Constants DEF RefInv, RootsMarked, Ref
  <2> QED BY <2>1, RecoloredColors
<1> QED BY <1>2, <1>3, <1>4, <1>5, <1>6, <1>7, <1>8, <1>9, <1>10, <1>11 DEF RefInv

-----------------------------------------------------------------------------
(* The parts of an effect *)

\* What the running thread holds is alive.
LEMMA RegsLive ==
    ASSUME ColorInv, RefInv
    PROVE  /\ cur \in Thread /\ cur \in Obj /\ Live(cur)
           /\ \A x \in Regs \cup {Registry} : x \in Value /\ x \in Obj /\ Live(x)
<1>1. cur \in Thread /\ cur \in Obj /\ Live(cur) /\ cur \notin Table
  BY Constants, Kinds DEF ColorInv, TypeOK, ResumeChain, RefInv, RootsLive
<1>2. ASSUME NEW x \in Regs PROVE x \in Value /\ Live(x)
  <2>1. PICK i \in 1 .. top[cur] : x = ref[cur][i] /\ x # Nil
    BY DEF Regs
  <2>2. i \in Fld
    BY <1>1, <2>1, Constants DEF ColorInv, TypeOK, Slot
  <2> QED BY <1>1, <2>1, <2>2, FitKinds DEF RefInv, FieldsLive
<1>3. Registry \in Value /\ Live(Registry)
  BY Constants, DisjointAssumption DEF RefInv, RootsLive, Roots, Value, Obj
<1> QED BY <1>1, <1>2, <1>3, Constants

\* What an instruction can read is alive.
LEMMA ReadableLive ==
    ASSUME ColorInv, RefInv, NEW v \in Readable, v # Nil
    PROVE  v \in Value /\ Live(v)
<1>1. CASE v \in Regs \cup {Registry}
  BY <1>1, RegsLive
<1>2. CASE v = gmt
  BY <1>2, Constants, DisjointAssumption DEF ColorInv, TypeOK, RefInv, RootsLive, Roots, Value, Obj
<1>3. ASSUME NEW o \in Regs \cup {Registry}, v \in Contents(o)
      PROVE  v \in Value /\ Live(v)
  <2>1. o \in Obj /\ Live(o) /\ {KEY, VAL, MT, CAP} \subseteq Fld
    BY RegsLive, Constants
  <2>2. MetaTable \subseteq Value
    BY Constants, DisjointAssumption DEF Value, Obj
  <2>3. ASSUME NEW f \in Fld, v = ref[o][f],
               o \in Table /\ f = KEY => ref[o][VAL] # Nil
        PROVE  Live(v)
    BY <2>1, <2>3 DEF RefInv, FieldsLive
  <2>4. CASE o \in Table
    <3>1. v = ref[o][MT] \/ (NonEmpty(o) /\ v \in {ref[o][KEY], ref[o][VAL]})
      BY <1>3, <2>4 DEF Contents
    <3>2. \A f \in Fld : ref[o][f] # Nil => ref[o][f] \in Value
      BY <2>1, <2>2, <2>4, DisjointAssumption DEF RefInv, Shapes, Fits
    <3> QED BY <2>1, <2>3, <3>1, <3>2 DEF NonEmpty, KEY, VAL, MT
  <2>5. CASE o \in Udata
    <3>1. v = ref[o][MT] /\ o \notin Table
      BY <1>3, <2>5, DisjointAssumption DEF Contents
    <3>2. v \in MetaTable
      BY <2>1, <2>5, <3>1, FitKinds DEF RefInv
    <3> QED BY <2>1, <2>2, <2>3, <3>1, <3>2
  <2>6. CASE o \in Func
    <3>1. /\ o \notin Table
          /\ v = IF ref[o][CAP] \in UpVal THEN UvValue(ref[o][CAP]) ELSE ref[o][CAP]
      BY <1>3, <2>6, DisjointAssumption DEF Contents
    <3>2. CASE ref[o][CAP] \in UpVal
      <4>1. Live(ref[o][CAP])
        BY <2>1, <3>1, <3>2, Constants DEF RefInv, FieldsLive
      <4> QED BY <3>1, <3>2, <4>1, UvValues
    <3>3. CASE ref[o][CAP] \notin UpVal
      <4>1. v = ref[o][CAP] /\ v \in Value
        BY <2>1, <3>1, <3>3 DEF ColorInv, TypeOK, Value
      <4> QED BY <2>1, <2>3, <3>1, <4>1
    <3> QED BY <3>2, <3>3
  <2> QED BY <1>3, <2>4, <2>5, <2>6 DEF Contents
<1> QED BY <1>1, <1>2, <1>3 DEF Readable

\* One store.
LEMMA StoreWrites ==
    ASSUME TypeOK, NEW o \in Obj, NEW f \in Fld, NEW v, Store(o, f, v),
           v = Nil \/ New(o, f), ~(o \in Table /\ f = VAL)
    PROVE  Writes
<1> SUFFICES ASSUME NEW x \in Obj, NEW g \in Fld PROVE Wrote(x, g)
  BY DEF Writes
<1>1. /\ ref'[o][f] = v
      /\ x # o \/ g # f => ref'[x][g] = ref[x][g]
      /\ x \in Table => ref'[x][VAL] = ref[x][VAL]
  BY Constants DEF Store, TypeOK
<1>2. CASE x = o /\ g = f
  BY <1>1, <1>2 DEF Wrote
<1>3. CASE x # o \/ g # f
  BY <1>1, <1>3 DEF Wrote
<1> QED BY <1>2, <1>3

\* Upvalues that are left alone.
LEMMA SameOpens ==
    ASSUME UNCHANGED <<upvars, markedopen>>
    PROVE  Opens
BY DEF Opens, IsOpen, upvars

\* A frame that resumed a thread and that the step leaves alone, except for the slots
\* closures can write.
Frame(r) ==
    /\ top'[r] = top[r]
    /\ \A i \in 1 .. top[r] : ref'[r][i] = ref[r][i] \/ \E u \in OpenOf(r) : level[u] = i
    /\ \A u \in UpVal : owner'[u] = r => owner[u] = r /\ level'[u] = level[u]

Frames == \A r \in Thread : IsActive(r) /\ r # cur => Frame(r)

LEMMA FramesKept ==
    ASSUME ColorInv, RefInv, Frames, NEW th \in Thread, from[th] # Nil, from'[th] = from[th]
    PROVE  Keeps(from[th], th)'
<1> DEFINE r == from[th]
<1>1. r \in Thread /\ IsActive(r) /\ r # cur
  BY DEF ColorInv, TypeOK, ResumeChain
<1>2. Keeps(r, th)
  BY DEF RefInv, RootsLive
<1> HIDE DEF r
<1>3. Frame(r)
  BY <1>1 DEF Frames
<1>4. PICK i \in 1 .. top[r] : ref[r][i] = th /\ \A u \in OpenOf(r) : level[u] # i
  BY <1>2 DEF Keeps
<1>5. i \in 1 .. top'[r] /\ ref'[r][i] = th
  BY <1>3, <1>4 DEF Frame
<1>6. \A u \in UpVal : owner'[u] = r => level'[u] # i
  BY <1>3, <1>4 DEF Frame, OpenOf
<1>7. from'[th] = r
  BY DEF r
<1> QED BY <1>5, <1>6, <1>7 DEF Keeps, OpenOf

LEMMA SameRoots ==
    ASSUME ColorInv, RefInv, Frames, UNCHANGED from, gmt' # Nil => gmt' = gmt \/ Live(gmt)'
    PROVE  Roots1
<1>1. \A th \in Thread : from'[th] # Nil => Keeps(from[th], th)'
  BY FramesKept
<1>2. \A th \in Thread : IsActive(th)' => IsActive(th)
  BY DEF IsActive
<1> QED BY <1>1, <1>2 DEF Roots1

\* A barrier marks the stored value if the holder stays black, and what it blackens has
\* marked references.
LEMMA BarrierShades ==
    ASSUME ColorInv, RefInv, NEW o \in Obj, NEW v \in Ref, v = Nil \/ Live(v), Barrier(o, v)
    PROVE  KeepInvariant =>
             /\ color'[o] = "black" => Shaded(color', v)
             /\ \A x \in Obj \ Thread : color'[x] = "black" /\ color[x] # "black" =>
                   x # o /\ \A f \in Fld : Shaded(color', ref[x][f])
<1> SUFFICES ASSUME KeepInvariant
             PROVE  /\ color'[o] = "black" => Shaded(color', v)
                    /\ \A x \in Obj \ Thread : color'[x] = "black" /\ color[x] # "black" =>
                          x # o /\ \A f \in Fld : Shaded(color', ref[x][f])
  OBVIOUS
<1>1. TypeOK
  BY DEF ColorInv
<1>2. CASE color[o] = "black" /\ color' = ColorsAfterMarking({v})
  <2>1. Marking(color', {v})
    BY <1>2, MarkingMarks DEF KeepInvariant
  <2> QED BY <1>2, <2>1 DEF Marking
<1>3. CASE color' = color /\ (v = Nil \/ color[o] # "black" \/ ~IsWhite(v))
  BY <1>1, <1>3, LiveColors DEF Shaded, NonWhite, Ref
<1> QED BY <1>2, <1>3 DEF Barrier

LEMMA TableBarrierShades ==
    ASSUME ColorInv, RefInv, NEW t \in Table, NEW S \in SUBSET Ref,
           \A v \in S : v = Nil \/ Live(v), TableBarrier(t, S)
    PROVE  KeepInvariant =>
             /\ color'[t] = "black" => \A v \in S : Shaded(color', v)
             /\ \A x \in Obj \ Thread : color'[x] = "black" /\ color[x] # "black" =>
                   x # t /\ \A f \in Fld : Shaded(color', ref[x][f])
<1> SUFFICES ASSUME KeepInvariant
             PROVE  /\ color'[t] = "black" => \A v \in S : Shaded(color', v)
                    /\ \A x \in Obj \ Thread : color'[x] = "black" /\ color[x] # "black" =>
                          x # t /\ \A f \in Fld : Shaded(color', ref[x][f])
  OBVIOUS
<1>1. TypeOK /\ t \in Obj
  BY Constants DEF ColorInv
<1>2. CASE color[t] = "black" /\ color' = ColorsAfterMarking(S)
  <2>1. Marking(color', S)
    BY <1>2, MarkingMarks DEF KeepInvariant
  <2> QED BY <1>2, <2>1 DEF Marking
<1>3. CASE BarrierBack(t)
  BY <1>1, <1>3 DEF BarrierBack, TypeOK
<1>4. CASE color' = color /\ (color[t] # "black" \/ Whites(S) = {})
  <2>1. ASSUME color[t] = "black", NEW v \in S PROVE Shaded(color', v)
    <3>1. v = Nil \/ (v \in Obj /\ Live(v) /\ ~IsWhite(v))
      BY <1>4, <2>1 DEF Whites, Ref
    <3> QED BY <1>1, <1>4, <3>1, LiveColors DEF Shaded, NonWhite
  <2> QED BY <1>4, <2>1
<1> QED BY <1>2, <1>3, <1>4 DEF TableBarrier

\* Closing the upvalues S of a thread: each takes its value along, marked if the upvalue
\* turns black.
LEMMA ClosingSafe ==
    ASSUME ColorInv, ColorInv', RefInv, Recolored, Control, UNCHANGED markedopen,
           NEW th \in Thread, NEW S \in SUBSET OpenOf(th), Closing(S),
           \A u \in S : \A f \in Fld : ref'[u][f] = IF f = VAL THEN UvValue(u) ELSE ref[u][f],
           \A o \in Obj \ (S \cup {th}) : ref'[o] = ref[o],
           color'[th] # "black" \/ \A f \in Fld : ref'[th][f] = Nil
    PROVE  /\ \A u \in S : \A f \in Fld : Wrote(u, f)
           /\ Blackens
           /\ Opens
<1> DEFINE S1 == {u \in S : color[u] = "gray"}
           values == {UvValue(u) : u \in S1}
           C == ColorsAfterMarking(values)
<1>1. /\ TypeOK /\ TypeOK'
      /\ \A u \in S : u \in UpVal /\ u \in Obj /\ u \notin Thread /\ u \notin Table /\ IsOpen(u)
                      /\ owner[u] = th /\ Live(u) /\ color[u] \in {currentwhite, "gray"}
  BY Constants, Kinds, DisjointAssumption, Whitenesses
     DEF ColorInv, OpenOf, OpenColors, IsOpen, Live, IsDead
<1>2. \A u \in S : UvValue(u) \in Value \cup {Nil} /\ (UvValue(u) = Nil \/ Live(UvValue(u)))
  BY <1>1, UvValues
<1>3. values \in SUBSET Ref /\ (\A v \in values : v = Nil \/ Live(v)) /\ values \cap UpVal = {}
  <2>1. \A v \in values : v \in Value \cup {Nil} /\ (v = Nil \/ Live(v))
    BY <1>2
  <2>2. Value \subseteq Obj /\ Value \cap UpVal = {} /\ Nil \notin UpVal
    BY Constants DEF Value
  <2> QED BY <2>1, <2>2 DEF Ref
<1>4. \A u \in UpVal : IsOpen(u)' <=> IsOpen(u) /\ u \notin S
  BY <1>1 DEF Closing, IsOpen, TypeOK
<1>5. \A u \in UpVal : u \notin S => owner'[u] = owner[u] /\ level'[u] = level[u]
  BY DEF Closing
<1>6. ASSUME KeepInvariant
      PROVE  /\ Marking(C, values)
             /\ \A o \in Obj : color'[o] = IF o \in S1 THEN "black" ELSE C[o]
  BY <1>3, <1>6, MarkingMarks DEF Closing, KeepInvariant
<1>7. ASSUME KeepInvariant, NEW x \in Ref, Shaded(C, x) PROVE Shaded(color', x)
  BY <1>6, <1>7 DEF Shaded, Ref
<1>8. ASSUME KeepInvariant, NEW u \in S, color[u] # "gray"
      PROVE  color'[u] \notin {"gray", "black"}
  <2>1. IsWhite(u) /\ u \in Obj /\ u \notin values /\ u \notin S1
    BY <1>1, <1>3, <1>8, Whitenesses DEF IsWhite
  <2>2. ~Shaded(C, u)
    BY <1>1, <1>6, <1>8, <2>1 DEF Marking
  <2>3. color'[u] = C[u]
    BY <1>6, <1>8, <2>1
  <2> QED BY <2>2, <2>3 DEF Shaded
<1>9. ASSUME KeepInvariant, NEW u \in S, color'[u] = "black"
      PROVE  Shaded(color', UvValue(u))
  <2>1. u \in S1
    BY <1>8, <1>9
  <2>2. UvValue(u) \in values /\ UvValue(u) \in Ref
    BY <1>3, <2>1
  <2> QED BY <1>6, <1>7, <1>9, <2>2 DEF Marking
<1> HIDE DEF S1, values, C
<1>10. ASSUME NEW u \in S, NEW f \in Fld PROVE Wrote(u, f)
  <2>0. u \in UpVal /\ u \in Obj /\ u \notin Thread /\ u \notin Table /\ VAL \in Fld
    BY <1>1, Constants
  <2>1. CASE f # VAL \/ UvValue(u) = Nil
    BY <2>0, <2>1 DEF Wrote
  <2>2. CASE f = VAL /\ UvValue(u) # Nil
    <3>1. ref'[u][f] = UvValue(u) /\ UvValue(u) \in Value /\ Live(UvValue(u))
          /\ UvValue(u) \in Obj
      BY <1>2, <2>2, Constants
    <3>2. Fits(u, f, ref'[u][f])
      BY <2>0, <2>2, <3>1 DEF Fits
    <3>3. \A x \in Obj : Live(x) => Live(x)'
      BY RecoloredColors
    <3>4. \A x \in Obj : Live(x) => color'[x] # "free" /\ ~(color'[x] = Other(currentwhite') /\ x \notin Fixed)
      BY <3>3 DEF Live, IsDead
    <3>5. Live(u)' /\ Live(ref[u][f])'
      BY <1>1, <2>0, <3>1, <3>4 DEF Live, IsDead
    <3>6. KeepInvariant /\ color'[u] = "black" => NonWhite(ref[u][f])'
      BY <1>9, <3>1 DEF Shaded, NonWhite
    <3> QED BY <1>4, <2>0, <3>2, <3>5, <3>6 DEF Wrote, New
  <2> QED BY <2>1, <2>2
<1>11. ASSUME KeepInvariant, NEW o \in Obj \ Thread, color'[o] = "black", color[o] # "black",
              NEW f \in Fld
       PROVE  NonWhite(ref[o][f])'
  <2>1. CASE o \in S
    <3>1. CASE f = VAL
      BY <1>9, <1>11, <2>1, <3>1 DEF Shaded, NonWhite
    <3>2. CASE f # VAL
      <4>1. ref'[o][f] = ref[o][f] /\ ref[o][f] = Nil
        BY <1>1, <2>1, <3>2, FitKinds DEF RefInv
      <4> QED BY <4>1 DEF NonWhite
    <3> QED BY <3>1, <3>2
  <2>2. CASE o \notin S
    <3>1. C[o] = "black" /\ o \notin S1
      BY <1>6, <1>11, <2>2 DEF S1
    <3>2. IsWhite(o)
      BY <1>6, <1>11, <3>1 DEF Marking
    <3>3. Shaded(C, ref[o][f]) /\ ref[o][f] \in Ref
      BY <1>1, <1>6, <1>11, <3>1, <3>2 DEF Marking, TypeOK, Ref
    <3>4. Shaded(color', ref[o][f]) /\ ref'[o] = ref[o]
      BY <1>7, <1>11, <2>2, <3>3
    <3> QED BY <3>4 DEF Shaded, NonWhite
  <2> QED BY <2>1, <2>2
<1>12. Opens
  <2>1. ASSUME NEW u \in UpVal, IsOpen(u)'
        PROVE  /\ IsOpen(u) /\ owner'[u] = owner[u] /\ level'[u] = level[u]
               /\ u \in markedopen' <=> u \in markedopen
    BY <1>4, <1>5, <2>1
  <2>2. ASSUME NEW u \in UpVal, IsOpen(u), ~IsOpen(u)'
        PROVE  /\ KeepInvariant => color'[u] # "gray"
               /\ color'[owner[u]] # "black" \/ \A f \in Fld : ref'[owner[u]][f] = Nil
    <3>1. u \in S /\ owner[u] = th
      BY <1>1, <1>4, <2>2
    <3>2. ASSUME KeepInvariant PROVE color'[u] # "gray"
      BY <1>1, <1>6, <1>8, <3>1, <3>2 DEF S1
    <3> QED BY <3>1, <3>2
  <2> QED BY <2>1, <2>2 DEF Opens
<1> QED BY <1>10, <1>11, <1>12 DEF Blackens

-----------------------------------------------------------------------------
(* The steps of the program *)

\* A live value survives a step that recolours.
LEMMA StaysLive ==
    ASSUME ColorInv, ColorInv', Recolored, Control
    PROVE  /\ \A x \in Obj : Live(x) =>
                 color'[x] # "free" /\ ~(color'[x] = Other(currentwhite') /\ x \notin Fixed)
           /\ \A x \in Obj : color'[x] = currentwhite =>
                 color'[x] # "free" /\ ~(color'[x] = Other(currentwhite') /\ x \notin Fixed)
<1>1. \A x \in Obj : Live(x) => Live(x)'
  BY RecoloredColors
<1>2. \A x \in Obj : color'[x] = currentwhite =>
          color'[x] # "free" /\ ~(color'[x] = Other(currentwhite') /\ x \notin Fixed)
  BY Whitenesses DEF ColorInv, Control
<1> QED BY <1>1, <1>2 DEF Live, IsDead

\* A store to a register of the running thread.
LEMMA RegNew ==
    ASSUME ColorInv, ColorInv', RefInv, Recolored, Control, UNCHANGED <<cur, from>>,
           NEW c \in Thread, c = cur, NEW i \in Slot, NEW v \in Value, ref'[c][i] = v,
           color'[v] # "free", ~(color'[v] = Other(currentwhite') /\ v \notin Fixed)
    PROVE  New(c, i)
<1>1. c \in Obj /\ c \notin UpVal /\ v \in Obj
  BY Constants, Kinds
<1>2. Live(c)'
  BY <1>1, StaysLive, RegsLive DEF Live, IsDead
<1>3. color'[c] # "black"
  BY DEF ColorInv, ResumeChain, NeverBlack
<1>4. Live(ref[c][i])'
  BY DEF Live, IsDead
<1>5. Fits(c, i, ref'[c][i])
  BY DEF Fits
<1> QED BY <1>1, <1>2, <1>3, <1>4, <1>5 DEF New

LEMMA SetRegEffect ==
    ASSUME ColorInv, ColorInv', RefInv, Recolored, Control, NEW i \in Slot,
           NEW v \in Value \cup {Nil}, SetReg(i, v),
           v # Nil => color'[v] # "free" /\ ~(color'[v] = Other(currentwhite') /\ v \notin Fixed),
           UNCHANGED <<execvars, upvars, markedopen>>,
           \A o \in Obj : color'[o] = "black" => color[o] = "black"
    PROVE  Effect
<1>1. PICK c \in Thread : c = cur
  BY RegsLive
<1>2. c \in Obj /\ c \notin Table /\ i \in Fld /\ Store(c, i, v) /\ TypeOK
  BY <1>1, Constants, Kinds DEF SetReg, ColorInv
<1>3. ref'[c][i] = v
  BY <1>2 DEF Store, TypeOK
<1>4. UNCHANGED <<top, gmt, cur, from>>
  BY DEF execvars
<1>5. v = Nil \/ New(c, i)
  BY <1>1, <1>3, <1>4, RegNew
<1>6. Writes
  BY <1>2, <1>5, StoreWrites
<1>7. Blackens
  BY DEF Blackens
<1>8. Frames
  <2>1. \A r \in Thread : r # c => ref'[r] = ref[r]
    BY <1>2, Constants DEF Store, TypeOK
  <2> QED BY <1>1, <1>4, <2>1 DEF Frames, Frame, upvars
<1>9. Roots1
  BY <1>4, <1>8, SameRoots
<1> QED BY <1>6, <1>7, <1>9, SameOpens DEF Effect

LEMMA LoadEffect ==
    ASSUME ColorInv, ColorInv', RefInv, Recolored, Control,
           NEW i \in Slot, NEW v \in Value \cup {Nil}, Load(i, v)
    PROVE  Effect
<1>1. v # Nil => v \in Obj /\ Live(v)
  BY ReadableLive, Constants DEF Load
<1>2. v # Nil => color'[v] # "free" /\ ~(color'[v] = Other(currentwhite') /\ v \notin Fixed)
  BY <1>1, StaysLive
<1> QED BY <1>2, SetRegEffect DEF Load, phase

LEMMA NewObjectEffect ==
    ASSUME ColorInv, ColorInv', RefInv, Recolored, Control,
           NEW i \in Slot, NEW o \in Obj, NewObject(o, i) \/ NewString(o, i)
    PROVE  Effect
<1>1. o \in Value
  BY DisjointAssumption DEF NewObject, NewString, Value
<1>2. /\ SetReg(i, o) /\ UNCHANGED <<execvars, upvars, markedopen>>
      /\ \/ color' = color /\ Live(o)
         \/ color' = [color EXCEPT ![o] = currentwhite]
  BY DEF NewObject, NewString, phase
<1>3. \A x \in Obj : color'[x] = "black" => color[x] = "black"
  BY <1>2, Whitenesses DEF ColorInv, TypeOK
<1>4. Live(o) \/ color'[o] = currentwhite
  BY <1>2 DEF ColorInv, TypeOK
<1>5. color'[o] # "free" /\ ~(color'[o] = Other(currentwhite') /\ o \notin Fixed)
  BY <1>4, StaysLive
<1> QED BY <1>1, <1>2, <1>3, <1>5, SetRegEffect

LEMMA CallEffect ==
    ASSUME ColorInv, ColorInv', RefInv, Recolored, Control, Call \/ Return
    PROVE  Effect
<1>1. UNCHANGED <<ref, gmt, cur, from, upvars, color, markedopen>>
  BY DEF Call, Return, phase
<1>2. \A r \in Thread : r # cur => top'[r] = top[r]
  BY DEF Call, Return, ColorInv, TypeOK
<1>3. Writes /\ Blackens
  BY <1>1 DEF Writes, Wrote, Blackens
<1>4. Frames
  BY <1>1, <1>2 DEF Frames, Frame, upvars
<1>5. Roots1 /\ Opens
  BY <1>1, <1>4, SameRoots, SameOpens
<1> QED BY <1>3, <1>5 DEF Effect

\* A new closure and what it captures.
LEMMA ClosureWrites ==
    ASSUME ColorInv, ColorInv', RefInv, Recolored, Control, UNCHANGED <<cur, from>>,
           NEW f \in Func, NEW i \in Slot, NEW v \in Obj,
           ref' = [ref EXCEPT ![f][CAP] = v, ![cur][i] = f],
           color'[f] = currentwhite,
           color'[v] # "free", ~(color'[v] = Other(currentwhite') /\ v \notin Fixed)
    PROVE  Writes /\ \A r \in Obj : r # cur /\ r # f => ref'[r] = ref[r]
<1>1. PICK c \in Thread : c = cur
  BY RegsLive
<1>2. /\ TypeOK /\ c \in Obj /\ f \in Obj /\ c # f /\ i \in Fld /\ CAP \in Fld
      /\ f \notin Table /\ f \notin Thread /\ f \notin UpVal /\ c \notin Table /\ f \in Value
  BY Constants, DisjointAssumption DEF ColorInv, Value
<1>3. /\ ref'[f][CAP] = v
      /\ ref'[c][i] = f
      /\ \A x \in Obj, g \in Fld :
            (x # f \/ g # CAP) /\ (x # c \/ g # i) => ref'[x][g] = ref[x][g]
      /\ \A r \in Obj : r # c /\ r # f => ref'[r] = ref[r]
  BY <1>1, <1>2 DEF TypeOK
<1>4. New(c, i)
  BY <1>1, <1>2, <1>3, StaysLive, RegNew
<1>5. New(f, CAP)
  <2>1. Live(f)' /\ Live(ref[f][CAP])'
    BY <1>2, <1>3, StaysLive DEF Live, IsDead
  <2>2. color'[f] # "black"
    BY Whitenesses DEF ColorInv
  <2>3. Fits(f, CAP, ref'[f][CAP])
    BY <1>3 DEF Fits
  <2> QED BY <1>2, <2>1, <2>2, <2>3 DEF New
<1>6. ASSUME NEW x \in Obj, NEW g \in Fld PROVE Wrote(x, g)
  <2>1. CASE x = f /\ g = CAP
    BY <1>5, <2>1 DEF Wrote
  <2>2. CASE x = c /\ g = i
    BY <1>4, <2>2 DEF Wrote
  <2>3. CASE (x # f \/ g # CAP) /\ (x # c \/ g # i)
    <3>1. ref'[x][g] = ref[x][g]
      BY <1>3, <2>3
    <3>2. x \in Table => ref'[x][VAL] = ref[x][VAL]
      BY <1>2, <1>3
    <3> QED BY <3>1, <3>2 DEF Wrote
  <2> QED BY <2>1, <2>2, <2>3
<1> QED BY <1>1, <1>3, <1>6 DEF Writes

LEMMA NewClosureEffect ==
    ASSUME ColorInv, ColorInv', RefInv, Recolored, Control,
           NEW i \in Slot, NEW f \in Func, NEW v \in Obj, NewClosure(f, i, v)
    PROVE  Effect
<1>1. /\ UNCHANGED <<top, gmt, cur, from, upvars, markedopen>>
      /\ color' = [color EXCEPT ![f] = currentwhite]
      /\ ref' = [ref EXCEPT ![f][CAP] = v, ![cur][i] = f]
      /\ v \in Regs \cup {f} \cup {ref[x][CAP] : x \in Regs \cap Func}
  BY DEF NewClosure, execvars, phase
<1>2. f \in Obj /\ f \notin Thread /\ CAP \in Fld /\ color'[f] = currentwhite
      /\ \A x \in Func : x \notin Table
  BY <1>1, Constants, DisjointAssumption DEF ColorInv, TypeOK
<1>3. v = f \/ Live(v)
  <2>1. CASE v \in Regs
    BY <2>1, RegsLive
  <2>2. ASSUME NEW x \in Regs \cap Func, v = ref[x][CAP]
        PROVE  Live(v)
    BY <1>2, <2>2, RegsLive, Constants DEF RefInv, FieldsLive
  <2> QED BY <1>1, <2>1, <2>2
<1>4. color'[v] # "free" /\ ~(color'[v] = Other(currentwhite') /\ v \notin Fixed)
  BY <1>2, <1>3, StaysLive
<1>5. Writes /\ \A r \in Obj : r # cur /\ r # f => ref'[r] = ref[r]
  BY <1>1, <1>2, <1>4, ClosureWrites
<1>6. Blackens
  BY <1>1, <1>2, Whitenesses DEF Blackens, ColorInv, TypeOK
<1>7. Frames
  BY <1>1, <1>2, <1>5, Constants DEF Frames, Frame, upvars
<1>8. Roots1 /\ Opens
  BY <1>1, <1>7, SameRoots, SameOpens
<1> QED BY <1>5, <1>6, <1>8 DEF Effect

LEMMA NewClosureOverEffect ==
    ASSUME ColorInv, ColorInv', RefInv, Recolored, Control, NEW i \in Slot, NEW f \in Func,
           NEW j \in Slot, NEW u \in UpVal, NewClosureOver(f, i, j, u)
    PROVE  Effect
<1>1. /\ UNCHANGED <<top, gmt, cur, from>>
      /\ color[f] = "free"
      /\ ref' = [ref EXCEPT ![f][CAP] = u, ![cur][i] = f]
  BY DEF NewClosureOver, execvars
<1>2. /\ TypeOK /\ f \in Obj /\ u \in Obj /\ f # u /\ f \notin Thread /\ cur \in Thread
      /\ u \notin Thread /\ VAL \in Fld
  BY Constants, DisjointAssumption DEF ColorInv, TypeOK
<1>3. CASE /\ owner[u] = cur
           /\ color' = [color EXCEPT ![f] = currentwhite]
           /\ UNCHANGED <<upvars, markedopen>>
  <2>1. IsOpen(u) /\ Live(u)
    BY <1>2, <1>3, Constants, Whitenesses DEF IsOpen, Live, IsDead, ColorInv, OpenColors
  <2>2. color'[f] = currentwhite /\ \A x \in Obj : color'[x] = "black" => color[x] = "black"
    BY <1>2, <1>3, Whitenesses DEF TypeOK
  <2>3. color'[u] # "free" /\ ~(color'[u] = Other(currentwhite') /\ u \notin Fixed)
    BY <1>2, <2>1, StaysLive
  <2>4. Writes /\ \A r \in Obj : r # cur /\ r # f => ref'[r] = ref[r]
    BY <1>1, <1>2, <2>2, <2>3, ClosureWrites
  <2>5. Blackens
    BY <2>2 DEF Blackens
  <2>6. Frames
    BY <1>1, <1>2, <1>3, <2>4, Constants DEF Frames, Frame, upvars
  <2>7. Roots1 /\ Opens
    BY <1>1, <1>3, <2>6, SameRoots, SameOpens
  <2> QED BY <2>4, <2>5, <2>7 DEF Effect
<1>4. CASE /\ color[u] = "free"
           /\ color' = [color EXCEPT ![f] = currentwhite, ![u] = currentwhite]
           /\ owner' = [owner EXCEPT ![u] = cur]
           /\ level' = [level EXCEPT ![u] = j]
           /\ markedopen' = markedopen \ {u}
  <2>1. color'[f] = currentwhite /\ color'[u] = currentwhite
        /\ \A x \in Obj : color'[x] = "black" => color[x] = "black"
    BY <1>2, <1>4, Whitenesses DEF TypeOK
  <2>2. color'[u] # "free" /\ ~(color'[u] = Other(currentwhite') /\ u \notin Fixed)
    BY <1>2, <2>1, StaysLive
  <2>3. Writes /\ \A r \in Obj : r # cur /\ r # f => ref'[r] = ref[r]
    BY <1>1, <1>2, <2>1, <2>2, ClosureWrites
  <2>4. Blackens
    BY <2>1 DEF Blackens
  <2>5. /\ owner'[u] = cur /\ \A x \in UpVal : x # u => owner'[x] = owner[x] /\ level'[x] = level[x]
    BY <1>2, <1>4 DEF TypeOK
  <2>6. Frames
    BY <1>1, <1>2, <2>3, <2>5, Constants DEF Frames, Frame
  <2>7. ~IsOpen(u) /\ ref'[u][VAL] = Nil
    <3>1. ref[u][VAL] = Nil
      BY <1>2, <1>4 DEF RefInv, FreeEmpty
    <3>2. ~IsOpen(u)
      BY <1>4, Whitenesses DEF ColorInv, OpenColors
    <3> QED BY <1>2, <2>3, <3>1, <3>2
  <2>8. color'[cur] # "black"
    BY <1>1, <1>2 DEF ColorInv, ResumeChain, NeverBlack, IsActive
  <2>9. Opens
    BY <1>4, <2>5, <2>7, <2>8 DEF Opens, IsOpen
  <2>10. Roots1
    BY <1>1, <2>6, SameRoots
  <2> QED BY <2>3, <2>4, <2>9, <2>10 DEF Effect
<1> QED BY <1>3, <1>4 DEF NewClosureOver, phase

\* The stores that are followed by a barrier on the holder.
LEMMA BarrierEffect ==
    ASSUME ColorInv, ColorInv', RefInv, Recolored, Control,
           NEW o \in Obj, o \notin Thread, NEW f \in Fld, NEW v \in Ref,
           ~(o \in Table /\ f = VAL), Fits(o, f, v), o \in UpVal => ~IsOpen(o),
           Live(o), v # Nil => Live(v), Store(o, f, v), Barrier(o, v),
           UNCHANGED <<execvars, upvars, markedopen>>
    PROVE  Effect
<1>1. TypeOK /\ UNCHANGED <<top, gmt, cur, from>>
  BY DEF ColorInv, execvars
<1>2. /\ ref'[o][f] = v
      /\ \A x \in Obj : x # o => ref'[x] = ref[x]
  BY <1>1 DEF Store, TypeOK
<1>3. KeepInvariant =>
         /\ color'[o] = "black" => Shaded(color', v)
         /\ \A x \in Obj \ Thread : color'[x] = "black" /\ color[x] # "black" =>
               x # o /\ \A g \in Fld : Shaded(color', ref[x][g])
  BY BarrierShades
<1>4. v = Nil \/ New(o, f)
  <2>1. CASE v # Nil
    <3>1. v \in Obj
      BY <2>1 DEF Ref
    <3>2. Live(o)' /\ Live(ref[o][f])'
      BY <1>2, <2>1, <3>1, StaysLive DEF Live, IsDead
    <3>3. o \in UpVal => ~IsOpen(o)'
      BY DEF IsOpen, upvars
    <3>4. KeepInvariant /\ color'[o] = "black" => NonWhite(ref[o][f])'
      BY <1>2, <1>3 DEF Shaded, NonWhite
    <3>5. Fits(o, f, ref'[o][f])
      BY <1>2
    <3> QED BY <3>2, <3>3, <3>4, <3>5 DEF New
  <2> QED BY <2>1
<1>5. Writes
  BY <1>1, <1>4, StoreWrites
<1>6. Blackens
  <2> SUFFICES ASSUME KeepInvariant, NEW x \in Obj \ Thread, color'[x] = "black",
                      color[x] # "black", NEW g \in Fld
               PROVE  NonWhite(ref[x][g])'
    BY DEF Blackens
  <2>1. ref'[x] = ref[x] /\ Shaded(color', ref[x][g])
    BY <1>2, <1>3
  <2> QED BY <2>1 DEF Shaded, NonWhite
<1>7. Frames
  BY <1>1, <1>2, Constants DEF Frames, Frame, upvars
<1>8. Roots1 /\ Opens
  BY <1>1, <1>7, SameRoots, SameOpens
<1> QED BY <1>5, <1>6, <1>8 DEF Effect

LEMMA SetCapturedEffect ==
    ASSUME ColorInv, ColorInv', RefInv, Recolored, Control,
           NEW f \in Func, NEW v \in Value \cup {Nil}, SetCaptured(f, v)
    PROVE  Effect
<1>1. /\ f \in Obj /\ f \notin Thread /\ f \notin UpVal /\ f \notin Table /\ CAP \in Fld
      /\ v \in Ref
  BY Constants, DisjointAssumption DEF Ref
<1>2. /\ f \in Regs /\ v \in Regs /\ Store(f, CAP, v) /\ Barrier(f, v)
      /\ UNCHANGED <<execvars, upvars, markedopen>>
  BY DEF SetCaptured, phase
<1>3. Live(f) /\ Live(v) /\ v \in Obj
  BY <1>2, RegsLive
<1>4. Fits(f, CAP, v)
  BY <1>3 DEF Fits
<1> QED BY <1>1, <1>2, <1>3, <1>4, BarrierEffect

LEMMA SetUpvalEffect ==
    ASSUME ColorInv, ColorInv', RefInv, Recolored, Control,
           NEW f \in Func, NEW v \in Value \cup {Nil}, SetUpval(f, v)
    PROVE  Effect
<1>1. PICK u \in UpVal : u = ref[f][CAP]
  BY DEF SetUpval
<1>2. /\ f \in Regs
      /\ v \in Regs \cup {Nil}
      /\ IF IsOpen(u) THEN Store(owner[u], level[u], v) ELSE Store(u, VAL, v)
      /\ Barrier(u, v)
      /\ UNCHANGED <<execvars, upvars, markedopen>>
  BY <1>1 DEF SetUpval, phase
<1>3. /\ TypeOK /\ UNCHANGED <<top, gmt, cur, from>>
      /\ f \in Obj /\ f \notin Table /\ CAP \in Fld /\ VAL \in Fld /\ v \in Ref
      /\ u \in Obj /\ u \notin Thread /\ u \notin Table /\ u # Nil
  BY <1>2, Constants, DisjointAssumption DEF ColorInv, execvars, Ref
<1>4. Live(u)
  BY <1>1, <1>2, <1>3, RegsLive DEF RefInv, FieldsLive
<1>5. v # Nil => v \in Value /\ v \in Obj /\ Live(v)
  BY <1>2, RegsLive
<1>6. CASE ~IsOpen(u)
  <2>1. Fits(u, VAL, v)
    BY <1>5 DEF Fits
  <2> QED BY <1>2, <1>3, <1>4, <1>5, <1>6, <2>1, BarrierEffect
<1>7. CASE IsOpen(u)
  <2>1. PICK th \in Thread, l \in Slot : th = owner[u] /\ l = level[u]
    BY <1>3, <1>7 DEF IsOpen, TypeOK
  <2>2. /\ th \in Obj /\ th \notin Table /\ th \notin UpVal /\ l \in Fld /\ Store(th, l, v)
        /\ u \in OpenOf(th)
    BY <1>2, <1>7, <2>1, Constants, Kinds DEF OpenOf
  <2>3. color' = color
    BY <1>2, <1>7 DEF Barrier, ColorInv, NeverBlack
  <2>4. ref'[th][l] = v
        /\ \A r \in Thread, i \in Slot : r # th \/ i # l => ref'[r][i] = ref[r][i]
    BY <1>3, <2>2, Constants DEF Store, TypeOK
  <2>5. v = Nil \/ New(th, l)
    <3>1. CASE v # Nil
      <4>1. Live(th)
        BY <1>7, <2>1 DEF RefInv, OpenOwner
      <4>2. Live(th)' /\ Live(ref[th][l])'
        BY <1>5, <2>2, <2>4, <3>1, <4>1, StaysLive DEF Live, IsDead
      <4>3. IsOpen(u)'
        BY <1>2, <1>7 DEF IsOpen, upvars
      <4>4. Fits(th, l, ref'[th][l])
        BY <1>5, <2>4, <3>1 DEF Fits
      <4> QED BY <2>1, <2>2, <4>2, <4>3, <4>4 DEF New
    <3> QED BY <3>1
  <2>6. Writes
    BY <1>3, <2>2, <2>5, StoreWrites
  <2>7. Blackens
    BY <2>3 DEF Blackens
  <2>8. Frames
    <3> SUFFICES ASSUME NEW r \in Thread, NEW i \in 1 .. top[r]
                 PROVE  ref'[r][i] = ref[r][i] \/ \E x \in OpenOf(r) : level[x] = i
      BY <1>2, <1>3 DEF Frames, Frame, upvars
    <3>1. i \in Slot
      BY <1>3, Constants DEF TypeOK, Slot
    <3> QED BY <2>1, <2>2, <2>4, <3>1
  <2>9. Roots1 /\ Opens
    BY <1>2, <1>3, <2>8, SameRoots, SameOpens
  <2> QED BY <2>6, <2>7, <2>9 DEF Effect
<1> QED BY <1>6, <1>7

LEMMA SetMetatableEffect ==
    ASSUME ColorInv, ColorInv', RefInv, Recolored, Control,
           NEW o \in Table \cup Udata, NEW mt \in MetaTable \cup {Nil}, SetMetatable(o, mt)
    PROVE  Effect
<1>1. /\ o \in Obj /\ o \notin Thread /\ o \notin UpVal /\ MT \in Fld /\ MT # VAL
      /\ mt \in Ref
  BY Constants, DisjointAssumption DEF Ref, MT, VAL
<1>2. /\ o \in Regs \cup {Registry} /\ mt \in Regs \cup {Nil}
      /\ Store(o, MT, mt) /\ Barrier(o, mt)
      /\ UNCHANGED <<execvars, upvars, markedopen>>
  BY DEF SetMetatable, phase
<1>3. Live(o) /\ (mt # Nil => Live(mt))
  BY <1>2, RegsLive
<1>4. Fits(o, MT, mt)
  BY DEF Fits
<1> QED BY <1>1, <1>2, <1>3, <1>4, BarrierEffect

LEMMA SetTableEffect ==
    ASSUME ColorInv, ColorInv', RefInv, Recolored, Control,
           NEW t \in Table, NEW k \in Value \cup {Nil}, NEW v \in Value \cup {Nil},
           SetTable(t, k, v)
    PROVE  Effect
<1> DEFINE S == IF ref[t][KEY] # k THEN {k, v} ELSE {v}
<1>1. /\ t \in Regs \cup {Registry}
      /\ k \in Regs \cup {Nil} /\ v \in Regs \cup {Nil}
      /\ ref[t][KEY] # k => ~NonEmpty(t)
      /\ ref' = [ref EXCEPT ![t][KEY] = k, ![t][VAL] = v]
      /\ TableBarrier(t, S)
      /\ UNCHANGED <<execvars, upvars, markedopen>>
  BY DEF SetTable, phase
<1>2. /\ TypeOK /\ UNCHANGED <<top, gmt, cur, from>>
      /\ t \in Obj /\ t \notin Thread /\ t \notin UpVal /\ KEY \in Fld /\ VAL \in Fld
      /\ k \in Ref /\ v \in Ref
  BY <1>1, Constants, DisjointAssumption DEF ColorInv, execvars, Ref
<1>3. /\ Live(t)
      /\ k # Nil => k \in Value /\ k \in Obj /\ Live(k)
      /\ v # Nil => v \in Value /\ v \in Obj /\ Live(v)
  BY <1>1, RegsLive
<1>4. /\ ref'[t][KEY] = k /\ ref'[t][VAL] = v
      /\ \A f \in Fld : f \notin {KEY, VAL} => ref'[t][f] = ref[t][f]
      /\ \A x \in Obj : x # t => ref'[x] = ref[x]
  BY <1>1, <1>2 DEF TypeOK, KEY, VAL
<1>5. KeepInvariant =>
         /\ color'[t] = "black" => \A x \in S : Shaded(color', x)
         /\ \A x \in Obj \ Thread : color'[x] = "black" /\ color[x] # "black" =>
               x # t /\ \A f \in Fld : Shaded(color', ref[x][f])
  <2>1. S \in SUBSET Ref /\ \A x \in S : x = Nil \/ Live(x)
    BY <1>2, <1>3
  <2> HIDE DEF S
  <2> QED BY <1>1, <2>1, TableBarrierShades
<1>6. Live(t)' /\ \A x \in Obj : Live(x) => color'[x] # "free" /\ ~(color'[x] = Other(currentwhite') /\ x \notin Fixed)
  BY <1>2, <1>3, StaysLive DEF Live, IsDead
<1>7. v = Nil \/ New(t, VAL)
  <2>1. CASE v # Nil
    <3>1. Live(ref[t][VAL])'
      BY <1>3, <1>4, <1>6, <2>1 DEF Live, IsDead
    <3>2. KeepInvariant /\ color'[t] = "black" => NonWhite(ref[t][VAL])'
      BY <1>4, <1>5 DEF Shaded, NonWhite
    <3>3. Fits(t, VAL, ref'[t][VAL])
      BY <1>3, <1>4, <2>1 DEF Fits
    <3> QED BY <1>2, <1>6, <3>1, <3>2, <3>3 DEF New
  <2> QED BY <2>1
<1>8. k = Nil \/ New(t, KEY)
  <2>1. CASE k # Nil
    <3>1. Live(ref[t][KEY])'
      BY <1>3, <1>4, <1>6, <2>1 DEF Live, IsDead
    <3>2. KeepInvariant /\ color'[t] = "black" => NonWhite(ref[t][KEY])'
      <4> SUFFICES ASSUME KeepInvariant, color'[t] = "black" PROVE NonWhite(ref[t][KEY])'
        OBVIOUS
      <4>1. CASE ref[t][KEY] # k
        BY <1>4, <1>5, <4>1 DEF Shaded, NonWhite
      <4>2. CASE ref[t][KEY] = k
        <5>1. color[t] = "black"
          BY <1>2, <1>5
        <5>2. NonWhite(k)
          BY <1>2, <4>2, <5>1 DEF RefInv, BlackObjects
        <5>3. \A x \in Ref : NonWhite(x) => x = Nil \/ color'[x] \in {"gray", "black"}
          BY RecoloredColors DEF NonWhite
        <5> QED BY <1>2, <1>4, <5>2, <5>3 DEF NonWhite
      <4> QED BY <4>1, <4>2
    <3>3. Fits(t, KEY, ref'[t][KEY])
      BY <1>3, <1>4, <2>1 DEF Fits
    <3> QED BY <1>2, <1>6, <3>1, <3>2, <3>3 DEF New
  <2> QED BY <2>1
<1>9. Writes
  <2> SUFFICES ASSUME NEW x \in Obj, NEW f \in Fld PROVE Wrote(x, f)
    BY DEF Writes
  <2>1. CASE x # t
    BY <1>4, <2>1 DEF Wrote
  <2>2. CASE x = t /\ f \notin {KEY, VAL}
    BY <1>4, <2>2 DEF Wrote
  <2>3. CASE x = t /\ f \in {KEY, VAL}
    BY <1>4, <1>7, <1>8, <2>3 DEF Wrote
  <2> QED BY <2>1, <2>2, <2>3
<1>10. Blackens
  <2> SUFFICES ASSUME KeepInvariant, NEW x \in Obj \ Thread, color'[x] = "black",
                      color[x] # "black", NEW f \in Fld
               PROVE  NonWhite(ref[x][f])'
    BY DEF Blackens
  <2>1. ref'[x] = ref[x] /\ Shaded(color', ref[x][f])
    BY <1>4, <1>5
  <2> QED BY <2>1 DEF Shaded, NonWhite
<1>11. Frames
  BY <1>1, <1>2, <1>4, Constants DEF Frames, Frame, upvars
<1>12. Roots1 /\ Opens
  BY <1>1, <1>2, <1>11, SameRoots, SameOpens
<1> QED BY <1>9, <1>10, <1>12 DEF Effect

\* The steps that write no field: what the program executes, and the roots, change.
LEMMA ControlEffect ==
    ASSUME ColorInv, ColorInv', RefInv, Recolored, Control,
           UNCHANGED <<ref, upvars, markedopen, top>>,
           \A o \in Obj \ Thread : color'[o] = "black" => color[o] = "black",
           Roots1
    PROVE  Effect
<1>1. Writes /\ Blackens
  BY DEF Writes, Wrote, Blackens
<1> QED BY <1>1, SameOpens DEF Effect

LEMMA RootEffect ==
    ASSUME ColorInv, ColorInv', RefInv, Recolored, Control,
           (\E mt \in MetaTable \cup {Nil} : SetBasicMetatable(mt))
           \/ \E mt \in MetaTable, m \in Modes : SetMode(mt, m)
    PROVE  Effect
<1>1. UNCHANGED <<ref, upvars, markedopen, top, from>>
  BY DEF SetBasicMetatable, SetMode, phase
<1>2. TypeOK
  BY DEF ColorInv
<1>3. \A o \in Obj : color'[o] = "black" => color[o] = "black"
  BY <1>2 DEF SetBasicMetatable, SetMode, BarrierBack, TypeOK
<1>4. gmt' # Nil => gmt' = gmt \/ (gmt' \in Regs)
  BY DEF SetBasicMetatable, SetMode
<1>5. gmt' # Nil => gmt' = gmt \/ Live(gmt)'
  BY <1>4, RegsLive, StaysLive DEF Live, IsDead
<1>6. Frames
  BY <1>1 DEF Frames, Frame, upvars
<1>7. Roots1
  BY <1>1, <1>5, <1>6, SameRoots
<1> QED BY <1>1, <1>3, <1>7, ControlEffect

LEMMA SwitchEffect ==
    ASSUME ColorInv, ColorInv', RefInv, Recolored, Control,
           (\E co \in Thread : Resume(co)) \/ Yield
    PROVE  Effect
<1>1. UNCHANGED <<ref, upvars, markedopen, top, gmt>> /\ TypeOK /\ TypeOK'
  BY DEF Resume, Yield, phase, ColorInv
<1>2. Frames
  BY <1>1 DEF Frames, Frame, upvars
<1>3. \A o \in Obj : color'[o] = "black" => color[o] = "black"
  BY <1>1 DEF Resume, Yield, ThreadBarrier, BarrierBack, TypeOK
<1>4. ASSUME NEW co \in Thread, Resume(co) PROVE Roots1
  <2>1. /\ co \in Regs /\ Keeps(cur, co)
        /\ from' = [from EXCEPT ![co] = cur]
    BY <1>4 DEF Resume, Inactive
  <2>2. co \in Obj /\ Live(co) /\ cur \in Thread
    BY <2>1, RegsLive
  <2>3. Live(co)'
    BY <2>2, StaysLive DEF Live, IsDead
  <2>4. \A th \in Thread : IsActive(th)' => IsActive(th) \/ Live(th)'
    BY <1>1, <2>1, <2>3 DEF IsActive, TypeOK
  <2>5. ASSUME NEW th \in Thread, from'[th] # Nil PROVE Keeps(from[th], th)'
    <3>1. CASE th = co
      <4>1. from'[th] = cur
        BY <1>1, <2>1, <3>1 DEF TypeOK
      <4> QED BY <1>1, <2>1, <3>1, <4>1 DEF Keeps, OpenOf, upvars
    <3>2. CASE th # co
      <4>1. from'[th] = from[th]
        BY <1>1, <2>1, <3>2 DEF TypeOK
      <4> QED BY <1>2, <2>5, <4>1, FramesKept
    <3> QED BY <3>1, <3>2
  <2> QED BY <1>1, <2>4, <2>5 DEF Roots1
<1>5. ASSUME Yield PROVE Roots1
  <2>1. \A th \in Thread : from'[th] = from[th] \/ from'[th] = Nil
    BY <1>1, <1>5 DEF Yield, TypeOK
  <2>2. \A th \in Thread : IsActive(th)' => IsActive(th)
    BY <2>1 DEF IsActive
  <2>3. ASSUME NEW th \in Thread, from'[th] # Nil PROVE Keeps(from[th], th)'
    BY <1>2, <2>1, <2>3, FramesKept
  <2> QED BY <1>1, <2>2, <2>3 DEF Roots1
<1>6. Roots1
  BY <1>4, <1>5
<1> QED BY <1>1, <1>3, <1>6, ControlEffect

LEMMA XMoveEffect ==
    ASSUME ColorInv, ColorInv', RefInv, Recolored, Control,
           NEW a \in Thread, NEW b \in Thread, XMove(a, b)
    PROVE  Effect
<1> DEFINE v == ref[a][top[a]]
<1>1. /\ a = cur \/ (a \in Regs /\ ~IsActive(a))
      /\ b = cur \/ (b \in Regs /\ ~IsActive(b))
      /\ a # b
      /\ top[a] > 0 /\ top[b] < StackSize
      /\ ThreadBarrier(b) /\ Store(b, top[b] + 1, v)
      /\ top' = [top EXCEPT ![a] = @ - 1, ![b] = @ + 1]
      /\ UNCHANGED <<gmt, cur, from, upvars, weak, markedopen>>
  BY DEF XMove, Inactive, phase, ColorInv, ResumeChain, TypeOK
<1>2. /\ TypeOK /\ a \in Obj /\ b \in Obj /\ a \notin Table /\ b \notin Table /\ b \notin UpVal
  BY Constants, Kinds DEF ColorInv
<1>3. PICK i \in Slot : i = top[b] + 1 /\ i \in Fld /\ Store(b, i, v)
  <2>1. top[b] + 1 \in Slot
    BY <1>1, <1>2, Constants DEF TypeOK, Slot
  <2> QED BY <1>1, <2>1, Constants
<1>0. top[a] \in Fld
  BY <1>1, <1>2, Constants DEF TypeOK, Slot
<1>4. Live(a) /\ Live(b)
  BY <1>1, RegsLive
<1>5. v # Nil => v \in Value /\ v \in Obj /\ Live(v)
  BY <1>0, <1>2, <1>4, FitKinds, Constants DEF RefInv, FieldsLive
<1> HIDE DEF v
<1>6. /\ ref'[b][i] = v
      /\ \A r \in Thread : r # b => ref'[r] = ref[r]
  BY <1>2, <1>3, Constants DEF Store, TypeOK
<1>7. color'[b] # "black" /\ \A x \in Obj : color'[x] = "black" => color[x] = "black"
  <2>1. color'[b] # "black"
    BY <1>1, <1>2, RecolorThreadBarrier
  <2>2. color' = color \/ color' = [color EXCEPT ![b] = "gray"]
    BY <1>1 DEF ThreadBarrier, BarrierBack
  <2> QED BY <1>2, <2>1, <2>2 DEF TypeOK
<1>8. v = Nil \/ New(b, i)
  <2>1. CASE v # Nil
    <3>1. Live(b)' /\ Live(ref[b][i])'
      BY <1>2, <1>4, <1>5, <1>6, <2>1, StaysLive DEF Live, IsDead
    <3>2. Fits(b, i, ref'[b][i])
      BY <1>3, <1>5, <1>6, <2>1 DEF Fits
    <3> QED BY <1>2, <1>7, <3>1, <3>2 DEF New
  <2> QED BY <2>1
<1>9. Writes
  BY <1>2, <1>3, <1>8, StoreWrites
<1>10. Blackens
  BY <1>7 DEF Blackens
<1>11. Frames
  <2> SUFFICES ASSUME NEW r \in Thread, IsActive(r), r # cur PROVE Frame(r)
    BY DEF Frames
  <2>1. r # a /\ r # b
    BY <1>1
  <2>2. top'[r] = top[r] /\ ref'[r] = ref[r]
    BY <1>1, <1>2, <1>6, <2>1 DEF TypeOK
  <2> QED BY <1>1, <2>2 DEF Frame, upvars
<1>12. Roots1 /\ Opens
  BY <1>1, <1>11, SameRoots, SameOpens
<1> QED BY <1>9, <1>10, <1>12 DEF Effect

\* CLOSEUPVALS, the end of a coroutine and lua_resetthread.
LEMMA CloseEffect ==
    ASSUME ColorInv, ColorInv', RefInv, Recolored, Control,
           (\E j \in Slot : CloseUpvals(j)) \/ \E th \in Thread : ResetThread(th)
    PROVE  Effect
<1>1. PICK th \in Thread, S \in SUBSET UpVal :
         /\ S \subseteq OpenOf(th) /\ Closing(S)
         /\ \A o \in Obj : o \notin S /\ o # th => ref'[o] = ref[o]
         /\ \A o \in Obj : o \in S /\ o # th => ref'[o] = [ref[o] EXCEPT ![VAL] = UvValue(o)]
         /\ \/ th = cur /\ UNCHANGED top /\ (th \notin S => ref'[th] = ref[th])
            \/ /\ ~IsActive(th)
               /\ \A f \in Fld : ref'[th][f] = Nil
               /\ \A r \in Thread : r # th => top'[r] = top[r]
  <2>1. ASSUME NEW j \in Slot, CloseUpvals(j)
        PROVE  \E S \in SUBSET OpenOf(cur) :
                  /\ Closing(S)
                  /\ \A o \in Obj : o \notin S => ref'[o] = ref[o]
                  /\ \A o \in Obj : o \in S => ref'[o] = [ref[o] EXCEPT ![VAL] = UvValue(o)]
                  /\ UNCHANGED top
    <3>1. {u \in OpenOf(cur) : level[u] >= j} \in SUBSET OpenOf(cur)
      OBVIOUS
    <3> QED BY <2>1, <3>1 DEF CloseUpvals, execvars
  <2>2. ASSUME NEW th \in Thread, ResetThread(th)
        PROVE  /\ Closing(OpenOf(th)) /\ ~IsActive(th)
               /\ \A o \in Obj : o \notin OpenOf(th) /\ o # th => ref'[o] = ref[o]
               /\ \A o \in Obj : o \in OpenOf(th) /\ o # th =>
                     ref'[o] = [ref[o] EXCEPT ![VAL] = UvValue(o)]
               /\ \A f \in Fld : ref'[th][f] = Nil
               /\ \A r \in Thread : r # th => top'[r] = top[r]
    BY <2>2, Constants DEF ResetThread, Inactive, ColorInv, TypeOK
  <2>3. CASE \E j \in Slot : CloseUpvals(j)
    <3>1. cur \in Thread
      BY RegsLive
    <3>2. PICK S \in SUBSET OpenOf(cur) :
                  /\ Closing(S)
                  /\ \A o \in Obj : o \notin S => ref'[o] = ref[o]
                  /\ \A o \in Obj : o \in S => ref'[o] = [ref[o] EXCEPT ![VAL] = UvValue(o)]
                  /\ UNCHANGED top
      BY <2>1, <2>3
    <3>3. S \in SUBSET UpVal
      BY <3>2 DEF OpenOf
    <3> QED BY <3>1, <3>2, <3>3, Constants
  <2>4. CASE \E th \in Thread : ResetThread(th)
    <3>1. PICK th \in Thread : ResetThread(th)
      BY <2>4
    <3>2. OpenOf(th) \in SUBSET UpVal
      BY DEF OpenOf
    <3> QED BY <2>2, <3>1, <3>2
  <2> QED BY <2>3, <2>4
<1>0. S \in SUBSET OpenOf(th)
  BY <1>1
<1>2. UNCHANGED <<gmt, cur, from, markedopen>>
  BY DEF CloseUpvals, ResetThread, execvars, phase
<1>3. TypeOK /\ th \in Obj /\ th \notin Table /\ th # Nil /\ VAL \in Fld
  BY Constants, Kinds DEF ColorInv
<1>4. \A u \in S : u \in UpVal /\ u \in Obj /\ u \notin Thread /\ u # th
  BY <1>1, Constants, Kinds DEF OpenOf
<1>5. \A u \in S : \A f \in Fld : ref'[u][f] = IF f = VAL THEN UvValue(u) ELSE ref[u][f]
  <2> SUFFICES ASSUME NEW u \in S, NEW f \in Fld
               PROVE  ref'[u][f] = IF f = VAL THEN UvValue(u) ELSE ref[u][f]
    OBVIOUS
  <2>1. ref'[u] = [ref[u] EXCEPT ![VAL] = UvValue(u)] /\ ref[u] \in [Fld -> Obj \cup {Nil}]
    BY <1>1, <1>3, <1>4 DEF TypeOK
  <2> QED BY <1>3, <2>1
<1>6. color'[th] # "black" \/ \A f \in Fld : ref'[th][f] = Nil
  BY <1>1, <1>2 DEF ColorInv, ResumeChain, NeverBlack, IsActive
<1>7. (\A u \in S : \A f \in Fld : Wrote(u, f)) /\ Blackens /\ Opens
  BY <1>0, <1>1, <1>2, <1>5, <1>6, ClosingSafe
<1>8. Writes
  <2> SUFFICES ASSUME NEW x \in Obj, NEW f \in Fld PROVE Wrote(x, f)
    BY DEF Writes
  <2>1. CASE x \in S
    BY <1>7, <2>1
  <2>2. CASE x = th /\ x \notin S
    BY <1>1, <1>3, <2>2 DEF Wrote
  <2>3. CASE x # th /\ x \notin S
    BY <1>1, <2>3 DEF Wrote
  <2> QED BY <2>1, <2>2, <2>3
<1>9. Frames
  <2> SUFFICES ASSUME NEW r \in Thread, IsActive(r), r # cur PROVE Frame(r)
    BY DEF Frames
  <2>1. r # th /\ r \notin S /\ r \in Obj /\ r # Nil
    BY <1>1, <1>4, Constants
  <2>2. top'[r] = top[r] /\ ref'[r] = ref[r]
    BY <1>1, <2>1
  <2>3. \A u \in UpVal : owner'[u] = r => owner[u] = r /\ level'[u] = level[u]
    BY <1>1, <2>1 DEF Closing
  <2> QED BY <2>2, <2>3 DEF Frame
<1>10. Roots1
  BY <1>2, <1>9, SameRoots
<1> QED BY <1>7, <1>8, <1>10 DEF Effect

-----------------------------------------------------------------------------
(* The theorems *)

LEMMA ProgramSafe ==
    ASSUME ColorInv, ColorInv', RefInv, Program
    PROVE  RefInv'
<1>1. CASE FullGC
  BY <1>1, FullGCSafe
<1>2. CASE ~FullGC
  <2>1. Recolored /\ Control
    BY <1>2, ProgramRecolors DEF ColorInv
  <2>2. pc = "none"
    BY <1>2, ZenonT(40) DEF Program, Running, Load, NewObject, NewString, NewClosure, NewClosureOver,
                CloseUpvals, Call, Return, SetCaptured, SetUpval, SetTable, SetMetatable,
                SetBasicMetatable, SetMode, Resume, ResetThread, Yield, XMove
  <2>3. Effect
    BY <1>2, <2>1, LoadEffect, NewObjectEffect, NewClosureEffect, NewClosureOverEffect,
       CloseEffect, CallEffect, SetCapturedEffect, SetUpvalEffect, SetTableEffect,
       SetMetatableEffect, RootEffect, SwitchEffect, XMoveEffect DEF Program
  <2> QED BY <2>1, <2>2, <2>3, EffectSafe
<1> QED BY <1>1, <1>2

LEMMA InitSafe ==
    ASSUME Init
    PROVE  SafeInv
<1>1. ColorInv
  BY InitColors
<1>2. \A o \in Obj : \A f \in Fld : ref[o][f] = Nil
  BY DEF Init
<1>3. /\ Live(Main) /\ Live(Registry)
      /\ \A th \in Thread : IsActive(th) => th = Main
      /\ \A o \in Roots : o # Nil => o \in {Main, Registry}
  BY Constants DEF Init, Live, IsDead, IsActive, Roots, Other
<1>4. \A u \in UpVal : ~IsOpen(u)
  BY DEF Init, IsOpen
<1>5. ~KeepInvariant /\ pc = "none"
  BY DEF Init, KeepInvariant
<1>6. Shapes /\ FreeEmpty /\ FieldsLive
  BY <1>2, <1>4, Constants DEF Shapes, Fits, FreeEmpty, FieldsLive
<1>7. \A th \in Thread : from[th] = Nil
  BY DEF Init
<1>8. RootsLive /\ OpenOwner
  BY <1>3, <1>4, <1>7 DEF RootsLive, OpenOwner
<1>9. GrayKinds /\ BlackObjects /\ BlackStacks /\ AtomicDone /\ RootsMarked
  BY <1>5 DEF GrayKinds, BlackObjects, BlackStacks, AtomicDone, RootsMarked
<1> QED BY <1>1, <1>6, <1>8, <1>9 DEF SafeInv, RefInv

LEMMA SafeStep ==
    ASSUME SafeInv, [Next]_vars
    PROVE  SafeInv'
<1>1. ColorInv /\ RefInv /\ ColorInv'
  BY ColorStep DEF SafeInv
<1>2. CASE Collector
  BY <1>1, <1>2, CollectorSafe DEF SafeInv
<1>3. CASE Program
  BY <1>1, <1>3, ProgramSafe DEF SafeInv
<1>4. CASE UNCHANGED vars
  <2>1. UNCHANGED <<ref, top, mode, gmt, cur, from, owner, level, color, currentwhite, gcstate,
                    gray, grayagain, weak, markedopen, tosweep, pc, full>>
    BY <1>4 DEF vars, execvars, upvars, lists, phase
  <2>2. Shapes' /\ FreeEmpty' /\ RootsLive' /\ FieldsLive' /\ OpenOwner'
    BY <1>1, <2>1
    DEF RefInv, Shapes, Fits, FreeEmpty, RootsLive, Roots, FieldsLive, OpenOwner, Live, IsDead,
        IsActive, IsOpen, Keeps, OpenOf, NonWhite, KeepInvariant
  <2>3. GrayKinds' /\ BlackObjects' /\ BlackStacks' /\ AtomicDone' /\ RootsMarked'
    BY <1>1, <2>1
    DEF RefInv, GrayKinds, BlackObjects, BlackStacks, AtomicDone, RootsMarked, NonWhite,
        KeepInvariant, IsOpen, OpenOf, UvValue
  <2> QED BY <1>1, <2>2, <2>3 DEF SafeInv, RefInv
<1> QED BY <1>2, <1>3, <1>4 DEF Next

\* The invariant that ties colours, lists, references and phases together holds for ever.
THEOREM SafetyCorrect == Spec => []SafeInv
<1>1. Init => SafeInv
  BY InitSafe
<1>2. SafeInv /\ [Next]_vars => SafeInv'
  BY SafeStep
<1> QED BY <1>1, <1>2, PTL DEF Spec

\* No reference the program can follow leads to an object that was freed or that the sweep
\* will free: every barrier the VM leaves out (stack writes, open upvalues, the metatables
\* of basic types) is made up for in the atomic phase.
THEOREM NoDanglingCorrect == Spec => []NoDangling
<1>1. ASSUME SafeInv PROVE NoDangling
  <2>1. ColorInv /\ RefInv /\ TypeOK
    BY <1>1 DEF SafeInv, ColorInv
  <2>2. \A o \in Roots \cup {cur} : o # Nil => Live(o)
    BY <2>1, RegsLive DEF RefInv, RootsLive
  <2>3. ASSUME NEW o \in Obj, Live(o), NEW x \in Held(o) \ {Nil} PROVE Live(x)
    <3>1. {KEY, VAL, MT} \subseteq Fld
      BY Constants
    <3>2. CASE o \in Table
      <4>1. \A f \in Fld : ref[o][f] = Nil \/ Live(ref[o][f]) \/ (f = KEY /\ ref[o][VAL] = Nil)
        BY <2>1, <2>3 DEF RefInv, FieldsLive
      <4>2. x = ref[o][MT] \/ (ref[o][VAL] # Nil /\ x \in {ref[o][KEY], ref[o][VAL]})
        BY <2>3, <3>2 DEF Held, NonEmpty
      <4>3. x # Nil /\ MT # KEY /\ VAL # KEY
        BY <2>3 DEF MT, KEY, VAL
      <4> QED BY <3>1, <4>1, <4>2, <4>3
    <3>3. CASE o \in UpVal
      <4>1. x = UvValue(o)
        BY <2>3, <3>3, DisjointAssumption DEF Held
      <4> QED BY <2>1, <2>3, <3>3, <4>1, UvValues
    <3>4. CASE o \notin Table \cup UpVal
      <4>1. (\E f \in Fld : x = ref[o][f]) \/ (o \in Thread /\ x \in OpenOf(o))
        BY <2>3, <3>4 DEF Held
      <4>2. ASSUME x \in OpenOf(o), o \in Thread PROVE Live(x)
        <5>1. x \in UpVal /\ IsOpen(x)
          BY <4>2, Constants DEF OpenOf, IsOpen
        <5> QED BY <2>1, <5>1, Whitenesses DEF ColorInv, OpenColors, Live, IsDead
      <4> QED BY <2>1, <2>3, <3>4, <4>1, <4>2 DEF RefInv, FieldsLive
    <3> QED BY <3>2, <3>3, <3>4
  <2> QED BY <2>2, <2>3 DEF NoDangling
<1> QED BY <1>1, SafetyCorrect, PTL

\* "A black object can never point to a white one" while marking (lgc.h:26), whatever
\* barrier ran last.
THEOREM NoBlackToWhiteCorrect == Spec => []NoBlackToWhite
<1>1. ASSUME SafeInv PROVE NoBlackToWhite
  <2>1. TypeOK /\ BlackObjects
    BY <1>1 DEF SafeInv, ColorInv, RefInv
  <2>2. \A x : NonWhite(x) => x = Nil \/ ~IsWhite(x)
    BY DEF NonWhite, IsWhite, White
  <2> QED BY <2>1, <2>2 DEF NoBlackToWhite, BlackObjects, Whites
<1> QED BY <1>1, SafetyCorrect, PTL

\* The stack of a black thread holds marked values only, except in slots that an open
\* upvalue designates; and the thread has claimed those upvalues for remarkupvals.
THEOREM BlackThreadsCorrect == Spec => []BlackThreads
<1>1. ASSUME SafeInv PROVE BlackThreads
  <2>1. BlackStacks
    BY <1>1 DEF SafeInv, RefInv
  <2>2. \A x : NonWhite(x) => x = Nil \/ ~IsWhite(x)
    BY DEF NonWhite, IsWhite, White
  <2> QED BY <2>1, <2>2, Constants DEF BlackThreads, BlackStacks
<1> QED BY <1>1, SafetyCorrect, PTL

\* What the collector relies on when it turns a thread black, and every API function that
\* pushes a value must keep: the two facts above together.
THEOREM ThreadColorsCorrect == Spec => []ThreadColors
<1>1. NeverBlack /\ BlackThreads => ThreadColors
  BY DEF ThreadColors
<1> QED BY <1>1, NeverBlackCorrect, BlackThreadsCorrect, PTL

-----------------------------------------------------------------------------
(***************************************************************************)
(* What a step of the collector may change for the program.  One lemma     *)
(* carries all: an object that is alive after a step of the collector was  *)
(* alive before, and is as it was, except that a weak table loses an entry *)
(* whose weak part dies.                                                   *)
(***************************************************************************)

(* What the traversal of weak tables leaves unmarked *)

\* A table that the atomic phase has put in the weak list has only weak parts unmarked.
\* (Before, the program may make a listed table strong: the list is traversed again.)
WeakDone ==
    pc \in {"weak", "again"} =>
        \A t \in weak : NonEmpty(t) =>
            /\ "k" \in WeakMode(t) \/ NonWhite(ref[t][KEY])
            /\ "v" \in WeakMode(t) \/ NonWhite(ref[t][VAL])

\* An active thread that the atomic phase has traversed last has claimed its upvalues.
Claimed == pc = "again" => \A u \in UpVal : owner[u] \in grayagain => u \in markedopen

\* A traversal marks what it traces and unmarks nothing.
LEMMA PropagateMarks ==
    ASSUME ColorInv, RefInv, NEW o \in Obj, Propagate(o)
    PROVE  /\ \A x \in Ref : NonWhite(x) => NonWhite(x)'
           /\ \A x \in Traced(o) : NonWhite(x)'
           /\ \A x \in Obj : color'[x] = "free" <=> color[x] = "free"
<1> DEFINE S == Traced(o)
           C == ColorsAfterMarking(S)
<1>1. TypeOK /\ o \in gray /\ o \in Listed
  BY DEF ColorInv, TypeOK, Propagate
<1>2. KeepInvariant /\ gcstate # "sweep"
  BY DEF Propagate, ColorInv, Phases, KeepInvariant
<1>3. color[o] = "gray" /\ Live(o)
  BY <1>1, <1>2, LiveColors DEF ColorInv, OneList, NonWhite
<1>4. S \in SUBSET Ref /\ \A x \in S : x = Nil \/ Live(x)
  BY <1>1, <1>3, TracedType, TracedLive
<1>5. C \in [Obj -> Colors] /\ Marking(C, S)
  BY <1>1, <1>2, <1>4, MarkingType, MarkingMarks
<1>6. color'[o] \in {"gray", "black"} /\ \A x \in Obj \ {o} : color'[x] = C[x]
  <2> HIDE DEF C
  <2> QED BY <1>5 DEF Propagate, C
<1> HIDE DEF C
<1>7. \A x \in Ref : NonWhite(x) => Shaded(C, x)
  BY <1>1, <1>5, Whitenesses, Constants DEF Marking, NonWhite, Shaded, IsWhite, Ref
<1>8. \A x \in Obj : C[x] = "free" <=> color[x] = "free"
  BY <1>1, <1>5, Whitenesses DEF Marking, IsWhite
<1>9. \A x \in Ref : Shaded(C, x) => NonWhite(x)'
  BY <1>6 DEF Shaded, NonWhite, Ref
<1> QED BY <1>3, <1>4, <1>5, <1>6, <1>7, <1>8, <1>9 DEF Marking

\* What a traversal erases, the program cannot see.
LEMMA PropagateErases ==
    ASSUME TypeOK, NEW o \in Obj, Propagate(o), NEW x \in Obj, NEW f \in Fld
    PROVE  /\ ref'[x][f] = ref[x][f] \/ ref'[x][f] = Nil
           /\ ref'[x][f] # ref[x][f] =>
                 \/ x \in Table /\ f = KEY /\ ref[x][VAL] = Nil
                 \/ x \in Thread /\ f > top[x]
<1>1. ref' = [ref EXCEPT ![o] = [g \in Fld |-> IF ClearedBy(o, g) THEN Nil ELSE ref[o][g]]]
  BY DEF Propagate
<1>2. ref'[x][f] = IF x = o /\ ClearedBy(o, f) THEN Nil ELSE ref[x][f]
  BY <1>1 DEF TypeOK
<1> QED BY <1>2 DEF ClearedBy

LEMMA WeakDonePropagate ==
    ASSUME SafeInv, WeakDone, NEW o \in Obj, Propagate(o)
    PROVE  WeakDone'
<1>1. TypeOK /\ ColorInv /\ RefInv /\ o \in Listed /\ {KEY, VAL, MT} \subseteq Fld
  BY Constants DEF SafeInv, ColorInv, TypeOK, Propagate
<1>2. mode' = mode /\ pc' = pc
  BY DEF Propagate, execvars
<1>3. \A x \in Table : /\ ref'[x][MT] = ref[x][MT] /\ ref'[x][VAL] = ref[x][VAL]
                       /\ ref[x][VAL] # Nil => ref'[x][KEY] = ref[x][KEY]
  <2>1. \A x \in Table : x \in Obj /\ x \notin Thread
    BY Constants, Kinds
  <2> QED BY <1>1, <2>1, PropagateErases DEF KEY, VAL, MT
<1>4. \A x \in Table : WeakMode(x)' = WeakMode(x) /\ (NonEmpty(x)' <=> NonEmpty(x))
  BY <1>2, <1>3 DEF WeakMode, NonEmpty
<1> SUFFICES ASSUME pc \in {"weak", "again"}, NEW t \in weak', NonEmpty(t)'
             PROVE  /\ "k" \in WeakMode(t) \/ NonWhite(ref[t][KEY])'
                    /\ "v" \in WeakMode(t) \/ NonWhite(ref[t][VAL])'
  <2>1. \A t \in weak' : t \in Table
    BY <1>1 DEF Propagate, TypeOK
  <2> QED BY <1>2, <1>4, <2>1 DEF WeakDone
<1>5. t \in weak \/ (t = o /\ o \in Table)
  BY DEF Propagate
<1>6. t \in Table /\ t \in Obj /\ ref[t][VAL] # Nil /\ ref'[t][KEY] = ref[t][KEY]
      /\ ref'[t][VAL] = ref[t][VAL] /\ ref[t][KEY] \in Ref /\ ref[t][VAL] \in Ref
  BY <1>1, <1>3, <1>4, <1>5, Constants DEF TypeOK, NonEmpty, Ref
<1>7. \A x \in Ref : NonWhite(x) => NonWhite(x)'
  BY <1>1, PropagateMarks
<1>8. CASE t \in weak
  <2>1. /\ "k" \in WeakMode(t) \/ NonWhite(ref[t][KEY])
        /\ "v" \in WeakMode(t) \/ NonWhite(ref[t][VAL])
    BY <1>6, <1>8 DEF WeakDone, NonEmpty
  <2> QED BY <1>6, <1>7, <2>1 DEF NonWhite
<1>9. CASE t = o
  <2>1. \A x \in Traced(t) : NonWhite(x)'
    BY <1>1, <1>9, PropagateMarks
  <2>2. /\ "k" \in WeakMode(t) \/ ref[t][KEY] \in Traced(t)
        /\ "v" \in WeakMode(t) \/ ref[t][VAL] \in Traced(t)
    BY <1>6 DEF Traced
  <2> QED BY <1>6, <2>1, <2>2 DEF NonWhite
<1> QED BY <1>5, <1>8, <1>9

LEMMA ClaimedPropagate ==
    ASSUME Claimed, NEW o \in Obj, Propagate(o), pc = "again" => gcstate = "atomic"
    PROVE  Claimed'
<1>1. /\ owner' = owner /\ pc' = pc
      /\ markedopen' = IF o \in Thread THEN markedopen \cup OpenOf(o) ELSE markedopen
  BY DEF Propagate, upvars
<1> SUFFICES ASSUME pc = "again", NEW u \in UpVal, owner[u] \in grayagain'
             PROVE  u \in markedopen'
  BY <1>1 DEF Claimed
<1>2. owner[u] \in grayagain \/ (owner[u] = o /\ o \in Thread)
  BY DEF Propagate
<1> QED BY <1>1, <1>2 DEF Claimed, OpenOf

LEMMA WeakDoneStep ==
    ASSUME SafeInv, WeakDone, Claimed, [Next]_vars
    PROVE  WeakDone' /\ Claimed'
<1>1. CASE Program
  <2>1. pc' = "none"
    BY <1>1, ZenonT(60) DEF Program, Running, Load, NewObject, NewString, NewClosure, NewClosureOver,
                CloseUpvals, Call, Return, SetCaptured, SetUpval, SetTable, SetMetatable,
                SetBasicMetatable, SetMode, Resume, ResetThread, Yield, XMove, FullGC, phase
  <2> QED BY <2>1 DEF WeakDone, Claimed
<1>2. ASSUME NEW o \in Obj, Propagate(o) PROVE WeakDone' /\ Claimed'
  BY <1>2, WeakDonePropagate, ClaimedPropagate DEF SafeInv, ColorInv, Phases
<1>3. CASE StartCycle \/ FullMark \/ \E p \in Page : Sweep(p)
  <2>1. pc' = "none"
    BY <1>3 DEF StartCycle, FullMark, Sweep, SafeInv, ColorInv, Phases
  <2> QED BY <2>1 DEF WeakDone, Claimed
<1>4. CASE AtomicUpvals \/ AtomicFinish
  BY <1>4 DEF AtomicUpvals, AtomicFinish, WeakDone, Claimed
<1>5. CASE AtomicWeak
  BY <1>5 DEF AtomicWeak, WeakDone, Claimed
<1>6. CASE AtomicAgain \/ UNCHANGED vars
  <2>1. /\ UNCHANGED <<ref, mode, color, weak, owner, markedopen>>
        /\ pc' \in {"weak", "again"} => pc \in {"weak", "again"}
        /\ grayagain' = {} \/ UNCHANGED <<pc, grayagain>>
    BY <1>6 DEF AtomicAgain, vars, execvars, upvars, lists, phase
  <2>2. WeakDone'
    BY <2>1 DEF WeakDone, WeakMode, NonEmpty, NonWhite
  <2>3. Claimed'
    BY <2>1 DEF Claimed
  <2> QED BY <2>2, <2>3
<1> QED BY <1>1, <1>2, <1>3, <1>4, <1>5, <1>6 DEF Next, Collector

-----------------------------------------------------------------------------
(* Where open upvalues are *)

\* An open upvalue designates a slot in use.
OpenLevels == \A u \in UpVal : IsOpen(u) => level[u] \in 1 .. top[owner[u]]

\* The steps that neither open an upvalue nor move the top of a thread that has one.
LEMMA LevelsKept ==
    ASSUME TypeOK, OpenLevels,
           \A u \in UpVal : IsOpen(u)' =>
              /\ IsOpen(u) /\ owner'[u] = owner[u] /\ level'[u] = level[u]
              /\ \/ top'[owner[u]] = top[owner[u]]
                 \/ top'[owner[u]] \in Nat /\ level[u] <= top'[owner[u]]
    PROVE  OpenLevels'
<1> SUFFICES ASSUME NEW u \in UpVal, IsOpen(u)'
             PROVE  level'[u] \in 1 .. top'[owner'[u]]
  BY DEF OpenLevels
<1>1. IsOpen(u) /\ owner'[u] = owner[u] /\ level'[u] = level[u]
  OBVIOUS
<1>2. level[u] \in 1 .. top[owner[u]] /\ top[owner[u]] \in Nat /\ level[u] \in Nat
  BY <1>1, Constants DEF OpenLevels, TypeOK, IsOpen
<1> QED BY <1>1, <1>2

LEMMA OpenLevelsStep ==
    ASSUME SafeInv, OpenLevels, [Next]_vars
    PROVE  OpenLevels'
<1>1. TypeOK /\ RefInv
  BY DEF SafeInv, ColorInv
<1>2. CASE UNCHANGED <<top, owner, level>>
  BY <1>1, <1>2, LevelsKept DEF IsOpen
<1>3. CASE Call
  <2>1. cur \in Thread /\ top' = [top EXCEPT ![cur] = @ + 1] /\ UNCHANGED <<owner, level>>
    BY <1>1, <1>3 DEF Call, upvars, TypeOK
  <2> SUFFICES ASSUME NEW u \in UpVal, IsOpen(u)
               PROVE  \/ top'[owner[u]] = top[owner[u]]
                      \/ top'[owner[u]] \in Nat /\ level[u] <= top'[owner[u]]
    BY <1>1, <2>1, LevelsKept DEF IsOpen
  <2>2. owner[u] \in Thread /\ level[u] \in 1 .. top[owner[u]] /\ top[owner[u]] \in Nat
    BY <1>1, Constants DEF OpenLevels, TypeOK, IsOpen
  <2> QED BY <1>1, <2>1, <2>2 DEF TypeOK
<1>4. CASE Return
  <2>1. /\ cur \in Thread /\ top' = [top EXCEPT ![cur] = @ - 1] /\ UNCHANGED <<owner, level>>
        /\ \A u \in OpenOf(cur) : level[u] < top[cur]
    BY <1>1, <1>4 DEF Return, upvars, TypeOK
  <2> SUFFICES ASSUME NEW u \in UpVal, IsOpen(u)
               PROVE  \/ top'[owner[u]] = top[owner[u]]
                      \/ top'[owner[u]] \in Nat /\ level[u] <= top'[owner[u]]
    BY <1>1, <2>1, LevelsKept DEF IsOpen
  <2>2. owner[u] \in Thread /\ level[u] \in 1 .. top[owner[u]] /\ top[owner[u]] \in Nat
    BY <1>1, Constants DEF OpenLevels, TypeOK, IsOpen
  <2>3. owner[u] = cur => level[u] < top[cur]
    BY <2>1 DEF OpenOf
  <2> QED BY <1>1, <2>1, <2>2, <2>3 DEF TypeOK
<1>5. ASSUME NEW f \in Func, NEW i \in Slot, NEW j \in Slot, NEW u \in UpVal, NewClosureOver(f, i, j, u)
      PROVE  OpenLevels'
  <2>1. top' = top /\ cur \in Thread /\ j \in 1 .. top[cur]
    BY <1>1, <1>5 DEF NewClosureOver, execvars, TypeOK
  <2>2. CASE UNCHANGED <<owner, level>>
    BY <1>2, <2>1, <2>2
  <2>3. CASE owner' = [owner EXCEPT ![u] = cur] /\ level' = [level EXCEPT ![u] = j]
    <3> SUFFICES ASSUME NEW x \in UpVal, IsOpen(x)'
                 PROVE  level'[x] \in 1 .. top'[owner'[x]]
      BY DEF OpenLevels
    <3>1. CASE x = u
      BY <1>1, <2>1, <2>3, <3>1 DEF TypeOK
    <3>2. CASE x # u
      BY <1>1, <2>1, <2>3, <3>2 DEF TypeOK, OpenLevels, IsOpen
    <3> QED BY <3>1, <3>2
  <2> QED BY <1>5, <2>2, <2>3 DEF NewClosureOver, upvars
<1>6. ASSUME NEW j \in Slot, CloseUpvals(j) PROVE OpenLevels'
  <2>1. top' = top /\ \A u \in UpVal : IsOpen(u)' => owner'[u] = owner[u] /\ level'[u] = level[u]
    BY <1>6 DEF CloseUpvals, Closing, execvars, IsOpen
  <2> QED BY <1>1, <2>1, LevelsKept DEF IsOpen
<1>7. ASSUME NEW th \in Thread, ResetThread(th) PROVE OpenLevels'
  <2>1. /\ top' = [top EXCEPT ![th] = 0]
        /\ owner' = [u \in UpVal |-> IF u \in OpenOf(th) THEN Nil ELSE owner[u]]
        /\ level' = [u \in UpVal |-> IF u \in OpenOf(th) THEN 1 ELSE level[u]]
    BY <1>7 DEF ResetThread, Closing
  <2> SUFFICES ASSUME NEW u \in UpVal, IsOpen(u)'
               PROVE  /\ IsOpen(u) /\ owner'[u] = owner[u] /\ level'[u] = level[u]
                      /\ top'[owner[u]] = top[owner[u]]
    BY <1>1, LevelsKept
  <2>2. u \notin OpenOf(th) /\ owner'[u] = owner[u] /\ level'[u] = level[u]
    BY <2>1 DEF IsOpen
  <2>3. owner[u] # th /\ owner[u] \in Thread
    BY <1>1, <2>2 DEF OpenOf, IsOpen, TypeOK
  <2> QED BY <1>1, <2>1, <2>2, <2>3 DEF IsOpen, TypeOK
<1>8. ASSUME NEW a \in Thread, NEW b \in Thread, XMove(a, b) PROVE OpenLevels'
  <2>1. /\ top' = [top EXCEPT ![a] = @ - 1, ![b] = @ + 1] /\ UNCHANGED <<owner, level>>
        /\ top[a] \in Nat /\ top[b] \in Nat /\ top[a] > 0 /\ a # b
        /\ \A u \in OpenOf(a) : level[u] < top[a]
    BY <1>1, <1>8 DEF XMove, upvars, TypeOK, Inactive, SafeInv, ColorInv, ResumeChain
  <2>2. /\ top'[a] = top[a] - 1 /\ top'[b] = top[b] + 1
        /\ \A r \in Thread : r \notin {a, b} => top'[r] = top[r]
    BY <1>1, <2>1 DEF TypeOK
  <2> SUFFICES ASSUME NEW u \in UpVal, IsOpen(u)
               PROVE  \/ top'[owner[u]] = top[owner[u]]
                      \/ top'[owner[u]] \in Nat /\ level[u] <= top'[owner[u]]
    BY <1>1, <2>1, LevelsKept DEF IsOpen
  <2>3. owner[u] \in Thread /\ level[u] \in 1 .. top[owner[u]] /\ top[owner[u]] \in Nat
    BY <1>1, Constants DEF OpenLevels, TypeOK, IsOpen
  <2>4. CASE owner[u] = a
    <3>1. level[u] < top[a]
      BY <2>1, <2>4 DEF OpenOf
    <3>2. top'[a] \in Nat /\ level[u] \in Nat /\ level[u] <= top'[a]
      BY <2>1, <2>2, <2>3, <2>4, <3>1
    <3> QED BY <2>4, <3>2
  <2>5. CASE owner[u] = b
    <3>1. top'[b] \in Nat /\ level[u] <= top'[b]
      BY <2>1, <2>2, <2>3, <2>5
    <3> QED BY <2>5, <3>1
  <2>6. CASE owner[u] \notin {a, b}
    BY <2>2, <2>3, <2>6
  <2> QED BY <2>4, <2>5, <2>6
<1>9. CASE AtomicFinish
  <2>1. top' = top /\ \A u \in UpVal : IsOpen(u)' => owner'[u] = owner[u] /\ level'[u] = level[u]
    BY <1>9 DEF AtomicFinish, execvars, IsOpen
  <2> QED BY <1>1, <2>1, LevelsKept DEF IsOpen
<1>10. ASSUME NEW p \in Page, Sweep(p) PROVE OpenLevels'
  <2>1. /\ UNCHANGED <<owner, level>>
        /\ \A th \in Thread : ~IsDead(th) => top'[th] = top[th]
    BY <1>10 DEF Sweep, upvars
  <2>2. \A u \in UpVal : IsOpen(u) => owner[u] \in Thread /\ ~IsDead(owner[u])
    BY <1>1 DEF RefInv, OpenOwner, Live, TypeOK, IsOpen
  <2> QED BY <1>1, <2>1, <2>2, LevelsKept DEF IsOpen
<1>11. CASE Collector
  <2>1. CASE StartCycle \/ FullMark \/ (\E o \in Obj : Propagate(o)) \/ AtomicUpvals \/ AtomicWeak \/ AtomicAgain
    BY <1>2, <2>1 DEF StartCycle, FullMark, Propagate, AtomicUpvals, AtomicWeak, AtomicAgain, execvars, upvars
  <2> QED BY <1>9, <1>10, <1>11, <2>1 DEF Collector
<1>12. CASE Program
  <2>1. \/ UNCHANGED <<execvars, upvars>>
        \/ Call \/ Return
        \/ \E f \in Func, i, j \in Slot, u \in UpVal : NewClosureOver(f, i, j, u)
        \/ \E j \in Slot : CloseUpvals(j)
        \/ \E th \in Thread : ResetThread(th)
        \/ \E a, b \in Thread : XMove(a, b)
        \/ UNCHANGED <<top, upvars>>
    BY <1>12, ZenonT(60) DEF Program, Load, NewObject, NewString, NewClosure, SetCaptured, SetUpval,
       SetTable, SetMetatable, SetBasicMetatable, SetMode, Resume, Yield, FullGC
  <2> QED BY <1>2, <1>3, <1>4, <1>5, <1>6, <1>7, <1>8, <2>1 DEF execvars, upvars
<1>13. CASE UNCHANGED vars
  BY <1>2, <1>13 DEF vars, execvars, upvars
<1> QED BY <1>11, <1>12, <1>13 DEF Next

\* The invariant the steps of the collector are judged in.
StepInv == SafeInv /\ WeakDone /\ Claimed /\ OpenLevels

LEMMA StepInvCorrect == Spec => []StepInv
<1>1. Init => StepInv
  BY InitSafe DEF Init, StepInv, WeakDone, Claimed, OpenLevels, IsOpen
<1>2. StepInv /\ [Next]_vars => StepInv'
  BY SafeStep, WeakDoneStep, OpenLevelsStep DEF StepInv
<1> QED BY <1>1, <1>2, PTL DEF Spec

-----------------------------------------------------------------------------
(* A step of the collector, object by object *)

\* What the program sees of o, and what a traversal of it marks, is unchanged.
Kept(o) ==
    /\ o \in Table =>
          /\ ref'[o][MT] = ref[o][MT] /\ ref'[o][VAL] = ref[o][VAL]
          /\ ref[o][VAL] # Nil => ref'[o][KEY] = ref[o][KEY]
          /\ WeakMode(o)' = WeakMode(o)
    /\ o \in Thread =>
          /\ top'[o] = top[o]
          /\ \A i \in 1 .. top[o] : ref'[o][i] = ref[o][i]
          /\ \A u \in UpVal : owner'[u] = o <=> owner[u] = o
    /\ o \in UpVal => UvValue(o)' = UvValue(o)
    /\ o \in Func \cup Udata \cup Str => ref'[o] = ref[o]

\* o is a table that loses its entry, because a weak part of it dies.
Cut(o) ==
    /\ o \in Table
    /\ ref[o][VAL] # Nil
    /\ ref'[o][MT] = ref[o][MT] /\ ref'[o][KEY] = Nil /\ ref'[o][VAL] = Nil
    /\ WeakMode(o)' = WeakMode(o)
    /\ Lost(o, KEY) \/ Lost(o, VAL)

\* What a step of the collector does to what is alive after it.
Survives(o) == Live(o)' => Live(o) /\ (Kept(o) \/ Cut(o))

\* A step that writes no reference, and frees and allocates nothing.
LEMMA QuietStep ==
    ASSUME ColorInv, ColorInv', gcstate # "sweep", gcstate' # "sweep",
           UNCHANGED <<ref, execvars, upvars>>,
           \A x \in Obj : color'[x] = "free" <=> color[x] = "free",
           NEW o \in Obj
    PROVE  Survives(o)
<1>1. color'[o] # Other(currentwhite')
  BY DEF ColorInv, OneWhite
<1>2. Live(o)' => Live(o)
  BY <1>1, Lively DEF Live, IsDead
<1>3. Kept(o)
  BY DEF Kept, WeakMode, UvValue, IsOpen, execvars, upvars
<1> QED BY <1>2, <1>3 DEF Survives

LEMMA PropagateSurvives ==
    ASSUME ColorInv, ColorInv', RefInv, OpenLevels, NEW p \in Obj, Propagate(p), NEW o \in Obj
    PROVE  Survives(o)
<1>1. TypeOK /\ gcstate # "sweep" /\ gcstate' # "sweep"
  BY DEF Propagate, ColorInv, Phases
<1>2. color'[o] # Other(currentwhite')
  BY <1>1 DEF ColorInv, OneWhite
<1>3. color'[o] = "free" <=> color[o] = "free"
  BY PropagateMarks
<1>4. Live(o)' => Live(o)
  BY <1>1, <1>2, <1>3, Lively DEF Live, IsDead
<1>5. UNCHANGED <<top, mode, owner, level>> /\ {KEY, VAL, MT} \subseteq Fld
  BY Constants DEF Propagate, execvars, upvars
<1>6. \A x \in Obj : \A f \in Fld : x \notin Table \/ f # KEY =>
         ref'[x][f] = ref[x][f] \/ (x \in Thread /\ f > top[x])
  BY <1>1, PropagateErases
<1>7. ASSUME o \in Table
      PROVE  /\ ref'[o][MT] = ref[o][MT] /\ ref'[o][VAL] = ref[o][VAL]
             /\ ref[o][VAL] # Nil => ref'[o][KEY] = ref[o][KEY]
             /\ WeakMode(o)' = WeakMode(o)
  <2>1. o \notin Thread
    BY <1>7, Kinds
  <2>2. /\ ref'[o][MT] = ref[o][MT] /\ ref'[o][VAL] = ref[o][VAL]
        /\ ref[o][VAL] # Nil => ref'[o][KEY] = ref[o][KEY]
    BY <1>1, <1>5, <2>1, PropagateErases DEF KEY, VAL, MT
  <2> QED BY <1>5, <2>2 DEF WeakMode
<1>8. \A th \in Thread : \A i \in 1 .. top[th] : i \in Fld /\ ref'[th][i] = ref[th][i]
  <2> SUFFICES ASSUME NEW th \in Thread, NEW i \in 1 .. top[th]
               PROVE  i \in Fld /\ ref'[th][i] = ref[th][i]
    OBVIOUS
  <2>1. th \in Obj /\ i \in Fld /\ ~(i > top[th]) /\ th \notin Table
    BY <1>1, Constants, Kinds DEF TypeOK, Slot
  <2> QED BY <1>6, <2>1
<1>9. ASSUME o \in UpVal PROVE UvValue(o)' = UvValue(o)
  <2>1. IsOpen(o)' <=> IsOpen(o)
    BY <1>5 DEF IsOpen
  <2>2. CASE IsOpen(o)
    <3>1. owner[o] \in Thread /\ level[o] \in 1 .. top[owner[o]]
      BY <1>1, <1>9, <2>2 DEF OpenLevels, TypeOK, IsOpen
    <3> QED BY <1>5, <1>8, <2>1, <2>2, <3>1 DEF UvValue
  <2>3. CASE ~IsOpen(o)
    <3>1. o \notin Table /\ o \notin Thread
      BY <1>9, Kinds, DisjointAssumption
    <3> QED BY <1>5, <1>6, <2>1, <2>3, <3>1 DEF UvValue
  <2> QED BY <2>2, <2>3
<1>10. ASSUME o \in Func \cup Udata \cup Str PROVE ref'[o] = ref[o]
  <2>1. o \notin Table /\ o \notin Thread
    BY <1>10, DisjointAssumption
  <2>2. \A f \in Fld : ref'[o][f] = ref[o][f]
    BY <1>6, <2>1
  <2>3. ref[o] \in [Fld -> Obj \cup {Nil}] /\ ref'[o] \in [Fld -> Obj \cup {Nil}]
    BY DEF ColorInv, TypeOK
  <2> QED BY <2>2, <2>3
<1> QED BY <1>4, <1>5, <1>7, <1>8, <1>9, <1>10 DEF Survives, Kept

\* The flip of the white: what stays alive was marked, and the tables that lose their entry
\* lose it for a weak part that was not.
LEMMA FinishSurvives ==
    ASSUME ColorInv, ColorInv', RefInv, WeakDone, Claimed, AtomicFinish, NEW o \in Obj
    PROVE  Survives(o)
<1> DEFINE closed == {u \in Orphans : ~IsWhite(u)}
           S == WeakStrings \cup {UvValue(u) : u \in closed}
           C == ColorsAfterMarking(S)
<1>1. /\ TypeOK /\ TypeOK' /\ pc = "again" /\ gray = {} /\ gcstate = "atomic" /\ KeepInvariant
      /\ gcstate' = "sweep" /\ {KEY, VAL, MT} \subseteq Fld
  BY Constants DEF ColorInv, Phases, KeepInvariant, AtomicFinish
<1>2. /\ owner' = [u \in UpVal |-> IF u \in Orphans THEN Nil ELSE owner[u]]
      /\ level' = [u \in UpVal |-> IF u \in Orphans THEN 1 ELSE level[u]]
      /\ color' = [x \in Obj |-> IF x \in closed THEN "black" ELSE C[x]]
      /\ currentwhite' = Other(currentwhite)
      /\ UNCHANGED <<top, mode>>
  BY DEF AtomicFinish, execvars
<1>3. \A x \in Obj : \A f \in Fld :
         ref'[x][f] = IF x \in ClearedEntries /\ f \in {KEY, VAL} THEN Nil
                      ELSE IF x \in closed /\ f = VAL THEN UvValue(x)
                      ELSE ref[x][f]
  BY DEF AtomicFinish
<1>4. ASSUME NEW u \in closed
      PROVE  /\ u \in UpVal /\ u \in Obj /\ IsOpen(u) /\ color[u] = "gray"
             /\ UvValue(u) \in Ref /\ NonWhite(UvValue(u))
  <2>1. u \in UpVal /\ u \in Obj /\ IsOpen(u) /\ ~IsWhite(u)
    BY <1>4, Constants DEF Orphans
  <2>2. color[u] = "gray"
    BY <1>1, <2>1, Whitenesses DEF ColorInv, OpenColors, IsWhite
  <2> QED BY <1>1, <2>1, <2>2, UvValueType DEF RefInv, AtomicDone
<1>5. S \in SUBSET Ref /\ WeakStrings \subseteq Str
  BY <1>4, Constants DEF WeakStrings, Ref
<1> HIDE DEF closed
<1>6. Marked(S) \subseteq Str
  <2>1. Whites(S) \subseteq Str
    <3> SUFFICES ASSUME NEW x \in S, x \notin Str, x # Nil PROVE ~IsWhite(x)
      BY DEF Whites
    <3>1. PICK u \in closed : x = UvValue(u)
      BY <1>5
    <3>2. NonWhite(x) /\ x \in Obj
      BY <1>4, <3>1 DEF Ref
    <3> QED BY <1>1, <3>2, LiveColors
  <2>2. Immediate(Whites(S)) = {}
    BY <2>1, DisjointAssumption DEF Immediate
  <2>3. Whites({}) = {}
    BY DEF Whites
  <2> HIDE DEF S
  <2> QED BY <2>1, <2>2, <2>3 DEF Marked
<1>7. ASSUME NEW x \in Obj
      PROVE  /\ color'[x] = "free" <=> color[x] = "free"
             /\ x \notin Str => color'[x] = color[x] \/ NonWhite(x)
  <2>1. C[x] = color[x] \/ (x \in Str /\ IsWhite(x) /\ C[x] \in {"gray", "black"})
    <3> HIDE DEF S
    <3> QED BY <1>1, <1>5, <1>6, Painting
  <2>2. CASE x \in closed
    BY <1>2, <1>4, <2>2 DEF NonWhite
  <2>3. CASE x \notin closed
    <3>1. color'[x] = C[x]
      BY <1>2, <2>3
    <3>2. IsWhite(x) => color[x] # "free"
      BY <1>1, LiveColors
    <3> QED BY <2>1, <3>1, <3>2
  <2> QED BY <2>2, <2>3
<1> HIDE DEF S, C
<1>8. \A x \in Obj : /\ Live(x)' => Live(x)
                     /\ Live(x)' /\ x \notin Str => ~IsWhite(x)
  <2> SUFFICES ASSUME NEW x \in Obj, Live(x)'
               PROVE  Live(x) /\ (x \notin Str => ~IsWhite(x))
    OBVIOUS
  <2>1. color'[x] # "free" /\ (color'[x] = Other(currentwhite') => x \in Fixed)
    BY DEF Live, IsDead
  <2>2. Live(x)
    BY <1>1, <1>7, <2>1, Lively
  <2>3. Other(currentwhite') = currentwhite /\ Fixed \subseteq Str
    BY <1>1, <1>2, KindsAssumption DEF TypeOK, White, Other
  <2>4. ASSUME x \notin Str PROVE ~IsWhite(x)
    <3>1. color'[x] # currentwhite
      BY <2>1, <2>3, <2>4
    <3>2. CASE NonWhite(x)
      BY <1>1, <3>2, LiveColors
    <3>3. CASE color'[x] = color[x]
      <4>1. color[x] # currentwhite /\ color[x] # Other(currentwhite)
        BY <1>1, <3>1, <3>3 DEF ColorInv, OneWhite
      <4> QED BY <1>1, <4>1, Whitenesses DEF IsWhite
    <3> QED BY <1>7, <2>4, <3>2, <3>3
  <2> QED BY <2>2, <2>4
<1>9. \A t \in ClearedEntries : t \in weak /\ t \in Table
  BY <1>1 DEF ClearedEntries, TypeOK
<1> SUFFICES ASSUME Live(o)' PROVE Kept(o) \/ Cut(o)
  BY <1>8 DEF Survives
<1>10. CASE o \in ClearedEntries
  <2>1. /\ o \in Table /\ o \notin closed /\ NonEmpty(o)
        /\ IsCleared(ref[o][KEY]) \/ IsCleared(ref[o][VAL])
    BY <1>4, <1>9, <1>10, DisjointAssumption DEF ClearedEntries
  <2>2. ref'[o][MT] = ref[o][MT] /\ ref'[o][KEY] = Nil /\ ref'[o][VAL] = Nil
    BY <1>1, <1>3, <1>10, <2>1 DEF MT, KEY, VAL
  <2>3. WeakMode(o)' = WeakMode(o)
    BY <1>2, <2>2 DEF WeakMode
  <2>4. /\ "k" \in WeakMode(o) \/ NonWhite(ref[o][KEY])
        /\ "v" \in WeakMode(o) \/ NonWhite(ref[o][VAL])
    BY <1>1, <1>9, <1>10, <2>1 DEF WeakDone
  <2>5. ASSUME NEW f \in Fld, IsCleared(ref[o][f])
        PROVE  /\ ~NonWhite(ref[o][f])
               /\ ref[o][f] \notin Str \cup {Nil}
               /\ \A x \in {ref[o][f]} : ~Live(x)'
    <3>1. ref[o][f] \in Obj /\ ref[o][f] \notin Str /\ IsWhite(ref[o][f])
      BY <1>1, <2>5 DEF IsCleared, TypeOK
    <3> QED BY <1>1, <1>8, <3>1, LiveColors, Constants
  <2>6. Lost(o, KEY) \/ Lost(o, VAL)
    BY <1>1, <2>1, <2>4, <2>5 DEF Lost, KEY, VAL
  <2> QED BY <2>1, <2>2, <2>3, <2>6 DEF Cut, NonEmpty
<1>11. CASE o \notin ClearedEntries
  <2>1. o \notin closed => ref'[o] = ref[o]
    <3>1. o \notin closed => \A f \in Fld : ref'[o][f] = ref[o][f]
      BY <1>3, <1>11
    <3>2. ref[o] \in [Fld -> Obj \cup {Nil}] /\ ref'[o] \in [Fld -> Obj \cup {Nil}]
      BY <1>1 DEF TypeOK
    <3> QED BY <3>1, <3>2
  <2>2. o \in closed => o \in UpVal
    BY <1>4
  <2>3. ASSUME o \in Thread
        PROVE  \A u \in UpVal : owner'[u] = o <=> owner[u] = o
    <3>1. NonWhite(o)
      <4>1. o \notin Str
        BY <2>3, Kinds
      <4> QED BY <1>1, <1>8, <4>1, LiveColors
    <3>2. \A u \in UpVal : owner[u] = o => u \in markedopen
      <4>1. CASE color[o] = "black"
        BY <1>1, <2>3, <4>1 DEF RefInv, BlackStacks, OpenOf
      <4>2. CASE color[o] = "gray"
        <5>1. o \in grayagain
          BY <1>1, <2>3, <4>2, Kinds DEF ColorInv, OneList, TypeOK
        <5> QED BY <1>1, <5>1 DEF Claimed
      <4> QED BY <3>1, <4>1, <4>2, Constants DEF NonWhite
    <3> QED BY <1>2, <2>3, <3>2, Constants DEF Orphans
  <2>4. ASSUME o \in UpVal PROVE UvValue(o)' = UvValue(o)
    <3>1. CASE o \in closed
      BY <1>1, <1>2, <1>3, <1>4, <1>11, <3>1, Constants DEF closed, Orphans, UvValue, IsOpen
    <3>2. CASE o \notin closed /\ o \in Orphans
      <4>1. IsWhite(o) /\ o \notin Str
        BY <2>4, <3>2, Kinds DEF closed
      <4> QED BY <1>8, <4>1
    <3>3. CASE o \notin Orphans /\ IsOpen(o)
      <4>1. owner[o] \in Thread /\ owner[o] \in Obj /\ owner'[o] = owner[o] /\ level'[o] = level[o]
            /\ level[o] \in Fld
        BY <1>1, <1>2, <2>4, <3>3, Constants DEF TypeOK, IsOpen
      <4>2. owner[o] \notin ClearedEntries /\ owner[o] \notin closed
        BY <1>4, <1>9, <4>1, Kinds
      <4>3. ref'[owner[o]][level[o]] = ref[owner[o]][level[o]]
        BY <1>3, <4>1, <4>2
      <4> QED BY <3>3, <4>1, <4>3 DEF UvValue, IsOpen
    <3>4. CASE ~IsOpen(o)
      <4>1. o \notin closed /\ owner'[o] = owner[o]
        BY <1>2, <1>4, <2>4, <3>4 DEF Orphans
      <4> QED BY <2>1, <3>4, <4>1 DEF UvValue, IsOpen
    <3> QED BY <3>1, <3>2, <3>3, <3>4
  <2>5. o \notin UpVal => ref'[o] = ref[o]
    BY <2>1, <2>2
  <2>6. o \in Table => ref'[o] = ref[o] /\ WeakMode(o)' = WeakMode(o)
    BY <1>2, <2>5, DisjointAssumption DEF WeakMode
  <2>7. o \in Thread => ref'[o] = ref[o]
    BY <2>5, Kinds
  <2>8. o \in Func \cup Udata \cup Str => ref'[o] = ref[o]
    BY <2>5, DisjointAssumption
  <2> QED BY <1>2, <2>3, <2>4, <2>6, <2>7, <2>8 DEF Kept
<1> QED BY <1>10, <1>11

\* The sweep erases what dead objects hold, and what is alive depends on no dead object.
LEMMA SweepSurvives ==
    ASSUME ColorInv, RefInv, NEW p \in Page, Sweep(p), NEW o \in Obj
    PROVE  Survives(o)
<1> DEFINE freed == {x \in InPage(p) : IsDead(x)}
<1>1. TypeOK /\ gcstate = "sweep" /\ {KEY, VAL, MT} \subseteq Fld
  BY Constants DEF ColorInv, Sweep
<1>2. /\ currentwhite' = currentwhite /\ owner' = owner /\ level' = level
      /\ \A x \in Obj : ref'[x] = IF x \in freed THEN [f \in Fld |-> Nil] ELSE ref[x]
      /\ \A th \in Thread : top'[th] = IF th \in freed THEN 0 ELSE top[th]
      /\ \A t \in Table : mode'[t] = IF t \in freed THEN {} ELSE mode[t]
  BY DEF Sweep, upvars
<1>3. \A x \in Obj : \/ color'[x] = color[x]
                     \/ x \in InPage(p) /\ color'[x] = "free"
                     \/ x \in InPage(p) /\ ~IsDead(x)
                     \/ x = Main
  BY DEF Sweep, SweptColor
<1>4. Live(Main) /\ \A x \in InPage(p) : color[x] # "free"
  BY <1>1, Constants DEF RefInv, RootsLive, Roots, InPage
<1>5. \A x \in Obj : Live(x)' => Live(x)
  BY <1>2, <1>3, <1>4 DEF Live, IsDead
<1>6. \A x \in Obj : Live(x) => x \notin freed
  BY DEF Live
<1> HIDE DEF freed
<1> SUFFICES ASSUME Live(o) PROVE Kept(o)
  BY <1>5 DEF Survives
<1>7. ref'[o] = ref[o] /\ o \notin freed
  BY <1>2, <1>6
<1>8. ASSUME o \in Table PROVE WeakMode(o)' = WeakMode(o)
  <2>1. CASE ref[o][MT] = Nil
    BY <1>7, <2>1 DEF WeakMode
  <2>2. CASE ref[o][MT] # Nil
    <3>1. o \notin Str /\ o \in Obj /\ MT # KEY
      BY <1>8, DisjointAssumption DEF MT, KEY
    <3>2. Live(ref[o][MT]) /\ ref[o][MT] \in Obj
      BY <1>1, <2>2, <3>1 DEF RefInv, FieldsLive, TypeOK
    <3>3. ref[o][MT] \in Table
      <4>1. Fits(o, MT, ref[o][MT])
        BY <1>1 DEF RefInv, Shapes
      <4> QED BY <1>8, <2>2, <4>1, DisjointAssumption, Constants DEF Fits, MT, KEY, VAL
    <3>4. mode'[ref[o][MT]] = mode[ref[o][MT]]
      BY <1>2, <1>6, <3>2, <3>3
    <3> QED BY <1>7, <2>2, <3>4 DEF WeakMode
  <2> QED BY <2>1, <2>2
<1>9. ASSUME o \in UpVal PROVE UvValue(o)' = UvValue(o)
  <2>1. CASE IsOpen(o)
    <3>1. owner[o] \in Obj /\ Live(owner[o])
      BY <1>1, <1>9, <2>1, Constants DEF RefInv, OpenOwner, TypeOK, IsOpen
    <3>2. ref'[owner[o]] = ref[owner[o]]
      BY <1>2, <1>6, <3>1
    <3> QED BY <1>2, <2>1, <3>2 DEF UvValue, IsOpen
  <2>2. CASE ~IsOpen(o)
    BY <1>2, <1>7, <2>2 DEF UvValue, IsOpen
  <2> QED BY <2>1, <2>2
<1>10. o \in Thread => top'[o] = top[o]
  BY <1>2, <1>7
<1> QED BY <1>2, <1>7, <1>8, <1>9, <1>10 DEF Kept

\* Every step of the collector.
LEMMA CollectorSurvives ==
    ASSUME StepInv, StepInv', Collector, NEW o \in Obj
    PROVE  Survives(o)
<1>1. /\ ColorInv /\ ColorInv' /\ RefInv /\ TypeOK
      /\ WeakDone /\ Claimed /\ OpenLevels
  BY DEF StepInv, SafeInv, ColorInv
<1>2. CASE StartCycle \/ FullMark \/ AtomicUpvals \/ AtomicWeak \/ AtomicAgain
  <2>1. UNCHANGED <<ref, execvars, upvars>>
    BY <1>2 DEF StartCycle, FullMark, AtomicUpvals, AtomicWeak, AtomicAgain
  <2>2. gcstate # "sweep" /\ gcstate' # "sweep"
    BY <1>1, <1>2 DEF StartCycle, FullMark, MarkRoots, AtomicUpvals, AtomicWeak, AtomicAgain,
                      ColorInv, Phases
  <2>3. color' = color \/ \E S \in SUBSET Ref : color' = ColorsAfterMarking(S)
    <3>1. Roots \in SUBSET Ref /\ LateRoots \in SUBSET Ref
      BY <1>1, RootsType
    <3>2. {UvValue(u) : u \in GrayOpen} \in SUBSET Ref
      BY <1>1, UvValueType DEF GrayOpen
    <3> QED BY <1>2, <3>1, <3>2 DEF StartCycle, FullMark, MarkRoots, AtomicUpvals, AtomicWeak, AtomicAgain
  <2>4. \A x \in Obj : color'[x] = "free" <=> color[x] = "free"
    <3>1. \A x \in Obj : IsWhite(x) => color[x] # "free"
      BY <1>1, LiveColors
    <3>2. ASSUME NEW S \in SUBSET Ref, color' = ColorsAfterMarking(S), NEW x \in Obj
          PROVE  color'[x] = "free" <=> color[x] = "free"
      BY <1>1, <3>1, <3>2, Painting
    <3> QED BY <2>3, <3>2
  <2> QED BY <1>1, <2>1, <2>2, <2>4, QuietStep
<1>3. CASE \E p \in Obj : Propagate(p)
  BY <1>1, <1>3, PropagateSurvives
<1>4. CASE AtomicFinish
  BY <1>1, <1>4, FinishSurvives
<1>5. CASE \E p \in Page : Sweep(p)
  BY <1>1, <1>5, SweepSurvives
<1> QED BY <1>2, <1>3, <1>4, <1>5 DEF Collector

-----------------------------------------------------------------------------
(* What the program notices of the collector *)

\* An object that is as it was looks as it did.
LEMMA KeptSeen ==
    ASSUME TypeOK, NEW o \in Obj, Kept(o)
    PROVE  Seen(o)' = Seen(o)
<1>1. CASE o \in Table
  BY <1>1 DEF Kept, Seen, NonEmpty
<1>2. CASE o \in Thread
  <2>1. o \notin Table
    BY <1>2, Kinds
  <2>2. [i \in 1 .. top[o] |-> ref[o][i]]' = [i \in 1 .. top[o] |-> ref[o][i]]
    BY <1>2 DEF Kept
  <2>3. OpenOf(o)' = OpenOf(o)
    BY <1>2 DEF Kept, OpenOf
  <2> QED BY <1>2, <2>1, <2>2, <2>3 DEF Seen
<1>3. CASE o \in UpVal
  BY <1>3, DisjointAssumption DEF Kept, Seen
<1>4. CASE o \in Func \cup Udata \cup Str
  BY <1>4, DisjointAssumption DEF Kept, Seen
<1> QED BY <1>1, <1>2, <1>3, <1>4 DEF Obj

\* Programs cannot tell when the collector runs, except by a weak table that loses an entry
\* whose weak key or value dies: no barrier, traversal, closing of upvalues or sweep changes
\* what the program reads in an object that stays alive.
THEOREM InvisibleCollectorCorrect == Spec => InvisibleCollector
<1>1. ASSUME StepInv, StepInv', [Next]_vars
      PROVE  [(\E o \in Obj :
                 /\ Live(o)'
                 /\ Seen(o)' # Seen(o)
                 /\ ~ /\ o \in Table
                      /\ Seen(o)' = <<ref[o][MT], <<>> >>
                      /\ Lost(o, KEY) \/ Lost(o, VAL)) => ~Collector]_vars
  <2> SUFFICES ASSUME Collector, NEW o \in Obj, Live(o)', Seen(o)' # Seen(o)
               PROVE  /\ o \in Table
                      /\ Seen(o)' = <<ref[o][MT], <<>> >>
                      /\ Lost(o, KEY) \/ Lost(o, VAL)
    OBVIOUS
  <2>1. TypeOK
    BY <1>1 DEF StepInv, SafeInv, ColorInv
  <2>2. Cut(o)
    BY <1>1, <2>1, CollectorSurvives, KeptSeen DEF Survives
  <2>3. Seen(o)' = <<ref[o][MT], <<>> >>
    BY <2>2 DEF Cut, Seen, NonEmpty
  <2> QED BY <2>2, <2>3 DEF Cut
<1> QED BY <1>1, StepInvCorrect, PTL DEF Spec, InvisibleCollector

\* clearupvals closes the upvalues of dead threads only: an upvalue that a live thread shares
\* with its closures stays on the stack of the thread.
THEOREM ClosesOnlyOrphansCorrect == Spec => ClosesOnlyOrphans
<1>1. ASSUME StepInv, StepInv', [Next]_vars
      PROVE  [(\E th \in Thread : Live(th)' /\ \E u \in OpenOf(th) : ~IsOpen(u)') => ~Collector]_vars
  <2> SUFFICES ASSUME Collector, NEW th \in Thread, Live(th)', NEW u \in OpenOf(th)
               PROVE  IsOpen(u)'
    OBVIOUS
  <2>1. th \in Obj /\ th \notin Table /\ th # Nil /\ u \in UpVal /\ owner[u] = th
    BY Constants, Kinds DEF OpenOf
  <2>2. Kept(th)
    BY <1>1, <2>1, CollectorSurvives DEF Survives, Cut
  <2> QED BY <2>1, <2>2 DEF Kept, IsOpen
<1> QED BY <1>1, StepInvCorrect, PTL DEF Spec, ClosesOnlyOrphans

-----------------------------------------------------------------------------
(* The heap of LuaHeap *)

\* Strong and weak references lead to live objects.
LEMMA HeapSound ==
    ASSUME SafeInv
    PROVE  Heap!Sound
<1>1. ColorInv /\ RefInv /\ TypeOK /\ {KEY, VAL, MT, CAP} \subseteq Fld
  BY Constants DEF SafeInv, ColorInv
<1>2. (Roots \cup {cur}) \ {Nil} \subseteq {o \in Obj : Live(o)}
  BY <1>1, RegsLive, RootsType DEF RefInv, RootsLive, Ref
<1>3. ASSUME NEW o \in Obj, Live(o), NEW x \in StrongRefs(o)
      PROVE  x \in Obj /\ Live(x)
  <2>1. x # Nil
    BY <1>3 DEF StrongRefs
  <2>2. CASE o \in Udata
    <3>1. x = ref[o][MT] /\ o \notin Table
      BY <1>3, <2>2, DisjointAssumption DEF StrongRefs
    <3> QED BY <1>1, <1>3, <2>1, <3>1 DEF RefInv, FieldsLive, TypeOK
  <2>3. CASE o \in UpVal
    <3>1. x = UvValue(o)
      BY <1>3, <2>3, DisjointAssumption DEF StrongRefs
    <3> QED BY <1>1, <1>3, <2>1, <2>3, <3>1, UvValues, Constants
  <2>4. CASE o \in Listed
    <3>1. x \in Traced(o)
      BY <1>3, <2>4, DisjointAssumption DEF StrongRefs, Listed
    <3> QED BY <1>1, <1>3, <2>1, <2>4, <3>1, TracedLive, TracedType DEF Ref
  <2> QED BY <1>3, <2>2, <2>3, <2>4, DisjointAssumption DEF Obj, Listed, StrongRefs
<1>4. ASSUME NEW o \in Obj, Live(o), NEW x \in WeakRefs(o)
      PROVE  x \in Obj /\ Live(x)
  <2>1. x # Nil /\ x \in {ref[o][KEY], ref[o][VAL]} /\ ref[o][VAL] # Nil
    BY <1>4 DEF WeakRefs, NonEmpty
  <2> QED BY <1>1, <1>4, <2>1 DEF RefInv, FieldsLive, TypeOK
<1> QED BY <1>2, <1>3, <1>4 DEF Heap!Sound

\* The references LuaHeap sees of an object that is as it was, and of one that loses its entry.
LEMMA KeptRefs ==
    ASSUME NEW o \in Obj, Kept(o)
    PROVE  StrongRefs(o)' = StrongRefs(o) /\ WeakRefs(o)' = WeakRefs(o)
<1>1. CASE o \in Table
  <2>1. Traced(o)' = Traced(o)
    BY <1>1 DEF Kept, Traced
  <2> QED BY <1>1, <2>1, DisjointAssumption DEF Kept, StrongRefs, WeakRefs, NonEmpty
<1>2. CASE o \in Thread
  <2>1. {ref[o][i] : i \in 1 .. top[o]}' = {ref[o][i] : i \in 1 .. top[o]}
    BY <1>2 DEF Kept
  <2>2. OpenOf(o)' = OpenOf(o)
    BY <1>2 DEF Kept, OpenOf
  <2>3. o \notin Table
    BY <1>2, Kinds
  <2> QED BY <1>2, <2>1, <2>2, <2>3, DisjointAssumption DEF StrongRefs, WeakRefs, Traced
<1>3. CASE o \in UpVal
  BY <1>3, DisjointAssumption DEF Kept, StrongRefs, WeakRefs
<1>4. CASE o \in Func \cup Udata \cup Str
  BY <1>4, DisjointAssumption DEF Kept, StrongRefs, WeakRefs, Traced
<1> QED BY <1>1, <1>2, <1>3, <1>4 DEF Obj

LEMMA CutRefs ==
    ASSUME TypeOK, NEW o \in Obj, Cut(o)
    PROVE  /\ \E x \in WeakRefs(o) : x \in Obj /\ ~Live(x)'
           /\ StrongRefs(o)' \subseteq StrongRefs(o)
           /\ WeakRefs(o)' \subseteq WeakRefs(o)
<1>1. o \in Table /\ o \notin Udata \cup UpVal \cup Str /\ NonEmpty(o) /\ {KEY, VAL} \subseteq Fld
  BY Constants, DisjointAssumption DEF Cut, NonEmpty
<1>2. \E x \in WeakRefs(o) : x \in Obj /\ ~Live(x)'
  <2>1. ASSUME NEW f \in {KEY, VAL}, Lost(o, f)
        PROVE  \E x \in WeakRefs(o) : x \in Obj /\ ~Live(x)'
    <3>1. PICK x \in {ref[o][f]} : ~Live(x)'
      BY <2>1 DEF Lost
    <3>2. x \in WeakRefs(o)
      BY <1>1, <2>1, <3>1 DEF Lost, WeakRefs, KEY, VAL
    <3>3. x \in Obj
      BY <1>1, <2>1, <3>1 DEF Lost, TypeOK
    <3> QED BY <3>1, <3>2, <3>3
  <2> QED BY <2>1 DEF Cut
<1>3. StrongRefs(o)' \subseteq StrongRefs(o)
  BY <1>1 DEF Cut, StrongRefs, Traced
<1>4. WeakRefs(o)' = {}
  BY <1>1 DEF Cut, WeakRefs, NonEmpty
<1> QED BY <1>2, <1>3, <1>4

\* A step of the collector is a collection of LuaHeap.
LEMMA CollectorCollects ==
    ASSUME StepInv, StepInv', Heap!Sound', Collector
    PROVE  Heap!Collect
<1> DEFINE alloc  == {o \in Obj : Live(o)}
           strong == [o \in Obj |-> IF Live(o) THEN StrongRefs(o) ELSE {}]
           heap   == [o \in Obj |-> IF Live(o) THEN WeakRefs(o) ELSE {}]
<1>1. TypeOK
  BY DEF StepInv, SafeInv, ColorInv
<1>2. \A o \in Obj : Survives(o)
  BY CollectorSurvives
<1>3. UNCHANGED <<gmt, cur>>
  BY DEF Collector, StartCycle, Propagate, AtomicUpvals, AtomicWeak, AtomicAgain, AtomicFinish,
         Sweep, FullMark, execvars
<1>4. alloc' \subseteq alloc
  BY <1>2 DEF Survives
<1>5. ((Roots \cup {cur}) \ {Nil})' = (Roots \cup {cur}) \ {Nil}
  BY <1>3 DEF Roots
<1>6. ASSUME NEW o \in alloc'
      PROVE  \/ strong'[o] = strong[o] /\ heap'[o] = heap[o]
             \/ /\ ~(heap[o] \subseteq alloc')
                /\ strong'[o] \subseteq strong[o]
                /\ heap'[o] \subseteq heap[o]
  <2>1. o \in Obj /\ Live(o)' /\ Live(o) /\ (Kept(o) \/ Cut(o))
    BY <1>2, <1>6 DEF Survives
  <2>2. /\ strong[o] = StrongRefs(o) /\ strong'[o] = StrongRefs(o)'
        /\ heap[o] = WeakRefs(o) /\ heap'[o] = WeakRefs(o)'
    BY <2>1
  <2>3. CASE Kept(o)
    BY <2>1, <2>2, <2>3, KeptRefs
  <2>4. CASE Cut(o)
    <3>1. PICK x \in WeakRefs(o) : x \in Obj /\ ~Live(x)'
      BY <1>1, <2>1, <2>4, CutRefs
    <3>2. x \notin alloc'
      BY <3>1
    <3> HIDE DEF alloc, strong, heap
    <3> QED BY <1>1, <2>1, <2>2, <2>4, <3>1, <3>2, CutRefs
  <2> QED BY <2>1, <2>3, <2>4
<1> QED BY <1>4, <1>5, <1>6 DEF Heap!Collect

\* A step of the program is a mutation of LuaHeap: it takes nothing away.
LEMMA ProgramMutates ==
    ASSUME StepInv, StepInv', Heap!Sound', Program
    PROVE  Heap!Mutate
<1>1. ColorInv /\ ColorInv' /\ TypeOK
  BY DEF StepInv, SafeInv, ColorInv
<1>2. \A o \in Obj : Live(o) => Live(o)'
  <2>1. CASE FullGC
    BY <2>1 DEF FullGC, Live, IsDead
  <2>2. CASE ~FullGC
    <3>1. Recolored /\ Control
      BY <1>1, <2>2, ProgramRecolors DEF ColorInv
    <3> QED BY <1>1, <3>1, RecoloredColors
  <2> QED BY <2>1, <2>2
<1> QED BY <1>2 DEF Heap!Mutate

\* In every state the references of LuaHeap lead to objects that exist.
LEMMA HeapSoundCorrect == Spec => []Heap!Sound
<1>1. SafeInv => Heap!Sound
  BY HeapSound
<1> QED BY <1>1, SafetyCorrect, PTL

\* The heap keeps its promise to the program, whatever the collector does behind it: what is
\* reachable through strong references never disappears, and of what stays only weak
\* references to what disappeared are lost.
THEOREM ImplementsHeapCorrect == Spec => ImplementsHeap
<1>1. ASSUME StepInv, StepInv', Heap!Sound', [Next]_vars
      PROVE  [Heap!Mutate \/ Heap!Collect]_(Heap!hvars)
  <2>1. CASE Collector
    BY <1>1, <2>1, CollectorCollects
  <2>2. CASE Program
    BY <1>1, <2>2, ProgramMutates
  <2>3. CASE UNCHANGED vars
    <3>1. UNCHANGED <<ref, top, mode, gmt, cur, owner, level, color, currentwhite>>
      BY <2>3 DEF vars, execvars, upvars, phase
    <3>2. \A o \in Obj : /\ Live(o)' <=> Live(o)
                         /\ StrongRefs(o)' = StrongRefs(o) /\ WeakRefs(o)' = WeakRefs(o)
      BY <3>1 DEF Live, IsDead, StrongRefs, WeakRefs, Traced, UvValue, IsOpen, OpenOf, WeakMode,
                  NonEmpty
    <3> QED BY <3>1, <3>2 DEF Heap!hvars, Roots
  <2> QED BY <1>1, <2>1, <2>2, <2>3 DEF Next
<1>2. Heap!Sound => Heap!Init
  BY DEF Heap!Init
<1> QED BY <1>1, <1>2, StepInvCorrect, HeapSoundCorrect, PTL DEF Spec, ImplementsHeap, Heap!Spec

=============================================================================
