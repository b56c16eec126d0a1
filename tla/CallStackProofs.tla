---------------------------- MODULE CallStackProofs ----------------------------
(***************************************************************************)
(* Theorems about CallStack, for any threads and limits and for call       *)
(* stacks of any height: the counts bound the depth of the native stack,   *)
(* a thread can yield exactly when its native frames give way, calls are   *)
(* balanced, and a suspended thread can be continued.  CallStackReturns    *)
(* has the inductive invariant and the steps that end calls; this module   *)
(* has those that begin them.                                              *)
(***************************************************************************)
EXTENDS CallStackReturns

-----------------------------------------------------------------------------
(* Calls                                                                    *)

\* What is bad in f2 is excused, or what called from it is the new element e.
Accounted(t, f2, e, nat, g) ==
    \A k \in DOMAIN f2 : Bad(f2, k) => Excused(t, f2, k, nat, g, FALSE) \/ CalledFrom(t, f2, e, k)

\* A mark of f2 was one of f, or that of the new element e.
MarkedFor(t, f, f2, e, z) ==
    /\ \A p \in DOMAIN f2 : f2[p].handle =>
          \/ /\ p \in DOMAIN f /\ f[p].handle
             /\ (\E k \in 1 .. (p - 1) : Bad(f2, k)) => \E k \in 1 .. (p - 1) : Bad(f, k)
          \/ e.fn = "luaD_pcall" /\ e.L = t /\ e.frames = p
    /\ e.fn = "luaD_pcall" => \A p \in (z.h + 1) .. Len(f2) : ~f2[p].handle

LEMMA PushIs ==
  ASSUME NEW nat, NEW g, NEW e, NEW z, NEW N,
         nat \in Seq(Element), g \in Seq(Note), Len(nat) = N, Len(g) = N, e \in Element, z \in Note
  PROVE  /\ Append(nat, e) \in Seq(Element) /\ Append(g, z) \in Seq(Note)
         /\ Len(Append(nat, e)) = N + 1 /\ Len(Append(g, z)) = N + 1
         /\ Agree(nat, g, Append(nat, e), Append(g, z), N)
         /\ \A i \in 1 .. N : Append(nat, e)[i] = nat[i] /\ Append(g, z)[i] = g[i]
         /\ Append(nat, e)[N + 1] = e /\ Append(g, z)[N + 1] = z
<1>1. /\ Append(nat, e) \in Seq(Element) /\ Len(Append(nat, e)) = N + 1 /\ Append(nat, e)[N + 1] = e
      /\ \A i \in 1 .. N : Append(nat, e)[i] = nat[i]
  BY AppendIs
<1>2. /\ Append(g, z) \in Seq(Note) /\ Len(Append(g, z)) = N + 1 /\ Append(g, z)[N + 1] = z
      /\ \A i \in 1 .. N : Append(g, z)[i] = g[i]
  BY AppendIs
<1>3. N \in Nat
  BY LenIs
<1> QED BY <1>1, <1>2, <1>3 DEF Agree

LEMMA WholePush ==
  ASSUME NEW fast, NEW nat, NEW g, NEW N, NEW e, NEW z, NEW t, NEW f, NEW f2,
         nat \in Seq(Element), g \in Seq(Note), Len(nat) = N, Len(g) = N, N > 0, e \in Element, z \in Note, e.L = t,
         f \in Seq(FrameType), f2 \in Seq(FrameType), FramesOK(fast, f2), Known(t, f2, nat, g, N, e.fn),
         Knows(f2, nat[N], g[N], e, z, "none"), Accounted(t, f2, e, nat, g),
         Marks(fast, t, f, nat, g), MarkedFor(t, f, f2, e, z)
  PROVE  Whole(fast, t, f2, Append(nat, e), Append(g, z))
<1>1. PICK nat2, g2, M : nat2 = Append(nat, e) /\ g2 = Append(g, z) /\ M = N + 1
  OBVIOUS
<1>2. /\ nat2 \in Seq(Element) /\ g2 \in Seq(Note)
      /\ Len(nat2) = M /\ Len(g2) = M
      /\ Agree(nat, g, nat2, g2, N)
      /\ \A i \in 1 .. N : nat2[i] = nat[i] /\ g2[i] = g[i]
      /\ nat2[M] = e /\ g2[M] = z
  BY <1>1, PushIs
<1>3. N \in Nat /\ M \in Nat /\ M \in 2 .. M /\ \A i \in (N + 1) .. M : i = M
  BY <1>1, LenIs
<1>4. Known(t, f2, nat2, g2, M, "none")
  <2>1. Known(t, f2, Append(nat, e), Append(g, z), Len(nat) + 1, "none")
    BY KnownPush
  <2> QED BY <1>1, <2>1
<1>5. Explained(t, f2, nat2, g2, FALSE)
  <2>1. ASSUME NEW k \in DOMAIN f2, Bad(f2, k)
        PROVE  Calls(t, f2, k, nat2) \/ Failed(t, k, nat2, g2, FALSE)
    <3>1. CASE Excused(t, f2, k, nat, g, FALSE)
      <4>1. Unneeded(t, f2, k, nat, g, N)
        <5>1. \A j \in (N + 1) .. Len(nat) : FALSE
          BY <1>3
        <5> QED BY <5>1 DEF Unneeded
      <4>2. Excused(t, f2, k, nat2, g2, FALSE)
        BY <1>2, <1>3, <3>1, <4>1, ExcusedOn
      <4> QED BY <4>2 DEF Excused
    <3>2. CASE CalledFrom(t, f2, e, k)
      <4>1. M \in 2 .. Len(nat2)
        BY <1>2, <1>3
      <4> QED BY <1>2, <3>2, <4>1 DEF CalledFrom, Calls
    <3> QED BY <2>1, <3>1, <3>2 DEF Accounted
  <2> QED BY <2>1 DEF Explained
<1>6. Marks(fast, t, f2, nat2, g2)
  <2>1. MarksKept(fast, t, f, f2, nat, nat2, g2, N)
    <3>1. ASSUME NEW p \in DOMAIN f2, f2[p].handle
          PROVE  \/ /\ p \in DOMAIN f /\ f[p].handle
                    /\ (\E k \in 1 .. (p - 1) : Bad(f2, k)) => \E k \in 1 .. (p - 1) : Bad(f, k)
                    /\ \A j \in (N + 1) .. Len(nat) : nat[j].L = t /\ nat[j].fn = "luaD_pcall" => nat[j].frames # p
                 \/ N > 0 /\ HasPcall(t, nat2, N + 1, p)
      <4>1. CASE e.fn = "luaD_pcall" /\ e.L = t /\ e.frames = p
        <5>1. M \in (N + 1) .. Len(nat2)
          BY <1>1, <1>2, <1>3
        <5>2. HasPcall(t, nat2, N + 1, p)
          BY <1>2, <4>1, <5>1 DEF HasPcall
        <5> QED BY <5>2
      <4>2. CASE ~(e.fn = "luaD_pcall" /\ e.L = t /\ e.frames = p)
        <5>1. \A j \in (N + 1) .. Len(nat) : FALSE
          BY <1>3
        <5> QED BY <3>1, <4>2, <5>1 DEF MarkedFor
      <4> QED BY <4>1, <4>2
    <3>2. \A i \in (N + 1) .. Len(nat2) : nat2[i].L = t /\ nat2[i].fn = "luaD_pcall" =>
          \A p \in (g2[i].h + 1) .. Len(f2) : ~f2[p].handle
      BY <1>2, <1>3 DEF MarkedFor
    <3> QED BY <3>1, <3>2 DEF MarksKept
  <2>2. Len(g2) = Len(nat2)
    BY <1>2
  <2> QED BY <1>2, <1>3, <2>1, <2>2, MarksOn
<1>7. Frames(fast, t, f2, nat2, g2, "none")
  BY <1>2, <1>4 DEF Frames
<1> QED BY <1>1, <1>5, <1>6, <1>7 DEF Whole

LEMMA KnownAny ==
  ASSUME NEW u, NEW f, NEW nat, NEW g, NEW m, NEW fn,
         Known(u, f, nat, g, m, "none")
  PROVE  Known(u, f, nat, g, m, fn)
BY DEF Known, Knows

\* Something is called that leaves the frames as they are.
LEMMA WholeOn ==
  ASSUME NEW fast, NEW nat, NEW g, NEW N, NEW e, NEW z, NEW t, NEW f,
         nat \in Seq(Element), g \in Seq(Note), Stack(fast, nat, g), Len(nat) = N, N > 1, e \in Element, z \in Note,
         e.L = t, e.fn \in {"C", "luau_execute", "resume_continue", "callerrfunc"},
         f \in Seq(FrameType), Whole(fast, t, f, nat, g), Atop(fast, nat[N], g[N], e, z),
         Knows(f, nat[N], g[N], e, z, "none")
  PROVE  Stack(fast, Append(nat, e), Append(g, z)) /\ Whole(fast, t, f, Append(nat, e), Append(g, z))
<1>1. N \in Nat /\ Len(g) = N /\ N > 0
  BY LenIs DEF Stack, Grounded
<1>2. FramesOK(fast, f) /\ Known(t, f, nat, g, N, "none") /\ Explained(t, f, nat, g, FALSE) /\ Marks(fast, t, f, nat, g)
  BY DEF Whole, Frames
<1>3. Known(t, f, nat, g, N, e.fn)
  BY <1>2, KnownAny
<1>4. Accounted(t, f, e, nat, g)
  BY <1>2 DEF Accounted, Explained, Excused
<1>5. MarkedFor(t, f, f, e, z)
  BY DEF MarkedFor
<1>6. Whole(fast, t, f, Append(nat, e), Append(g, z))
  BY <1>1, <1>2, <1>3, <1>4, <1>5, WholePush
<1>7. Stack(fast, Append(nat, e), Append(g, z))
  <2>1. /\ Atop(fast, nat[Len(nat)], g[Len(nat)], e, z) /\ (Len(nat) = 1 => e.fn \in {"luaD_pcall", "lua_resume"})
        /\ (Len(nat) = 2 /\ nat[2].fn = "luaD_pcall" /\ e.fn = "luaD_callint" => ~e.from)
        /\ (e.fn = "lua_resume" => \A k \in 2 .. Len(nat) : nat[k].L # e.L)
    BY <1>1
  <2> QED BY <2>1, PushStack
<1> QED BY <1>6, <1>7

\* A function runs on top of its frames.
RunsNow(fast, f, n, b, t, nat2, g2, N) ==
    /\ nat2 \in Seq(Element) /\ g2 \in Seq(Note) /\ Len(nat2) = N /\ nat2[N].L = t
    /\ Stack(fast, nat2, g2) /\ Runs(fast, f, n, b, "ok", nat2, g2)

\* Its counts and its frame
Callee(f, n, b, fn, w) ==
    /\ n >= w.c /\ b >= w.b /\ n = b + w.y /\ w.h = Len(f) /\ ~f[w.h].handle
    /\ fn = "luau_execute" => f[w.h].kind = "lua"

LEMMA RunPush ==
  ASSUME NEW fast, NEW nat, NEW g, NEW N, NEW fn, NEW w, NEW t, NEW f, NEW n, NEW b,
         nat \in Seq(Element), g \in Seq(Note), Stack(fast, nat, g), Len(nat) = N, N > 1, w \in Note,
         t \in Thread, fn \in {"C", "luau_execute"},
         f \in Seq(FrameType), Whole(fast, t, f, nat, g), Atop(fast, nat[N], g[N], Native(fn, t), w),
         Knows(f, nat[N], g[N], Native(fn, t), w, "none"), Callee(f, n, b, fn, w)
  PROVE  RunsNow(fast, f, n, b, t, Append(nat, Native(fn, t)), Append(g, w), N + 1)
<1>1. PICK e : e = Native(fn, t)
  OBVIOUS
<1>2. e \in Element /\ e.fn = fn /\ e.L = t
  BY <1>1 DEF Native, Element
<1>3. N \in Nat /\ Len(g) = N
  BY LenIs DEF Stack, Grounded
<1>4. PICK nat2, g2, M : nat2 = Append(nat, e) /\ g2 = Append(g, w) /\ M = N + 1
  OBVIOUS
<1>5. /\ nat2 \in Seq(Element) /\ g2 \in Seq(Note) /\ Len(nat2) = M /\ Len(g2) = M /\ nat2[M] = e /\ g2[M] = w
  BY <1>2, <1>3, <1>4, PushIs
<1>6. Stack(fast, nat2, g2) /\ Whole(fast, t, f, nat2, g2)
  <2>1. e.fn \in {"C", "luau_execute", "resume_continue", "callerrfunc"}
    BY <1>2
  <2>2. Atop(fast, nat[N], g[N], e, w) /\ Knows(f, nat[N], g[N], e, w, "none")
    BY <1>1
  <2>3. Stack(fast, Append(nat, e), Append(g, w)) /\ Whole(fast, t, f, Append(nat, e), Append(g, w))
    BY <1>2, <2>1, <2>2, WholeOn
  <2> QED BY <1>4, <2>3
<1>7. Runs(fast, f, n, b, "ok", nat2, g2)
  BY <1>2, <1>5, <1>6 DEF Runs, Callee
<1> QED BY <1>1, <1>2, <1>4, <1>5, <1>6, <1>7 DEF RunsNow

CallNames == {"luaD_callint", "luaV_callTM", "luaD_performcally", "luaD_callny"}

\* The native stack of nat grows to nat2, with notes g2.
Grows(nat, g, N, nat2, g2, t) ==
    /\ nat2 \in Seq(Element) /\ g2 \in Seq(Note) /\ Len(nat2) > N
    /\ \A i \in 1 .. N : nat2[i] = nat[i] /\ g2[i] = g[i]
    /\ \A i \in (N + 1) .. Len(nat2) : nat2[i].L = t

LEMMA ConcatIs ==
  ASSUME NEW S, NEW s, NEW a, NEW c, s \in Seq(S), a \in S, c \in S
  PROVE  s \o <<a>> = Append(s, a) /\ s \o <<a, c>> = Append(Append(s, a), c)
<1>1. \A r \in Seq(S) : \A e \in S : Append(r, e) = r \o <<e>>
  BY AppendIsConcat
<1>2. <<a>> \in Seq(S) /\ <<c>> \in Seq(S) /\ s \o <<a>> \in Seq(S)
  <2>1. <<a>> \in Seq(S) /\ <<c>> \in Seq(S)
    OBVIOUS
  <2> QED BY <2>1, ConcatProperties
<1>3. Append(Append(s, a), c) = (s \o <<a>>) \o <<c>>
  BY <1>1, <1>2
<1>4. (s \o <<a>>) \o <<c>> = s \o (<<a>> \o <<c>>)
  BY <1>2, ConcatAssociative
<1>5. <<a>> \o <<c>> = <<a, c>>
  <2>1. Append(<<a>>, c) = <<a>> \o <<c>>
    BY <1>1, <1>2
  <2>2. Append(<<a>>, c) = <<a, c>>
    <3>1. PICK p, q, r : p = <<a>> /\ q = Append(p, c) /\ r = <<a, c>>
      OBVIOUS
    <3>2. p \in Seq(S) /\ Len(p) = 1 /\ p[1] = a
      BY <3>1
    <3>3. r \in Seq(S) /\ Len(r) = 2 /\ r[1] = a /\ r[2] = c
      BY <3>1
    <3>4. q \in Seq(S) /\ Len(q) = 2 /\ q[1] = a /\ q[2] = c
      <4>1. /\ q \in Seq(S) /\ Len(q) = Len(p) + 1 /\ q[Len(p) + 1] = c
            /\ \A i \in 1 .. Len(p) : q[i] = p[i]
        BY <3>1, <3>2, AppendIs
      <4> QED BY <3>2, <4>1
    <3>5. \A i \in 1 .. 2 : i = 1 \/ i = 2
      OBVIOUS
    <3>6. q = r
      BY <3>3, <3>4, <3>5, SameSeq
    <3> QED BY <3>1, <3>6
  <2> QED BY <2>1, <2>2
<1> QED BY <1>1, <1>3, <1>4, <1>5

\* What runs when a call has pushed its frame
CalleeOf(fast, t, kind, h) ==
    CASE kind # "lua" -> <<Native("C", t)>>
      [] kind = "lua" /\ ~fast -> <<Native("luau_execute", t)>>
      [] kind = "lua" /\ fast -> <<ResumeContinue(t, h), Native("luau_execute", t)>>

\* A function runs on the native stack nat2 that nat has grown to.
RunsOn(fast, f, n, b, nat, g, N, nat2, t) ==
    \E g2 : Grows(nat, g, N, nat2, g2, t) /\ Stack(fast, nat2, g2) /\ Runs(fast, f, n, b, "ok", nat2, g2)

LEMMA RunsGrown ==
  ASSUME NEW fast, NEW nat, NEW g, NEW N, NEW w, NEW t, NEW f, NEW n, NEW b, NEW e,
         nat \in Seq(Element), g \in Seq(Note), Len(nat) = N, Len(g) = N, e \in Element, w \in Note, e.L = t,
         RunsNow(fast, f, n, b, t, Append(nat, e), Append(g, w), N + 1)
  PROVE  RunsOn(fast, f, n, b, nat, g, N, Append(nat, e), t)
<1>1. PICK nat2, g2, M : nat2 = Append(nat, e) /\ g2 = Append(g, w) /\ M = N + 1
  OBVIOUS
<1>2. /\ nat2 \in Seq(Element) /\ g2 \in Seq(Note) /\ Len(nat2) = M /\ Len(g2) = M
      /\ \A i \in 1 .. N : nat2[i] = nat[i] /\ g2[i] = g[i]
      /\ nat2[M] = e /\ g2[M] = w
  BY <1>1, PushIs
<1>3. N \in Nat /\ M > N /\ \A i \in (N + 1) .. M : i = M
  BY <1>1, LenIs
<1>4. Grows(nat, g, N, nat2, g2, t)
  BY <1>2, <1>3 DEF Grows
<1>5. Stack(fast, nat2, g2) /\ Runs(fast, f, n, b, "ok", nat2, g2)
  BY <1>1 DEF RunsNow
<1> QED BY <1>1, <1>4, <1>5 DEF RunsOn

\* The call is on the stack with note z, and its frame on the frames.
Entered(fast, t, kind, f, n, b, nat, g, N) ==
    /\ nat[N].L = t /\ nat[N].fn \in CallNames /\ (nat[N].fn = "luaV_callTM" => kind # "lua")
    /\ Whole(fast, t, f, nat, g)
    /\ Len(f) = g[N].h + 1 /\ f[g[N].h + 1] = Return(kind)
    /\ n >= g[N].c /\ b >= g[N].b /\ n = b + g[N].y

LEMMA EnteredRuns ==
  ASSUME NEW fast, NEW nat, NEW g, NEW N, NEW kind, NEW t, NEW f, NEW n, NEW b, NEW nat2, NEW h,
         nat \in Seq(Element), g \in Seq(Note), Stack(fast, nat, g), Len(nat) = N, N > 1,
         t \in Thread, kind \in Kind, f \in Seq(FrameType), Entered(fast, t, kind, f, n, b, nat, g, N),
         h = g[N].h, nat2 = nat \o CalleeOf(fast, t, kind, h)
  PROVE  RunsOn(fast, f, n, b, nat, g, N, nat2, t)
<1>1. PICK z, d : z = g[N] /\ d = nat[N]
  OBVIOUS
<1>2. /\ N \in Nat /\ Len(g) = N /\ z \in Note /\ d \in Element
  BY <1>1, TopIs
<1>3. /\ d.L = t /\ d.fn \in CallNames /\ (d.fn = "luaV_callTM" => kind # "lua")
      /\ Whole(fast, t, f, nat, g)
      /\ Len(f) = z.h + 1 /\ f[z.h + 1] = Return(kind)
      /\ n >= z.c /\ b >= z.b /\ n = b + z.y
  BY <1>1 DEF Entered
<1>4. z.h \in Nat
  BY <1>2, NoteIs
<1>5. /\ Return(kind).kind = kind /\ (kind = "lua" => Return(kind).return) /\ ~Return(kind).handle
  BY NewFrame
<1>6. PICK w, l : l = z.h + 1 /\ w = [z EXCEPT !.h = l]
  OBVIOUS
<1>7. w \in Note /\ w.h = z.h + 1 /\ w.y = z.y /\ w.c = z.c /\ w.b = z.b
  <2>1. l \in Nat
    BY <1>4, <1>6
  <2>2. w \in Note /\ w.h = l /\ w.y = z.y /\ w.c = z.c /\ w.b = z.b
    BY <1>2, <1>6, <2>1 DEF Note
  <2> QED BY <1>6, <2>2
<1>8. Native("C", t) \in Element /\ Native("luau_execute", t) \in Element /\ ResumeContinue(t, h) \in Element
  BY <1>1, <1>4 DEF Element, Native, ResumeContinue
<1>9. CASE kind # "lua"
  <2>1. nat2 = Append(nat, Native("C", t))
    <3>1. nat2 = nat \o <<Native("C", t)>>
      BY <1>9 DEF CalleeOf
    <3> QED BY <1>8, <3>1, ConcatIs
  <2>2. Atop(fast, d, z, Native("C", t), w)
    BY <1>3, <1>4, <1>7 DEF Atop, Native, Noted, CallNames
  <2>3. Knows(f, d, z, Native("C", t), w, "none")
    BY <1>3, <1>5, <1>7, <1>9 DEF Knows, Native, Beginning
  <2>4. Callee(f, n, b, "C", w)
    BY <1>3, <1>5, <1>7 DEF Callee
  <2>5. RunsNow(fast, f, n, b, t, Append(nat, Native("C", t)), Append(g, w), N + 1)
    BY <1>1, <1>3, <1>7, <2>2, <2>3, <2>4, RunPush
  <2>6. Native("C", t).L = t
    BY DEF Native
  <2> QED BY <1>2, <1>7, <1>8, <2>1, <2>5, <2>6, RunsGrown
<1>10. CASE kind = "lua" /\ ~fast
  <2>1. nat2 = Append(nat, Native("luau_execute", t))
    <3>1. nat2 = nat \o <<Native("luau_execute", t)>>
      BY <1>10 DEF CalleeOf
    <3> QED BY <1>8, <3>1, ConcatIs
  <2>2. Atop(fast, d, z, Native("luau_execute", t), w)
    BY <1>3, <1>4, <1>7, <1>10 DEF Atop, Native, Noted, CallNames
  <2>3. Knows(f, d, z, Native("luau_execute", t), w, "none")
    <3>1. \A k \in (z.h + 1) .. w.h : k = z.h + 1
      BY <1>4, <1>7
    <3> QED BY <1>3, <1>5, <1>7, <1>10, <3>1 DEF Knows, Native, Beginning
  <2>4. Callee(f, n, b, "luau_execute", w)
    BY <1>3, <1>5, <1>7, <1>10 DEF Callee
  <2>5. RunsNow(fast, f, n, b, t, Append(nat, Native("luau_execute", t)), Append(g, w), N + 1)
    BY <1>1, <1>3, <1>7, <2>2, <2>3, <2>4, RunPush
  <2>6. Native("luau_execute", t).L = t
    BY DEF Native
  <2> QED BY <1>2, <1>7, <1>8, <2>1, <2>5, <2>6, RunsGrown
<1>11. CASE kind = "lua" /\ fast
  <2>1. PICK nat1, g1, K, e : nat1 = Append(nat, e) /\ g1 = Append(g, z) /\ K = N + 1 /\ e = ResumeContinue(t, h)
    OBVIOUS
  <2>2. e \in Element /\ e.fn = "resume_continue" /\ e.L = t /\ e.base = z.h
    BY <1>1, <1>8, <2>1 DEF ResumeContinue
  <2>3. nat2 = Append(nat1, Native("luau_execute", t))
    <3>1. nat2 = nat \o <<e, Native("luau_execute", t)>>
      BY <1>11, <2>1 DEF CalleeOf
    <3> QED BY <1>8, <2>1, <2>2, <3>1, ConcatIs
  <2>4. Atop(fast, d, z, e, z)
    BY <1>3, <1>11, <2>2 DEF Atop, Noted, CallNames
  <2>5. Knows(f, d, z, e, z, "none")
    BY <1>3, <1>4, <1>5, <1>11, <2>2 DEF Knows, Beginning
  <2>6. Stack(fast, nat1, g1) /\ Whole(fast, t, f, nat1, g1)
    BY <1>1, <1>2, <1>3, <2>1, <2>2, <2>4, <2>5, WholeOn
  <2>7. /\ nat1 \in Seq(Element) /\ g1 \in Seq(Note) /\ Len(nat1) = K /\ Len(g1) = K
        /\ \A i \in 1 .. N : nat1[i] = nat[i] /\ g1[i] = g[i]
        /\ nat1[K] = e /\ g1[K] = z
    BY <1>2, <2>1, <2>2, PushIs
  <2>8. K > 1 /\ K > N /\ N + 1 = K
    BY <1>2, <2>1
  <2>9. Atop(fast, e, z, Native("luau_execute", t), w)
    BY <1>4, <1>7, <2>2 DEF Atop, Native, Noted
  <2>10. Knows(f, e, z, Native("luau_execute", t), w, "none")
    <3>1. \A k \in (z.h + 1) .. w.h : k = z.h + 1
      BY <1>4, <1>7
    <3> QED BY <1>3, <1>5, <1>7, <1>11, <3>1 DEF Knows, Native, Beginning
  <2>11. Callee(f, n, b, "luau_execute", w)
    BY <1>3, <1>5, <1>7, <1>11 DEF Callee
  <2>12. RunsNow(fast, f, n, b, t, Append(nat1, Native("luau_execute", t)), Append(g1, w), K + 1)
    BY <1>7, <2>6, <2>7, <2>8, <2>9, <2>10, <2>11, RunPush
  <2>13. Native("luau_execute", t).L = t
    BY DEF Native
  <2>14. PICK g2 : /\ Grows(nat1, g1, K, nat2, g2, t) /\ Stack(fast, nat2, g2)
                   /\ Runs(fast, f, n, b, "ok", nat2, g2)
    <3>1. RunsOn(fast, f, n, b, nat1, g1, K, Append(nat1, Native("luau_execute", t)), t)
      BY <1>7, <1>8, <2>7, <2>12, <2>13, RunsGrown
    <3> QED BY <2>3, <3>1 DEF RunsOn
  <2>15. Grows(nat, g, N, nat2, g2, t)
    <3>1. \A i \in 1 .. N : i \in 1 .. K
      BY <1>2, <2>8
    <3>2. Len(nat2) \in Nat /\ K \in Nat
      BY <1>2, <2>8, <2>14, LenIs DEF Grows
    <3>3. \A i \in (N + 1) .. Len(nat2) : i = K \/ i \in (K + 1) .. Len(nat2)
      BY <1>2, <2>8, <3>2
    <3>4. K \in 1 .. K
      BY <1>2, <2>8
    <3>5. nat2[K].L = t
      BY <2>2, <2>7, <2>14, <3>4 DEF Grows
    <3>6. Len(nat2) > N
      BY <1>2, <2>8, <2>14, <3>2 DEF Grows
    <3> QED BY <2>7, <2>14, <3>1, <3>3, <3>5, <3>6 DEF Grows
  <2> QED BY <2>14, <2>15 DEF RunsOn
<1> QED BY <1>9, <1>10, <1>11

\* Element e with note z is about to call from frames.
Ready(fast, t, kind, frames, n, b, base, prep, nat, g, N, e, z) ==
    /\ nat[N].L = t /\ ~Handling(nat[N])
    /\ e \in Element /\ z \in Note /\ e.L = t /\ e.fn \in CallNames /\ (e.fn = "luaV_callTM" => kind # "lua")
    /\ Atop(fast, nat[N], g[N], e, z) /\ z.h = Len(frames)
    /\ N = 2 /\ nat[2].fn = "luaD_pcall" /\ e.fn = "luaD_callint" => ~e.from
    /\ e.fn = "luaD_performcally" => frames # <<>> /\ frames[Len(frames)].forcall
    /\ FramesOK(fast, frames) /\ Known(t, frames, nat, g, N, "none") /\ Marks(fast, t, frames, nat, g)
    /\ \A k \in DOMAIN frames : Bad(frames, k) \/ (k = Len(frames) /\ frames[k].kind = "c") =>
          Excused(t, frames, k, nat, g, FALSE) \/ CalledFrom(t, frames, e, k)
    /\ n + 1 >= z.c /\ base >= z.b /\ n + 1 = base + z.y
    /\ n + 1 >= g[N].c /\ b >= g[N].b /\ n + 1 >= b
    /\ prep => z.y = 0

LEMMA KeptPush ==
  ASSUME NEW f, NEW r,
         f \in Seq(FrameType), r \in FrameType, r.kind = "lua" => r.return
  PROVE  Kept(f, Append(f, r), Len(f))
<1>1. PICK f2, n : f2 = Append(f, r) /\ n = Len(f)
  OBVIOUS
<1>2. Len(f2) = n + 1 /\ f2[n + 1] = r /\ n \in Nat /\ \A k \in 1 .. n : f2[k] = f[k]
  BY <1>1, AppendIs, FrameIs
<1>3. Kept(f, f2, n)
  BY <1>1, <1>2 DEF Kept
<1> QED BY <1>1, <1>3

LEMMA ReadyEntered ==
  ASSUME NEW fast, NEW nat, NEW g, NEW N, NEW kind, NEW t, NEW frames, NEW n, NEW b, NEW base, NEW prep, NEW e, NEW z,
         nat \in Seq(Element), g \in Seq(Note), Stack(fast, nat, g), Len(nat) = N, N > 1, kind \in Kind,
         frames \in Seq(FrameType), Ready(fast, t, kind, frames, n, b, base, prep, nat, g, N, e, z)
  PROVE  /\ Stack(fast, Append(nat, e), Append(g, z))
         /\ Entered(fast, t, kind, Append(frames, Return(kind)), n + 1, base, Append(nat, e), Append(g, z), N + 1)
<1>1. PICK r, f2, h : r = Return(kind) /\ f2 = Append(frames, r) /\ h = Len(frames)
  OBVIOUS
<1>2. r \in FrameType /\ r.kind = kind /\ (r.kind = "lua" => r.return) /\ ~r.handle /\ ~r.pcall /\ ~r.forcall /\ ~r.opyield
  BY <1>1, NewFrame
<1>3. /\ e \in Element /\ z \in Note /\ e.L = t /\ e.fn \in CallNames /\ (e.fn = "luaV_callTM" => kind # "lua")
      /\ Atop(fast, nat[N], g[N], e, z) /\ z.h = h
      /\ FramesOK(fast, frames) /\ Known(t, frames, nat, g, N, "none") /\ Marks(fast, t, frames, nat, g)
  BY <1>1 DEF Ready
<1>4. N \in Nat /\ Len(g) = N /\ N > 0 /\ h \in Nat
  BY <1>1, LenIs DEF Stack, Grounded
<1>5. /\ FramesOK(fast, f2) /\ f2 \in Seq(FrameType)
      /\ Len(f2) = h + 1 /\ f2[h + 1] = r
      /\ DOMAIN f2 = 1 .. (h + 1)
      /\ \A k \in 1 .. h : f2[k] = frames[k]
      /\ \A k \in DOMAIN f2 : Bad(f2, k) =>
            k \in DOMAIN frames /\ (Bad(frames, k) \/ (k = h /\ frames[k].kind = "c"))
  <2>1. r.kind = "lua" /\ ~r.return => frames # <<>> /\ frames[Len(frames)].kind = "lua"
    BY <1>2
  <2>2. r.handle \/ r.pcall => r.kind = "cont"
    BY <1>2
  <2>3. Pushed(fast, frames, r, f2)
    BY <1>1, <1>2, <1>3, <2>1, <2>2, PushedIs
  <2> QED BY <1>1, <2>3 DEF Pushed
<1>6. Known(t, f2, nat, g, N, e.fn)
  <2>1. Known(t, f2, nat, g, N, "none")
    <3>1. \A i \in 2 .. N : nat[i].L = t => g[i].h <= h
      BY <1>1, <1>3 DEF Known, Knows
    <3>2. Kept(frames, f2, h)
      BY <1>1, <1>2, KeptPush
    <3>3. Agree(nat, g, nat, g, N)
      BY <1>4 DEF Agree
    <3> QED BY <1>3, <1>4, <1>5, <3>1, <3>2, <3>3, KnownOn
  <2> QED BY <2>1, KnownAny
<1>7. Knows(f2, nat[N], g[N], e, z, "none")
  <2>1. e.fn = "luaD_performcally" => f2[h].forcall
    <3> SUFFICES ASSUME e.fn = "luaD_performcally" PROVE f2[h].forcall
      OBVIOUS
    <3>1. frames # <<>> /\ frames[h].forcall
      BY <1>1 DEF Ready
    <3>2. h \in 1 .. h
      BY <1>1, <1>4, <3>1, LenIs
    <3> QED BY <1>5, <3>1, <3>2
  <2> QED BY <1>2, <1>3, <1>4, <1>5, <2>1 DEF Knows, CallNames, Beginning
<1>8. Accounted(t, f2, e, nat, g)
  <2>1. ASSUME NEW k \in DOMAIN f2, Bad(f2, k)
        PROVE  Excused(t, f2, k, nat, g, FALSE) \/ CalledFrom(t, f2, e, k)
    <3>1. k \in DOMAIN frames /\ (Bad(frames, k) \/ (k = Len(frames) /\ frames[k].kind = "c"))
      BY <1>1, <1>5, <2>1
    <3>2. Excused(t, frames, k, nat, g, FALSE) \/ CalledFrom(t, frames, e, k)
      BY <3>1 DEF Ready
    <3>3. f2[k].kind = frames[k].kind
      BY <1>1, <1>5, <3>1, FrameIs
    <3> QED BY <3>2, <3>3 DEF Excused, Calls, CalledFrom
  <2> QED BY <2>1 DEF Accounted
<1>9. MarkedFor(t, frames, f2, e, z)
  <2>1. ASSUME NEW p \in DOMAIN f2, f2[p].handle
        PROVE  /\ p \in DOMAIN frames /\ frames[p].handle
               /\ (\E k \in 1 .. (p - 1) : Bad(f2, k)) => \E k \in 1 .. (p - 1) : Bad(frames, k)
    <3>1. p \in 1 .. h
      BY <1>2, <1>4, <1>5, <2>1
    <3>2. p \in DOMAIN frames /\ frames[p].handle
      BY <1>1, <1>5, <2>1, <3>1, FrameIs
    <3>3. ASSUME NEW k \in 1 .. (p - 1), Bad(f2, k)
          PROVE  Bad(frames, k)
      <4>1. k \in DOMAIN f2 /\ k # h
        BY <1>4, <1>5, <3>1
      <4> QED BY <1>5, <3>3, <4>1
    <3> QED BY <3>2, <3>3
  <2>2. e.fn # "luaD_pcall"
    BY <1>3 DEF CallNames
  <2> QED BY <2>1, <2>2 DEF MarkedFor
<1>10. Whole(fast, t, f2, Append(nat, e), Append(g, z))
  BY <1>3, <1>4, <1>5, <1>6, <1>7, <1>8, <1>9, WholePush
<1>11. Stack(fast, Append(nat, e), Append(g, z))
  <2>1. /\ Atop(fast, nat[Len(nat)], g[Len(nat)], e, z) /\ (Len(nat) = 1 => e.fn \in {"luaD_pcall", "lua_resume"})
        /\ (Len(nat) = 2 /\ nat[2].fn = "luaD_pcall" /\ e.fn = "luaD_callint" => ~e.from)
        /\ (e.fn = "lua_resume" => \A k \in 2 .. Len(nat) : nat[k].L # e.L)
    <3>1. e.fn # "lua_resume"
      BY <1>3 DEF CallNames
    <3> QED BY <1>3, <1>4, <3>1 DEF Ready
  <2> QED BY <1>3, <2>1, PushStack
<1>12. Entered(fast, t, kind, f2, n + 1, base, Append(nat, e), Append(g, z), N + 1)
  <2>1. PICK nat1, g1, M : nat1 = Append(nat, e) /\ g1 = Append(g, z) /\ M = N + 1
    OBVIOUS
  <2>2. nat1[M] = e /\ g1[M] = z
    BY <1>3, <1>4, <2>1, PushIs
  <2>3. n + 1 >= z.c /\ base >= z.b /\ n + 1 = base + z.y
    BY DEF Ready
  <2>4. Entered(fast, t, kind, f2, n + 1, base, nat1, g1, M)
    BY <1>1, <1>3, <1>5, <1>10, <2>1, <2>2, <2>3 DEF Entered
  <2> QED BY <2>1, <2>4
<1> QED BY <1>1, <1>11, <1>12

\* The call is one too many, and throws.
LEMMA CountedThrows ==
  ASSUME NEW fast, NEW nat, NEW g, NEW N, NEW kind, NEW t, NEW frames, NEW n, NEW b, NEW base, NEW prep, NEW e, NEW z, NEW c,
         nat \in Seq(Element), g \in Seq(Note), Stack(fast, nat, g), Len(nat) = N, N > 1,
         frames \in Seq(FrameType), Ready(fast, t, kind, frames, n, b, base, prep, nat, g, N, e, z), c = n + 1
  PROVE  Throws(fast, frames, c, b, "ok", nat, g)
<1>1. /\ nat[N].L = t /\ ~Handling(nat[N]) /\ FramesOK(fast, frames) /\ Known(t, frames, nat, g, N, "none")
      /\ Marks(fast, t, frames, nat, g) /\ c >= g[N].c /\ b >= g[N].b /\ c >= b
  BY DEF Ready
<1>2. g[N].h \in Nat
  BY TopIs, NoteIs
<1>3. ASSUME NEW k \in DOMAIN frames, Bad(frames, k)
      PROVE  Excused(t, frames, k, nat, g, FALSE) \/ k >= g[N].h
  <2>1. Excused(t, frames, k, nat, g, FALSE) \/ CalledFrom(t, frames, e, k)
    BY <1>3 DEF Ready
  <2>2. ASSUME CalledFrom(t, frames, e, k)
        PROVE  k >= g[N].h
    <3>1. k = g[N].h
      BY <2>2 DEF Ready, CalledFrom, Atop
    <3>2. g[N].h >= g[N].h
      BY <1>2
    <3> QED BY <3>1, <3>2
  <2> QED BY <2>1, <2>2
<1> QED BY <1>1, <1>3, NowThrows

\* A Lua function is left for the loop of resume.
LEMMA CountedReenters ==
  ASSUME NEW fast, NEW nat, NEW g, NEW N, NEW t, NEW f, NEW n, NEW b,
         nat \in Seq(Element), g \in Seq(Note), Stack(fast, nat, g), Len(nat) = N, N > 2,
         f \in Seq(FrameType), Entered(fast, t, "lua", f, n, b, nat, g, N), g[N].y = 0, n \in Nat, b \in Nat
  PROVE  Yields(fast, f, n, b, "reentry", nat, g)
<1>1. /\ nat[N].L = t /\ nat[N].fn \in CallNames /\ Whole(fast, t, f, nat, g)
      /\ Len(f) = g[N].h + 1 /\ f[g[N].h + 1] = Return("lua")
      /\ n >= g[N].c /\ b >= g[N].b /\ n = b + g[N].y
  BY DEF Entered
<1>2. n = b
  BY <1>1
<1>3. Clear(nat, N) /\ ~Handling(nat[N])
  <2>1. nat[N].fn # "callerrfunc" /\ nat[N].fn # "luaD_pcall" /\ nat[N].fn # "lua_resume"
    BY <1>1 DEF CallNames
  <2>2. Clear(nat, N)
    BY <2>1, ClearIs
  <2> QED BY <2>1, <2>2 DEF Handling
<1>4. Frames(fast, t, f, nat, g, "luaD_pcall")
  <2>1. Known(t, f, nat, g, N, "none") /\ FramesOK(fast, f)
    BY <1>1 DEF Whole, Frames
  <2>2. Known(t, f, nat, g, N, "luaD_pcall")
    BY <2>1, KnownAny
  <2> QED BY <2>1, <2>2 DEF Frames
<1>5. Leaves(f, "reentry")
  <2>1. f[Len(f)] = Return("lua")
    BY <1>1
  <2>2. Len(f) # 0
    <3>1. N > 1
      BY LenIs
    <3>2. g[N].h \in Nat
      BY <3>1, TopIs, NoteIs
    <3> QED BY <1>1, <3>2
  <2>3. Return("lua").kind = "lua"
    BY NewFrame DEF Kind
  <2> QED BY <2>1, <2>2, <2>3, NotEmpty DEF Leaves
<1>6. Explained(t, f, nat, g, FALSE)
  BY <1>1 DEF Whole
<1> QED BY <1>1, <1>2, <1>3, <1>4, <1>5, <1>6 DEF Yields

LEMMA MovesGrown ==
  ASSUME NEW nat, NEW g, NEW N, NEW nat0, NEW g0, NEW nat2, NEW g2, NEW m, NEW t,
         nat \in Seq(Element), Moves(nat, g, nat0, g0, m, t), Len(nat0) = N, Grows(nat0, g0, N, nat2, g2, t)
  PROVE  Moves(nat, g, nat2, g2, m, t)
<1>1. Len(nat) \in Nat /\ N \in Nat /\ N > 1 /\ Len(nat2) \in Nat /\ m \in 1 .. Len(nat) /\ m <= N /\ Len(nat2) > N
  BY LenIs DEF Moves, Grows
<1>2. \A i \in 1 .. (m - 1) : nat2[i] = nat[i] /\ g2[i] = g[i]
  <2> SUFFICES ASSUME NEW i \in 1 .. (m - 1)
               PROVE  nat2[i] = nat[i] /\ g2[i] = g[i]
    OBVIOUS
  <2>1. i \in 1 .. N
    BY <1>1
  <2> QED BY <2>1 DEF Moves, Grows
<1>3. nat2[m].fn = nat[m].fn
  <2>1. m \in 1 .. N
    BY <1>1
  <2> QED BY <2>1 DEF Moves, Grows
<1>4. \A j \in m .. Len(nat2) : nat2[j].L = t
  <2> SUFFICES ASSUME NEW j \in m .. Len(nat2)
               PROVE  nat2[j].L = t
    OBVIOUS
  <2>1. CASE j <= N
    <3>1. j \in m .. N /\ j \in 1 .. N
      BY <1>1, <2>1
    <3> QED BY <3>1 DEF Moves, Grows
  <2>2. CASE j > N
    <3>1. j \in (N + 1) .. Len(nat2)
      BY <1>1, <2>2
    <3> QED BY <3>1 DEF Grows
  <2> QED BY <1>1, <2>1, <2>2
<1> QED BY <1>1, <1>2, <1>3, <1>4 DEF Moves, Grows

LEMMA MovesStep ==
  ASSUME NEW g, NEW t, NEW nat2, NEW g2, NEW m, NEW f, NEW n, NEW b, NEW st, NEW sig,
         g \in Seq(Note), Balanced(g), t \in Thread, Top.L = t, Moves(native, g, nat2, g2, m, t),
         f \in Seq(FrameType), n \in Nat, b \in Nat, st \in Statuses, sig \in {"run", "return", "throw"},
         Stack(luauFastpcall, nat2, g2), OnTop(luauFastpcall, f, n, b, st, nat2, g2, sig),
         Becomes(t, f, n, b, st, nat2, sig)
  PROVE  CallInv'
<1>1. /\ nat2 \in Seq(Element) /\ g2 \in Seq(Note) /\ Len(nat2) > 1
      /\ m \in 1 .. Len(native) /\ m <= Len(nat2)
      /\ \A i \in 1 .. (m - 1) : nat2[i] = native[i] /\ g2[i] = g[i]
      /\ nat2[m].fn = native[m].fn
      /\ \A j \in m .. Len(native) : native[j].L = t
      /\ \A j \in m .. Len(nat2) : nat2[j].L = t
  BY DEF Moves
<1>2. m \in Nat
  BY <1>1, LenIs DEF Balanced, CallTypeOK
<1> QED BY <1>1, <1>2, TopStep

LEMMA CountedStep ==
  ASSUME NEW g, NEW t, NEW kind, NEW frames, NEW base, NEW prep, NEW nat, NEW g0, NEW m, NEW N, NEW e, NEW z,
         g \in Seq(Note), Balanced(g), t \in Thread, kind \in Kind, Top.L = t, status[t] \in {"ok"}, base \in Nat,
         frames \in Seq(FrameType), Moves(native, g, nat, g0, m, t), Stack(luauFastpcall, nat, g0), Len(nat) = N,
         Ready(luauFastpcall, t, kind, frames, nCcalls[t], baseCcalls[t], base, prep, nat, g0, N, e, z),
         Counted(t, base, kind, frames, nat, e, prep), UNCHANGED luauFastpcall
  PROVE  CallInv'
<1>1. PICK fast, n, b, c : fast = luauFastpcall /\ n = nCcalls[t] /\ b = baseCcalls[t] /\ c = n + 1
  OBVIOUS
<1>2. n \in Nat /\ b \in Nat /\ c \in Nat /\ fast \in BOOLEAN /\ native \in Seq(Element)
  BY <1>1 DEF Balanced, CallTypeOK
<1>3. nat \in Seq(Element) /\ g0 \in Seq(Note) /\ N > 1 /\ N \in Nat
  BY LenIs DEF Moves
<1>4. Ready(fast, t, kind, frames, n, b, base, prep, nat, g0, N, e, z) /\ Stack(fast, nat, g0)
  BY <1>1
<1>5. PICK f2, nat1, g1, M : /\ f2 = Append(frames, Return(kind)) /\ nat1 = Append(nat, e)
                             /\ g1 = Append(g0, z) /\ M = N + 1
  OBVIOUS
<1>6. Stack(fast, nat1, g1) /\ Entered(fast, t, kind, f2, c, base, nat1, g1, M)
  BY <1>1, <1>3, <1>4, <1>5, ReadyEntered
<1>7. /\ e \in Element /\ z \in Note /\ e.L = t /\ z.h = Len(frames) /\ (prep => z.y = 0)
      /\ Len(g0) = N
  BY <1>3, <1>4, TopIs DEF Ready
<1>8. f2 \in Seq(FrameType) /\ nat1 \in Seq(Element) /\ g1 \in Seq(Note) /\ Len(nat1) = M /\ g1[M] = z /\ M > 2
      /\ Grows(nat, g0, N, nat1, g1, t) /\ M > 1 /\ M \in Nat
  <2>1. f2 \in Seq(FrameType)
    BY <1>5, NewFrame, AppendIs
  <2>2. /\ nat1 \in Seq(Element) /\ g1 \in Seq(Note) /\ Len(nat1) = N + 1 /\ Len(g1) = N + 1
        /\ \A i \in 1 .. N : nat1[i] = nat[i] /\ g1[i] = g0[i]
        /\ nat1[N + 1] = e /\ g1[N + 1] = z
    BY <1>3, <1>5, <1>7, PushIs
  <2>3. \A i \in (N + 1) .. (N + 1) : i = N + 1
    BY <1>3
  <2> QED BY <1>3, <1>5, <1>7, <2>1, <2>2, <2>3 DEF Grows
<1>9. Moves(native, g, nat1, g1, m, t)
  BY <1>2, <1>8, MovesGrown
<1>10. CASE c = MaxCCalls \/ c >= HardLimit
  <2>1. Becomes(t, frames, c, b, "ok", nat, "throw")
    <3>1. [baseCcalls EXCEPT ![t] = b] = baseCcalls /\ [status EXCEPT ![t] = "ok"] = status
      BY <1>1 DEF Balanced, CallTypeOK
    <3> QED BY <1>1, <1>10, <3>1 DEF Counted, Becomes
  <2>2. Throws(fast, frames, c, b, "ok", nat, g0)
    BY <1>1, <1>3, <1>4, CountedThrows
  <2>3. OnTop(luauFastpcall, frames, c, b, "ok", nat, g0, "throw")
    BY <1>1, <2>2 DEF OnTop
  <2>4. "ok" \in Statuses /\ "throw" \in {"run", "return", "throw"}
    BY DEF Statuses
  <2> QED BY <1>2, <2>1, <2>3, <2>4, MovesStep
<1>11. CASE ~(c = MaxCCalls \/ c >= HardLimit) /\ kind = "lua" /\ prep
  <2>1. Becomes(t, f2, c, base, "reentry", nat1, "return")
    BY <1>1, <1>5, <1>11 DEF Counted, PerformCall, Becomes
  <2>2. Yields(fast, f2, c, base, "reentry", nat1, g1)
    <3>1. g1[M].y = 0
      BY <1>7, <1>8, <1>11
    <3>2. Entered(fast, t, "lua", f2, c, base, nat1, g1, M)
      BY <1>6, <1>11
    <3> QED BY <1>2, <1>6, <1>8, <3>1, <3>2, CountedReenters
  <2>3. OnTop(luauFastpcall, f2, c, base, "reentry", nat1, g1, "return")
    BY <1>1, <2>2 DEF OnTop
  <2>4. "reentry" \in Statuses /\ "return" \in {"run", "return", "throw"}
    BY DEF Statuses
  <2>5. Stack(luauFastpcall, nat1, g1)
    BY <1>1, <1>6
  <2> QED BY <1>2, <1>8, <1>9, <2>1, <2>3, <2>4, <2>5, MovesStep
<1>12. CASE ~(c = MaxCCalls \/ c >= HardLimit) /\ ~(kind = "lua" /\ prep)
  <2>1. PICK nat2, h : h = z.h /\ nat2 = nat1 \o CalleeOf(fast, t, kind, h)
    OBVIOUS
  <2>2. Becomes(t, f2, c, base, "ok", nat2, "run")
    <3>1. [status EXCEPT ![t] = "ok"] = status
      BY DEF Balanced, CallTypeOK
    <3>2. h = Len(frames)
      BY <1>7, <2>1
    <3> QED BY <1>1, <1>5, <1>12, <2>1, <3>1, <3>2 DEF Counted, PerformCall, CalleeOf, Becomes
  <2>3. RunsOn(fast, f2, c, base, nat1, g1, M, nat2, t)
    <3>1. h = g1[M].h
      BY <1>8, <2>1
    <3>2. nat1 \in Seq(Element) /\ g1 \in Seq(Note) /\ Stack(fast, nat1, g1) /\ Len(nat1) = M /\ M > 1
      BY <1>6, <1>8
    <3>3. f2 \in Seq(FrameType) /\ Entered(fast, t, kind, f2, c, base, nat1, g1, M)
      BY <1>2, <1>6, <1>8
    <3>4. nat2 = nat1 \o CalleeOf(fast, t, kind, h)
      BY <2>1
    <3> QED BY <3>1, <3>2, <3>3, <3>4, EnteredRuns
  <2>4. PICK g2 : Grows(nat1, g1, M, nat2, g2, t) /\ Stack(fast, nat2, g2) /\ Runs(fast, f2, c, base, "ok", nat2, g2)
    BY <2>3 DEF RunsOn
  <2>5. Moves(native, g, nat2, g2, m, t)
    BY <1>2, <1>8, <1>9, <2>4, MovesGrown
  <2>6. OnTop(luauFastpcall, f2, c, base, "ok", nat2, g2, "run")
    BY <1>1, <2>4 DEF OnTop
  <2>7. "ok" \in Statuses /\ "run" \in {"run", "return", "throw"}
    BY DEF Statuses
  <2>8. Stack(luauFastpcall, nat2, g2)
    BY <1>1, <2>4
  <2> QED BY <1>2, <1>8, <2>2, <2>5, <2>6, <2>7, <2>8, MovesStep
<1> QED BY <1>10, <1>11, <1>12

\* What runs calls with its frames as they are.
LEMMA CallReady ==
  ASSUME NEW g, NEW nat, NEW N, NEW t, NEW f, NEW n, NEW b, NEW st, NEW kind, NEW base, NEW prep, NEW e, NEW z,
         At(g, nat, N, t, f, n, b, st), signal = "run", nat[N].fn # "lua_resume", base \in Nat,
         e \in Element, z \in Note, e.L = t, e.fn \in CallNames, e.fn = "luaV_callTM" => kind # "lua",
         e.fn # "luaD_performcally", Atop(luauFastpcall, nat[N], g[N], e, z), z.h = Len(f),
         f[Len(f)].kind = "c" => e.fn = "luaD_callint" /\ ~e.from,
         n + 1 >= z.c, base >= z.b, n + 1 = base + z.y, prep => z.y = 0
  PROVE  Ready(luauFastpcall, t, kind, f, n, b, base, prep, nat, g, N, e, z)
<1>1. /\ Level(g[N], f, n, b, st) /\ nat[N].fn \in {"C", "luau_execute"}
      /\ Frames(luauFastpcall, t, f, nat, g, "none") /\ Explained(t, f, nat, g, FALSE)
      /\ Marks(luauFastpcall, t, f, nat, g) /\ FramesOK(luauFastpcall, f)
  BY TopRuns
<1>2. nat[N].L = t /\ N \in Nat /\ Len(nat) = N /\ n \in Nat /\ b \in Nat /\ g[N] \in Note /\ f \in Seq(FrameType)
  BY AtTop DEF At
<1>3. ~Handling(nat[N]) /\ ~(N = 2 /\ nat[2].fn = "luaD_pcall")
  BY <1>1 DEF Handling
<1>4. Known(t, f, nat, g, N, "none")
  BY <1>1, <1>2 DEF Frames
<1>5. ASSUME NEW k \in DOMAIN f, Bad(f, k) \/ (k = Len(f) /\ f[k].kind = "c")
      PROVE  Excused(t, f, k, nat, g, FALSE) \/ CalledFrom(t, f, e, k)
  <2>1. CASE Bad(f, k)
    BY <1>1, <2>1 DEF Explained, Excused
  <2>2. CASE k = Len(f) /\ f[k].kind = "c"
    <3>1. e.fn = "luaD_callint" /\ ~e.from
      BY <2>2
    <3>2. e.frames = k
      BY <1>1, <2>2, <3>1 DEF Atop, Level
    <3>3. f[k].kind # "lua"
      BY <2>2
    <3> QED BY <3>1, <3>2, <3>3 DEF CalledFrom
  <2> QED BY <1>5, <2>1, <2>2
<1>6. n + 1 >= g[N].c /\ b >= g[N].b /\ n + 1 >= b
  <2>1. n >= g[N].c /\ b >= g[N].b /\ n = b + g[N].y
    BY <1>1 DEF Level
  <2>2. g[N].c \in Nat /\ g[N].y \in Nat /\ n \in Nat /\ b \in Nat
    BY <1>2, NoteIs
  <2>3. PICK c, y : c = g[N].c /\ y = g[N].y
    OBVIOUS
  <2>4. c \in Nat /\ y \in Nat /\ n >= c /\ n = b + y
    BY <2>1, <2>2, <2>3
  <2>5. n + 1 >= c /\ n + 1 >= b
    BY <2>2, <2>4
  <2> QED BY <2>1, <2>3, <2>5
<1> QED BY <1>1, <1>2, <1>3, <1>4, <1>5, <1>6 DEF Ready

LEMMA MadeNote ==
  ASSUME NEW z, NEW h, NEW y, NEW c, NEW b,
         h \in Nat, y \in Nat, c \in Nat, b \in Nat, z = [h |-> h, y |-> y, c |-> c, b |-> b]
  PROVE  z \in Note /\ z.h = h /\ z.y = y /\ z.c = c /\ z.b = b
BY DEF Note

LEMMA MadeCallInt ==
  ASSUME NEW e, NEW t, NEW h, t \in Thread, h \in Nat
  PROVE  /\ e = [fn |-> "luaD_callint", L |-> t, from |-> TRUE, frames |-> h] =>
               e \in Element /\ e.L = t /\ e.fn = "luaD_callint" /\ e.frames = h /\ e.from
         /\ e = [fn |-> "luaD_callint", L |-> t, from |-> FALSE, frames |-> h] =>
               e \in Element /\ e.L = t /\ e.fn = "luaD_callint" /\ e.frames = h /\ ~e.from
<1>1. ASSUME e = [fn |-> "luaD_callint", L |-> t, from |-> TRUE, frames |-> h]
      PROVE  e \in Element /\ e.L = t /\ e.fn = "luaD_callint" /\ e.frames = h /\ e.from
  <2>1. e \in [fn : {"luaD_callint"}, L : Thread, from : BOOLEAN, frames : Nat]
    BY <1>1
  <2> QED BY <1>1, <2>1 DEF Element
<1>2. ASSUME e = [fn |-> "luaD_callint", L |-> t, from |-> FALSE, frames |-> h]
      PROVE  e \in Element /\ e.L = t /\ e.fn = "luaD_callint" /\ e.frames = h /\ ~e.from
  <2>1. e \in [fn : {"luaD_callint"}, L : Thread, from : BOOLEAN, frames : Nat]
    BY <1>2
  <2> QED BY <1>2, <2>1 DEF Element
<1> QED BY <1>1, <1>2

\* One more call
CountsUp(x, n, b) ==
    /\ n + 1 >= x.c + 1 /\ b + 1 >= x.b + 1 /\ n + 1 = (b + 1) + x.y /\ n + 1 = b + (x.y + 1)
    /\ b + 1 \in Nat /\ x.c + 1 \in Nat /\ x.b + 1 \in Nat /\ x.y + 1 \in Nat

LEMMA CallCounts ==
  ASSUME NEW x, NEW n, NEW b,
         x \in Note, n \in Nat, b \in Nat, n >= x.c, b >= x.b, n = b + x.y
  PROVE  CountsUp(x, n, b)
BY NoteIs DEF CountsUp

LEMMA CallIntCalls ==
  ASSUME NEW g, NEW nat, NEW N, NEW t, NEW f, NEW n, NEW b, NEW st, NEW kind,
         At(g, nat, N, t, f, n, b, st), signal = "run", nat[N].fn # "lua_resume", kind \in Kind,
         CallInt(t, kind, f, nat, FALSE), UNCHANGED luauFastpcall
  PROVE  CallInv'
<1>1. /\ Level(g[N], f, n, b, st) /\ nat[N].fn \in {"C", "luau_execute"}
  BY TopRuns
<1>2. /\ nat[N].L = t /\ N \in Nat /\ N > 1 /\ Len(nat) = N /\ n \in Nat /\ b \in Nat /\ g[N] \in Note
      /\ f \in Seq(FrameType) /\ t \in Thread /\ g \in Seq(Note) /\ nat \in Seq(Element) /\ Balanced(g)
      /\ native = nat /\ Top.L = t /\ nCcalls[t] = n /\ baseCcalls[t] = b /\ status[t] = st
  BY AtTop DEF At
<1>3. PICK x, H : x = g[N] /\ H = Len(f)
  OBVIOUS
<1>4. x.h \in Nat /\ x.y \in Nat /\ x.c \in Nat /\ x.b \in Nat /\ x.h = H /\ n >= x.c /\ b >= x.b /\ n = b + x.y
      /\ st = "ok" /\ f # <<>> /\ Last(f) = f[H]
  BY <1>1, <1>2, <1>3, NoteIs DEF Level, Last
<1>5. Stack(luauFastpcall, nat, g) /\ Moves(native, g, nat, g, N, t) /\ status[t] \in {"ok"}
  BY <1>2, <1>4, Stays, AtStack
<1>6. CASE f[H].kind = "cont"
  <2>1. PICK e, z, base : /\ e = [fn |-> "luaD_callint", L |-> t, from |-> TRUE, frames |-> H] /\ base = b + 1
                          /\ z = [h |-> H, y |-> x.y, c |-> x.c + 1, b |-> x.b + 1]
    OBVIOUS
  <2>2. e \in Element /\ z \in Note /\ base \in Nat /\ e.L = t /\ e.fn = "luaD_callint" /\ z.h = H /\ z.y = x.y
        /\ z.c = x.c + 1 /\ z.b = x.b + 1 /\ e.frames = H /\ e.from
    <3>1. x.c + 1 \in Nat /\ x.b + 1 \in Nat /\ H \in Nat /\ base \in Nat
      <4>1. x.c \in Nat /\ x.b \in Nat /\ x.h \in Nat /\ x.h = H
        BY <1>4
      <4>2. base = b + 1 /\ b \in Nat
        BY <1>2, <2>1
      <4> QED BY <4>1, <4>2
    <3>2. z \in Note /\ z.h = H /\ z.y = x.y /\ z.c = x.c + 1 /\ z.b = x.b + 1
      BY <1>4, <2>1, <3>1, MadeNote
    <3>3. e \in Element /\ e.L = t /\ e.fn = "luaD_callint" /\ e.frames = H /\ e.from
      <4>1. t \in Thread /\ e = [fn |-> "luaD_callint", L |-> t, from |-> TRUE, frames |-> H]
        BY <1>2, <2>1
      <4> QED BY <3>1, <4>1, MadeCallInt
    <3> QED BY <3>1, <3>2, <3>3
  <2>3. Atop(luauFastpcall, nat[N], x, e, z)
    BY <1>1, <1>2, <1>4, <2>2 DEF Atop, Noted
  <2>4. n + 1 >= z.c /\ base >= z.b /\ n + 1 = base + z.y
    <3>1. base = b + 1 /\ z.c = x.c + 1 /\ z.b = x.b + 1 /\ z.y = x.y
      BY <2>1, <2>2
    <3>2. n + 1 >= x.c + 1 /\ b + 1 >= x.b + 1 /\ n + 1 = (b + 1) + x.y
      <4>1. x \in Note /\ n \in Nat /\ b \in Nat /\ n >= x.c /\ b >= x.b /\ n = b + x.y
        BY <1>2, <1>3, <1>4
      <4>2. CountsUp(x, n, b)
        BY <4>1, CallCounts
      <4> QED BY <4>2 DEF CountsUp
    <3> QED BY <3>1, <3>2
  <2>5. Ready(luauFastpcall, t, kind, f, n, b, base, FALSE, nat, g, N, e, z)
    BY <1>3, <1>6, <2>2, <2>3, <2>4, CallReady DEF CallNames
  <2>6. Counted(t, base, kind, f, nat, e, FALSE)
    BY <1>2, <1>3, <1>4, <1>6, <2>1 DEF CallInt
  <2> QED BY <1>2, <1>5, <2>2, <2>5, <2>6, CountedStep
<1>7. CASE f[H].kind # "cont"
  <2>1. PICK e, z : /\ e = [fn |-> "luaD_callint", L |-> t, from |-> FALSE, frames |-> H]
                    /\ z = [h |-> H, y |-> x.y + 1, c |-> x.c + 1, b |-> x.b]
    OBVIOUS
  <2>2. e \in Element /\ z \in Note /\ e.L = t /\ e.fn = "luaD_callint" /\ z.h = H /\ z.y = x.y + 1
        /\ z.c = x.c + 1 /\ z.b = x.b /\ e.frames = H /\ ~e.from
    <3>1. x.c + 1 \in Nat /\ x.y + 1 \in Nat /\ H \in Nat
      BY <1>4
    <3>2. z \in Note /\ z.h = H /\ z.y = x.y + 1 /\ z.c = x.c + 1 /\ z.b = x.b
      BY <1>4, <2>1, <3>1, MadeNote
    <3>3. e \in Element /\ e.L = t /\ e.fn = "luaD_callint" /\ e.frames = H /\ ~e.from
      <4>1. t \in Thread /\ e = [fn |-> "luaD_callint", L |-> t, from |-> FALSE, frames |-> H]
        BY <1>2, <2>1
      <4> QED BY <3>1, <4>1, MadeCallInt
    <3> QED BY <3>1, <3>2, <3>3
  <2>3. Atop(luauFastpcall, nat[N], x, e, z)
    BY <1>1, <1>2, <1>4, <2>2 DEF Atop, Noted
  <2>4. n + 1 >= z.c /\ b >= z.b /\ n + 1 = b + z.y
    <3>1. z.c = x.c + 1 /\ z.b = x.b /\ z.y = x.y + 1
      BY <2>2
    <3>2. x \in Note /\ n \in Nat /\ b \in Nat /\ n >= x.c /\ b >= x.b /\ n = b + x.y
      BY <1>2, <1>3, <1>4
    <3>3. n + 1 >= x.c + 1 /\ n + 1 = b + (x.y + 1)
      BY <3>2, CallCounts DEF CountsUp
    <3> QED BY <3>1, <3>2, <3>3
  <2>5. Ready(luauFastpcall, t, kind, f, n, b, b, FALSE, nat, g, N, e, z)
    BY <1>2, <1>3, <2>2, <2>3, <2>4, CallReady DEF CallNames
  <2>6. Counted(t, b, kind, f, nat, e, FALSE)
    BY <1>2, <1>3, <1>4, <1>7, <2>1 DEF CallInt
  <2> QED BY <1>2, <1>5, <2>2, <2>5, <2>6, CountedStep
<1> QED BY <1>6, <1>7

LEMMA MadeCall ==
  ASSUME NEW e, NEW fn, NEW t, NEW h,
         t \in Thread, h \in Nat, fn \in {"luaV_callTM", "luaD_performcally"}, e = [fn |-> fn, L |-> t, frames |-> h]
  PROVE  e \in Element /\ e.L = t /\ e.fn = fn /\ e.frames = h
<1>1. e \in [fn : {"luaV_callTM", "luaD_performcally"}, L : Thread, frames : Nat]
  OBVIOUS
<1> QED BY <1>1 DEF Element

LEMMA CCallStep ==
  ASSUME NEW g, NEW t, NEW kind, g \in Seq(Note), Balanced(g), t \in Thread, kind \in Kind, CCall(t, kind),
         UNCHANGED luauFastpcall
  PROVE  CallInv'
<1>1. signal = "run" /\ Top.fn = "C" /\ Top.L = t /\ ~Host
  BY DEF CCall, CFunction, Running
<1>2. PICK nat, N, f, n, b, st : At(g, nat, N, t, f, n, b, st)
  BY <1>1, AboveHost
<1>3. native = nat /\ Top = nat[N] /\ ci[t] = f
  BY <1>2, AtSame
<1>4. nat[N].fn # "lua_resume"
  BY <1>1, <1>3
<1>5. CallInt(t, kind, f, nat, FALSE)
  BY <1>3 DEF CCall
<1> QED BY <1>1, <1>2, <1>4, <1>5, CallIntCalls

LEMMA ExecMetamethodStep ==
  ASSUME NEW g, NEW t, NEW kind, g \in Seq(Note), Balanced(g), t \in Thread, kind \in Kind, ExecMetamethod(t, kind),
         UNCHANGED luauFastpcall
  PROVE  CallInv'
<1>1. signal = "run" /\ Top.fn = "luau_execute" /\ Top.L = t
  BY DEF ExecMetamethod, Running
<1>2. PICK nat, N, f, n, b, st : At(g, nat, N, t, f, n, b, st)
  BY <1>1, AboveHost
<1>3. /\ native = nat /\ Top = nat[N] /\ Top.L = t /\ ci[t] = f /\ nCcalls[t] = n /\ baseCcalls[t] = b
      /\ status[t] = st
  BY <1>2, AtSame
<1>4. nat[N].fn = "luau_execute" /\ nat[N].fn # "lua_resume"
  BY <1>1, <1>3
<1>5. CASE kind = "lua"
  <2>1. CallInt(t, kind, f, nat, FALSE)
    BY <1>3, <1>5 DEF ExecMetamethod
  <2> QED BY <1>1, <1>2, <1>4, <2>1, CallIntCalls
<1>6. CASE kind # "lua"
  <2>1. PICK x, H : x = g[N] /\ H = Len(f)
    OBVIOUS
  <2>2. Level(x, f, n, b, st) /\ (f[H].kind = "lua")
    BY <1>1, <1>2, <1>4, <2>1, TopRuns
  <2>3. /\ nat[N].L = t /\ N \in Nat /\ N > 1 /\ Len(nat) = N /\ n \in Nat /\ b \in Nat /\ g[N] \in Note
        /\ f \in Seq(FrameType) /\ g \in Seq(Note) /\ nat \in Seq(Element)
    BY <1>2, AtTop DEF At
  <2>4. x.h \in Nat /\ x.y \in Nat /\ x.c \in Nat /\ x.b \in Nat /\ x.h = H /\ n >= x.c /\ b >= x.b /\ n = b + x.y
        /\ st = "ok"
    BY <2>1, <2>2, <2>3, NoteIs DEF Level
  <2>5. Stack(luauFastpcall, nat, g) /\ Moves(native, g, nat, g, N, t) /\ status[t] \in {"ok"}
    BY <1>2, <1>3, <2>3, <2>4, Stays, AtStack
  <2>6. PICK e, z : /\ e = [fn |-> "luaV_callTM", L |-> t, frames |-> H]
                    /\ z = [h |-> H, y |-> x.y + 1, c |-> x.c + 1, b |-> x.b]
    OBVIOUS
  <2>7. x.c + 1 \in Nat /\ x.y + 1 \in Nat /\ H \in Nat
    BY <2>4
  <2>8. z \in Note /\ z.h = H /\ z.y = x.y + 1 /\ z.c = x.c + 1 /\ z.b = x.b
    BY <2>4, <2>6, <2>7, MadeNote
  <2>9. e \in Element /\ e.L = t /\ e.fn = "luaV_callTM" /\ e.frames = H
    BY <2>6, <2>7, MadeCall
  <2>10. Atop(luauFastpcall, nat[N], x, e, z)
    BY <1>4, <2>3, <2>4, <2>8, <2>9 DEF Atop, Noted
  <2>11. n + 1 >= z.c /\ b >= z.b /\ n + 1 = b + z.y
    <3>1. z.y = x.y + 1 /\ z.c = x.c + 1 /\ z.b = x.b
      BY <2>8
    <3>2. n + 1 >= x.c + 1 /\ b >= x.b /\ n + 1 = b + (x.y + 1)
      BY <2>3, <2>4
    <3> QED BY <3>1, <3>2
  <2>12. Ready(luauFastpcall, t, kind, f, n, b, b, FALSE, nat, g, N, e, z)
    BY <1>1, <1>2, <1>4, <1>6, <2>1, <2>2, <2>3, <2>8, <2>9, <2>10, <2>11, CallReady DEF CallNames
  <2>13. Counted(t, b, kind, f, nat, e, FALSE)
    BY <1>3, <1>6, <2>1, <2>6 DEF ExecMetamethod
  <2> QED BY <1>3, <2>3, <2>5, <2>12, <2>13, CountedStep
<1> QED BY <1>5, <1>6

\* Frame m of f has other marks.
Marked(fast, f, f2, m, r) ==
    /\ f2 \in Seq(FrameType) /\ FramesOK(fast, f2) /\ Len(f2) = Len(f) /\ DOMAIN f2 = DOMAIN f /\ f2[m] = r
    /\ \A k \in 1 .. Len(f) : k # m => f2[k] = f[k]
    /\ \A k \in DOMAIN f2 : k # m => (Bad(f2, k) => Bad(f, k))

LEMMA MarkedIs ==
  ASSUME NEW fast, NEW f, NEW m, NEW r, NEW f2,
         f \in Seq(FrameType), FramesOK(fast, f), m \in 1 .. Len(f), r \in FrameType, r.kind = f[m].kind,
         r.return = f[m].return, r.handle \/ r.pcall => r.kind = "cont",
         r.forcall \/ r.opyield => r.kind = "lua", fast => r.forcall = r.opyield, f2 = [f EXCEPT ![m] = r]
  PROVE  Marked(fast, f, f2, m, r)
<1>1. FramesOK(fast, [f EXCEPT ![m] = r]) /\ [f EXCEPT ![m] = r] \in Seq(FrameType)
  BY FramesChange
<1>2. Len([f EXCEPT ![m] = r]) = Len(f) /\ DOMAIN [f EXCEPT ![m] = r] = DOMAIN f
  BY FramesChange
<1>3. \A k \in 1 .. Len(f) : [f EXCEPT ![m] = r][k] = IF k = m THEN r ELSE f[k]
  BY FramesChange
<1>4. \A k \in DOMAIN f : k # m => (Bad([f EXCEPT ![m] = r], k) => Bad(f, k))
  BY FramesChange
<1> QED BY <1>1, <1>2, <1>3, <1>4 DEF Marked

\* FORGLOOP marks its frame and calls.
LEMMA ForCallReady ==
  ASSUME NEW g, NEW nat, NEW N, NEW t, NEW f, NEW n, NEW b, NEW st, NEW kind, NEW e, NEW z, NEW f2, NEW r, NEW H, NEW base,
         At(g, nat, N, t, f, n, b, st), signal = "run", nat[N].fn = "luau_execute", base = b + 1,
         r = [f[H] EXCEPT !.forcall = TRUE, !.opyield = luauFastpcall], H = Len(f), f2 = [f EXCEPT ![H] = r],
         e \in Element, z \in Note, e.L = t, e.fn = "luaD_performcally", e.frames = H,
         Atop(luauFastpcall, nat[N], g[N], e, z)
  PROVE  f2 \in Seq(FrameType) /\ Ready(luauFastpcall, t, kind, f2, n, b, base, FALSE, nat, g, N, e, z)
<1>1. /\ Level(g[N], f, n, b, st)
      /\ Frames(luauFastpcall, t, f, nat, g, "none") /\ Explained(t, f, nat, g, FALSE)
      /\ Marks(luauFastpcall, t, f, nat, g) /\ FramesOK(luauFastpcall, f) /\ f[H].kind = "lua"
  <2>1. nat[N].fn # "lua_resume"
    OBVIOUS
  <2>2. /\ Level(g[N], f, n, b, st)
        /\ Frames(luauFastpcall, t, f, nat, g, "none") /\ Explained(t, f, nat, g, FALSE)
        /\ Marks(luauFastpcall, t, f, nat, g) /\ FramesOK(luauFastpcall, f)
    BY <2>1, TopRuns
  <2>3. nat[N].fn = "luau_execute" => f[Len(f)].kind = "lua"
    BY <2>1, TopRuns
  <2> QED BY <2>2, <2>3
<1>2. /\ nat[N].L = t /\ N \in Nat /\ N > 1 /\ Len(nat) = N /\ Len(g) = N /\ n \in Nat /\ b \in Nat /\ g[N] \in Note
      /\ f \in Seq(FrameType) /\ g \in Seq(Note) /\ nat \in Seq(Element) /\ luauFastpcall \in BOOLEAN
      /\ Stack(luauFastpcall, nat, g)
  BY AtTop, AtStack DEF At, Balanced, CallTypeOK
<1>3. PICK x : x = g[N]
  OBVIOUS
<1>4. /\ x.h \in Nat /\ x.y \in Nat /\ x.c \in Nat /\ x.b \in Nat /\ x.h = H /\ n >= x.c /\ b >= x.b /\ n = b + x.y
      /\ H \in Nat /\ H > 0 /\ H \in 1 .. H
  <2>1. x.h \in Nat /\ x.y \in Nat /\ x.c \in Nat /\ x.b \in Nat
    BY <1>2, <1>3, NoteIs
  <2>2. Level(x, f, n, b, st)
    BY <1>1, <1>3
  <2>3. n >= x.c /\ b >= x.b /\ n = b + x.y /\ x.h = H /\ H > 0
    BY <2>2 DEF Level
  <2>4. H \in Nat
    BY <2>1, <2>3
  <2>5. H \in 1 .. H
    BY <2>3, <2>4
  <2> QED BY <2>1, <2>3, <2>4, <2>5
<1>5. /\ r \in FrameType /\ r.kind = f[H].kind /\ r.return = f[H].return /\ r.pcall = f[H].pcall
      /\ r.handle = f[H].handle /\ r.forcall /\ (luauFastpcall => r.opyield)
  <2>1. f[H] \in FrameType
    BY <1>2, <1>4, FrameIs
  <2> QED BY <1>2, <2>1 DEF FrameType
<1>6. ~r.handle /\ ~r.pcall
  <2>1. H \in DOMAIN f
    BY <1>2, <1>4, FrameIs
  <2> QED BY <1>1, <1>5, <2>1 DEF FramesOK
<1>7. Marked(luauFastpcall, f, f2, H, r)
  <2>1. H \in 1 .. Len(f)
    BY <1>4
  <2>2. r.handle \/ r.pcall => r.kind = "cont"
    BY <1>6
  <2>3. r.forcall \/ r.opyield => r.kind = "lua"
    BY <1>1, <1>5
  <2>4. luauFastpcall => r.forcall = r.opyield
    BY <1>5, <2>1 DEF FrameType
  <2> QED BY <1>1, <1>2, <1>5, <2>1, <2>2, <2>3, <2>4, MarkedIs
<1>8. /\ f2 \in Seq(FrameType) /\ FramesOK(luauFastpcall, f2) /\ Len(f2) = H /\ DOMAIN f2 = DOMAIN f /\ f2[H] = r
      /\ \A k \in 1 .. H : k # H => f2[k] = f[k]
      /\ \A k \in DOMAIN f2 : k # H => (Bad(f2, k) => Bad(f, k))
  BY <1>4, <1>7 DEF Marked
<1>9. Kept(f, f2, H)
  <2>1. Kept(f, [f EXCEPT ![H] = r], H)
    <3>1. r.handle => f[H].handle
      BY <1>6
    <3>2. H <= H /\ f[H].forcall => r.forcall
      BY <1>5
    <3>3. H \in 1 .. Len(f) /\ H \in Nat /\ H <= Len(f)
      BY <1>4
    <3>4. /\ f \in Seq(FrameType) /\ r \in FrameType /\ r.kind = f[H].kind /\ r.return = f[H].return
          /\ r.pcall = f[H].pcall
      BY <1>2, <1>5
    <3> QED BY <3>1, <3>2, <3>3, <3>4, KeptChange
  <2> QED BY <2>1
<1>10. Known(t, f2, nat, g, N, "none")
  <2>1. \A i \in 2 .. N : nat[i].L = t => g[i].h <= H
    BY <1>1, <1>2, <1>4 DEF Frames, Known, Knows
  <2>2. Agree(nat, g, nat, g, N)
    BY <1>2 DEF Agree
  <2>3. Known(t, f, nat, g, N, "none")
    BY <1>1, <1>2 DEF Frames
  <2> QED BY <1>2, <1>8, <1>9, <2>1, <2>2, <2>3, KnownOn
<1>11. Marks(luauFastpcall, t, f2, nat, g)
  <2>1. Agree(nat, g, nat, g, N)
    BY <1>2 DEF Agree
  <2>2. MarksKept(luauFastpcall, t, f, f2, nat, nat, g, N)
    <3>1. ASSUME NEW p \in DOMAIN f2, f2[p].handle
          PROVE  /\ p \in DOMAIN f /\ f[p].handle
                 /\ (\E k \in 1 .. (p - 1) : Bad(f2, k)) => \E k \in 1 .. (p - 1) : Bad(f, k)
      <4>1. p \in 1 .. H
        BY <1>2, <1>4, <1>8, <3>1, FrameIs
      <4>2. p \in DOMAIN f /\ f[p].handle
        BY <1>5, <1>8, <3>1, <4>1
      <4>3. \A k \in 1 .. (p - 1) : k # H /\ k \in 1 .. H
        BY <1>4, <4>1
      <4>4. \A k \in 1 .. (p - 1) : Bad(f2, k) => Bad(f, k)
        <5>1. \A k \in 1 .. (p - 1) : k \in DOMAIN f /\ k # H
          BY <1>2, <1>4, <4>3, FrameIs
        <5>2. \A k \in DOMAIN f : k # H => (Bad(f2, k) => Bad(f, k))
          BY <1>8
        <5> QED BY <5>1, <5>2
      <4> QED BY <4>2, <4>4
    <3>2. \A j \in (N + 1) .. Len(nat) : FALSE
      BY <1>2
    <3> QED BY <3>1, <3>2 DEF MarksKept
  <2> QED BY <1>1, <1>2, <1>8, <2>1, <2>2, MarksOn
<1>12. ASSUME NEW k \in DOMAIN f2, Bad(f2, k) \/ (k = Len(f2) /\ f2[k].kind = "c")
       PROVE  Excused(t, f2, k, nat, g, FALSE) \/ CalledFrom(t, f2, e, k)
  <2>1. CASE k = H
    BY <2>1 DEF CalledFrom
  <2>2. CASE k # H
    <3>1. Bad(f, k)
      BY <1>8, <1>12, <2>2
    <3>2. Excused(t, f, k, nat, g, FALSE)
      BY <1>1, <1>8, <3>1 DEF Explained, Excused
    <3>3. f2[k] = f[k]
      BY <1>2, <1>4, <1>8, <1>12, <2>2, FrameIs
    <3> QED BY <3>2, <3>3 DEF Excused, Calls
  <2> QED BY <2>1, <2>2
<1>13. Noted(z, x.h, x.y, x.c + 1, x.b + 1)
  BY <1>3 DEF Atop
<1>14. n + 1 >= z.c /\ base >= z.b /\ n + 1 = base + z.y
  <2>1. z.c = x.c + 1 /\ z.b = x.b + 1 /\ z.y = x.y
    BY <1>13 DEF Noted
  <2>2. n + 1 >= x.c + 1 /\ b + 1 >= x.b + 1 /\ n + 1 = (b + 1) + x.y
    <3>1. x \in Note /\ n \in Nat /\ b \in Nat /\ n >= x.c /\ b >= x.b /\ n = b + x.y
      BY <1>2, <1>3, <1>4
    <3> QED BY <3>1, CallCounts DEF CountsUp
  <2> QED BY <2>1, <2>2
<1>15. n + 1 >= g[N].c /\ b >= g[N].b /\ n + 1 >= b
  <2>1. n \in Nat /\ b \in Nat /\ x.c \in Nat /\ x.y \in Nat /\ n >= x.c /\ b >= x.b /\ n = b + x.y
    BY <1>2, <1>4
  <2>2. n + 1 >= x.c /\ b >= x.b /\ n + 1 >= b
    BY <2>1, AtLeast
  <2> QED BY <1>3, <2>2
<1>16. z.h = Len(f2) /\ f2 # <<>> /\ f2[Len(f2)].forcall
  <2>1. z.h = H /\ Len(f2) # 0
    BY <1>4, <1>8, <1>13 DEF Noted
  <2> QED BY <1>5, <1>8, <2>1, NotEmpty
<1>17. e.fn \in CallNames
  BY DEF CallNames
<1>18. ~Handling(nat[N])
  BY DEF Handling
<1> QED BY <1>2, <1>8, <1>10, <1>11, <1>12, <1>14, <1>15, <1>16, <1>17, <1>18 DEF Ready

LEMMA ExecForCallStep ==
  ASSUME NEW g, NEW t, NEW kind, g \in Seq(Note), Balanced(g), t \in Thread, kind \in Kind, ExecForCall(t, kind),
         UNCHANGED luauFastpcall
  PROVE  CallInv'
<1>1. signal = "run" /\ Top.fn = "luau_execute" /\ Top.L = t
  BY DEF ExecForCall, Running
<1>2. PICK nat, N, f, n, b, st : At(g, nat, N, t, f, n, b, st)
  BY <1>1, AboveHost
<1>3. /\ native = nat /\ Top = nat[N] /\ Top.L = t /\ ci[t] = f /\ nCcalls[t] = n /\ baseCcalls[t] = b
      /\ status[t] = st
  BY <1>2, AtSame
<1>4. nat[N].fn = "luau_execute" /\ nat[N].fn # "lua_resume"
  BY <1>1, <1>3
<1>5. PICK x, H, base, r, f2 :
         /\ x = g[N] /\ H = Len(f) /\ base = b + 1
         /\ r = [f[H] EXCEPT !.forcall = TRUE, !.opyield = luauFastpcall]
         /\ f2 = [f EXCEPT ![H] = r]
  OBVIOUS
<1>6. Level(x, f, n, b, st)
  BY <1>1, <1>2, <1>4, <1>5, TopRuns
<1>7. /\ nat[N].L = t /\ N \in Nat /\ N > 1 /\ Len(nat) = N /\ n \in Nat /\ b \in Nat /\ g[N] \in Note
      /\ f \in Seq(FrameType) /\ g \in Seq(Note) /\ nat \in Seq(Element)
  BY <1>2, AtTop DEF At
<1>8. x.h \in Nat /\ x.y \in Nat /\ x.c \in Nat /\ x.b \in Nat /\ x.h = H /\ st = "ok"
  BY <1>5, <1>6, <1>7, NoteIs DEF Level
<1>9. Stack(luauFastpcall, nat, g) /\ Moves(native, g, nat, g, N, t) /\ status[t] \in {"ok"}
  BY <1>2, <1>3, <1>7, <1>8, Stays, AtStack
<1>10. PICK e, z : /\ e = [fn |-> "luaD_performcally", L |-> t, frames |-> H]
                   /\ z = [h |-> H, y |-> x.y, c |-> x.c + 1, b |-> x.b + 1]
  OBVIOUS
<1>11. x.c + 1 \in Nat /\ x.b + 1 \in Nat /\ H \in Nat
  BY <1>8
<1>12. z \in Note /\ z.h = H /\ z.y = x.y /\ z.c = x.c + 1 /\ z.b = x.b + 1
  BY <1>8, <1>10, <1>11, MadeNote
<1>13. e \in Element /\ e.L = t /\ e.fn = "luaD_performcally" /\ e.frames = H
  BY <1>10, <1>11, MadeCall
<1>14. Atop(luauFastpcall, nat[N], x, e, z)
  BY <1>4, <1>7, <1>8, <1>12, <1>13 DEF Atop, Noted
<1>15. f2 \in Seq(FrameType) /\ Ready(luauFastpcall, t, kind, f2, n, b, base, FALSE, nat, g, N, e, z)
  <2>1. Atop(luauFastpcall, nat[N], g[N], e, z)
    BY <1>5, <1>14
  <2>2. base = b + 1 /\ H = Len(f) /\ f2 = [f EXCEPT ![H] = r]
    BY <1>5
  <2>3. r = [f[H] EXCEPT !.forcall = TRUE, !.opyield = luauFastpcall]
    BY <1>5
  <2>4. At(g, nat, N, t, f, n, b, st) /\ signal = "run" /\ nat[N].fn = "luau_execute"
    BY <1>1, <1>2, <1>4
  <2>5. e \in Element /\ z \in Note /\ e.L = t /\ e.fn = "luaD_performcally" /\ e.frames = H
    BY <1>12, <1>13
  <2> QED BY <2>1, <2>2, <2>3, <2>4, <2>5, ForCallReady
<1>16. Counted(t, base, kind, f2, nat, e, FALSE)
  BY <1>3, <1>5, <1>10 DEF ExecForCall
<1>17. base \in Nat /\ Top.L = t
  BY <1>3, <1>5, <1>7
<1>18. Ready(luauFastpcall, t, kind, f2, nCcalls[t], baseCcalls[t], base, FALSE, nat, g, N, e, z)
  BY <1>3, <1>15
<1> QED BY <1>7, <1>9, <1>15, <1>16, <1>17, <1>18, CountedStep

-----------------------------------------------------------------------------
(* Protected calls                                                          *)

\* Frames f2 are f but for the marks of the last one, which make nothing bad.
Remarked(fast, f, f2) ==
    /\ f2 \in Seq(FrameType) /\ FramesOK(fast, f2) /\ Len(f2) = Len(f) /\ DOMAIN f2 = DOMAIN f
    /\ \A k \in 1 .. Len(f) :
          /\ f2[k].kind = f[k].kind /\ f2[k].return = f[k].return /\ f2[k].pcall = f[k].pcall
          /\ k < Len(f) => f2[k] = f[k]
    /\ \A k \in DOMAIN f2 : Bad(f2, k) => Bad(f, k)

LEMMA RemarkedSame ==
  ASSUME NEW fast, NEW f, f \in Seq(FrameType), FramesOK(fast, f)
  PROVE  Remarked(fast, f, f)
BY DEF Remarked

LEMMA RemarkedCont ==
  ASSUME NEW fast, NEW f, NEW H, NEW ef, NEW r, NEW f2,
         f \in Seq(FrameType), FramesOK(fast, f), H = Len(f), H > 0, f[H].kind = "cont", ef \in BOOLEAN,
         r = [f[H] EXCEPT !.handle = TRUE, !.errfunc = ef], f2 = [f EXCEPT ![H] = r]
  PROVE  Remarked(fast, f, f2)
<1>1. H \in 1 .. Len(f) /\ H \in DOMAIN f /\ f[H] \in FrameType /\ H \in Nat /\ DOMAIN f = 1 .. Len(f)
  BY FrameIs
<1>2. /\ r \in FrameType /\ r.kind = f[H].kind /\ r.return = f[H].return /\ r.pcall = f[H].pcall
      /\ r.forcall = f[H].forcall /\ r.opyield = f[H].opyield /\ r.kind = "cont"
  BY <1>1 DEF FrameType
<1>3. ~f[H].forcall /\ ~f[H].opyield
  BY <1>1 DEF FramesOK
<1>4. Marked(fast, f, f2, H, r)
  <2>1. fast => r.forcall = r.opyield
    BY <1>1, <1>2 DEF FramesOK
  <2>2. r.forcall \/ r.opyield => r.kind = "lua"
    BY <1>2, <1>3
  <2>3. r.handle \/ r.pcall => r.kind = "cont"
    BY <1>2
  <2> QED BY <1>1, <1>2, <2>1, <2>2, <2>3, MarkedIs
<1>5. /\ f2 \in Seq(FrameType) /\ FramesOK(fast, f2) /\ Len(f2) = Len(f) /\ DOMAIN f2 = DOMAIN f /\ f2[H] = r
      /\ \A k \in 1 .. Len(f) : k # H => f2[k] = f[k]
      /\ \A k \in DOMAIN f2 : k # H => (Bad(f2, k) => Bad(f, k))
  BY <1>4 DEF Marked
<1>6. ~Bad(f2, H)
  <2>1. r.forcall = FALSE /\ r.opyield = FALSE
    BY <1>2, <1>3 DEF FrameType
  <2>2. f2[H].kind = "cont" /\ f2[H].forcall = f2[H].opyield
    BY <1>2, <1>5, <2>1
  <2> QED BY <2>2 DEF Bad
<1>7. \A k \in 1 .. Len(f) : k < Len(f) => k # H
  BY <1>1
<1> QED BY <1>2, <1>5, <1>6, <1>7 DEF Remarked

\* Its C function knows its frame still, with a protected call above.
LEMMA RemarkedKnown ==
  ASSUME NEW fast, NEW nat, NEW g, NEW N, NEW t, NEW f, NEW f2,
         nat \in Seq(Element), g \in Seq(Note), Stack(fast, nat, g), Len(nat) = N, N > 1, nat[N].fn = "C",
         nat[N].L = t, f \in Seq(FrameType), Known(t, f, nat, g, N, "none"), Remarked(fast, f, f2), g[N].h = Len(f)
  PROVE  Known(t, f2, nat, g, N, "luaD_pcall")
<1>1. PICK K, d, x, e, z : K = N - 1 /\ d = nat[N - 1] /\ x = g[N - 1] /\ e = nat[N] /\ z = g[N]
  OBVIOUS
<1>2. /\ N \in Nat /\ K \in Nat /\ K \in 1 .. N /\ Len(g) = N /\ d \in Element /\ e \in Element /\ x \in Note /\ z \in Note
      /\ Atop(fast, d, x, e, z)
  BY <1>1, TopIs
<1>3. x.h < z.h /\ z.h = Len(f) /\ x.h \in Nat /\ z.h \in Nat
  BY <1>1, <1>2, NoteIs DEF Atop
<1>4. /\ f2 \in Seq(FrameType) /\ Len(f2) = Len(f)
      /\ \A k \in 1 .. Len(f) :
            /\ f2[k].kind = f[k].kind /\ f2[k].return = f[k].return /\ f2[k].pcall = f[k].pcall
            /\ k < Len(f) => f2[k] = f[k]
  BY DEF Remarked
<1>5. Kept(f, f2, x.h)
  <2>1. ASSUME NEW k \in 1 .. x.h
        PROVE  f2[k] = f[k]
    <3>1. k \in 1 .. Len(f) /\ k < Len(f)
      BY <1>3
    <3> QED BY <1>4, <3>1
  <2>2. x.h + 1 \in 1 .. Len(f)
    BY <1>3
  <2>3. f2[x.h + 1].kind = f[x.h + 1].kind /\ f2[x.h + 1].return = f[x.h + 1].return
    BY <1>4, <2>2
  <2> QED BY <1>3, <1>4, <2>1, <2>3 DEF Kept
<1>6. Known(t, f, nat, g, N - 1, nat[N].fn) /\ Knows(f, nat[N - 1], g[N - 1], nat[N], g[N], "none")
  BY KnownPop
<1>7. Known(t, f2, nat, g, K, "C")
  <2>1. Known(t, f, nat, g, K, "C")
    BY <1>1, <1>6
  <2>2. Agree(nat, g, nat, g, K)
    BY <1>2 DEF Agree
  <2>3. \A i \in 2 .. K : nat[i].L = t => g[i].h <= x.h
    BY <1>1, BelowHeight
  <2> QED BY <1>2, <1>4, <1>5, <2>1, <2>2, <2>3, KnownOn
<1>8. Knows(f2, nat[N - 1], g[N - 1], nat[N], g[N], "luaD_pcall")
  <2>1. Knows(f, d, x, e, z, "none") /\ e.fn = "C"
    BY <1>1, <1>6
  <2>2. z.h \in 1 .. Len(f)
    BY <1>3
  <2>3. f2[z.h].kind = f[z.h].kind /\ z.h <= Len(f2)
    BY <1>3, <1>4, <2>2
  <2>4. Knows(f2, d, x, e, z, "luaD_pcall")
    BY <2>1, <2>3 DEF Knows, Beginning
  <2> QED BY <1>1, <2>4
<1>9. Known(t, f2, nat, g, N - 1, nat[N].fn)
  BY <1>1, <1>7
<1> QED BY <1>2, <1>8, <1>9, KnownTop

\* A C function with frames f, or the host
Calling(fast, t, f, n, b, nat, g, N) ==
    /\ nat[N].fn = "C" /\ nat[N].L = t
    /\ Len(f) = g[N].h /\ n >= g[N].c /\ b >= g[N].b /\ n = b + g[N].y
    /\ FramesOK(fast, f) /\ Known(t, f, nat, g, N, "none") /\ Explained(t, f, nat, g, FALSE)
    /\ Marks(fast, t, f, nat, g)
    /\ f # <<>> => f[Len(f)].kind # "lua"

\* What it keeps
PcallOf(p, t, n, b, H) ==
    /\ p \in Element /\ p.fn = "luaD_pcall" /\ p.L = t /\ p.nCcalls = n /\ p.baseCcalls = b /\ p.frames = H
    /\ ~p.handling

LEMMA PcallPushed ==
  ASSUME NEW fast, NEW nat, NEW g, NEW N, NEW t, NEW f, NEW n, NEW b, NEW p, NEW x,
         nat \in Seq(Element), g \in Seq(Note), Stack(fast, nat, g), Len(nat) = N, N > 0,
         Calling(fast, t, f, n, b, nat, g, N), PcallOf(p, t, n, b, Len(f)), x = g[N]
  PROVE  Stack(fast, Append(nat, p), Append(g, x)) /\ x \in Note /\ p \in Element /\ Len(g) = N /\ N \in Nat
<1>1. N \in Nat /\ Len(g) = N /\ N \in 1 .. N
  BY LenIs DEF Stack, Grounded
<1>2. x \in Note
  BY <1>1, LenIs
<1>3. Atop(fast, nat[Len(nat)], g[Len(nat)], p, x)
  BY DEF Calling, PcallOf, Atop, Noted
<1>4. p \in Element /\ p.fn = "luaD_pcall"
  BY DEF PcallOf
<1> QED BY <1>1, <1>2, <1>3, <1>4, PushStack

LEMMA PcallKnown ==
  ASSUME NEW fast, NEW nat, NEW g, NEW N, NEW t, NEW f, NEW f2, NEW n, NEW b,
         nat \in Seq(Element), g \in Seq(Note), Stack(fast, nat, g), Len(nat) = N, N > 0, f \in Seq(FrameType),
         Calling(fast, t, f, n, b, nat, g, N), Remarked(fast, f, f2)
  PROVE  Known(t, f2, nat, g, N, "luaD_pcall")
<1>1. N \in Nat
  BY LenIs
<1>2. CASE N = 1
  <2>1. 2 .. N = {}
    BY <1>2
  <2> QED BY <2>1 DEF Known
<1>3. CASE N > 1
  BY <1>3, RemarkedKnown DEF Calling
<1> QED BY <1>1, <1>2, <1>3

LEMMA PcallMarks ==
  ASSUME NEW fast, NEW nat, NEW g, NEW N, NEW t, NEW f, NEW f2, NEW n, NEW b, NEW p, NEW x, NEW nat0, NEW g0,
         nat \in Seq(Element), g \in Seq(Note), Stack(fast, nat, g), Len(nat) = N, N > 0, f \in Seq(FrameType),
         Calling(fast, t, f, n, b, nat, g, N), Remarked(fast, f, f2), PcallOf(p, t, n, b, Len(f)), x = g[N],
         nat0 = Append(nat, p), g0 = Append(g, x)
  PROVE  Marks(fast, t, f2, nat0, g0)
<1>1. x \in Note /\ p \in Element /\ Len(g) = N /\ N \in Nat
  BY PcallPushed
<1>2. /\ nat0 \in Seq(Element) /\ g0 \in Seq(Note) /\ Len(nat0) = N + 1 /\ Len(g0) = N + 1
      /\ Agree(nat, g, nat0, g0, N) /\ nat0[N + 1] = p /\ g0[N + 1] = x
  BY <1>1, PushIs
<1>3. p.fn = "luaD_pcall" /\ p.L = t /\ p.frames = Len(f) /\ x.h = Len(f) /\ Marks(fast, t, f, nat, g)
  BY DEF PcallOf, Calling
<1>4. /\ f2 \in Seq(FrameType) /\ Len(f2) = Len(f) /\ DOMAIN f2 = DOMAIN f
      /\ \A k \in 1 .. Len(f) : k < Len(f) => f2[k] = f[k]
      /\ \A k \in DOMAIN f2 : Bad(f2, k) => Bad(f, k)
      /\ Len(f) \in Nat /\ DOMAIN f = 1 .. Len(f)
  BY FrameIs DEF Remarked
<1>5. MarksKept(fast, t, f, f2, nat, nat0, g0, N)
  <2>1. ASSUME NEW q \in DOMAIN f2, f2[q].handle
        PROVE  \/ /\ q \in DOMAIN f /\ f[q].handle
                  /\ (\E k \in 1 .. (q - 1) : Bad(f2, k)) => \E k \in 1 .. (q - 1) : Bad(f, k)
               \/ HasPcall(t, nat0, N + 1, q)
    <3>1. CASE q < Len(f)
      <4>1. \A k \in 1 .. (q - 1) : k \in DOMAIN f2
        BY <1>4, <2>1
      <4> QED BY <1>4, <2>1, <3>1, <4>1
    <3>2. CASE q = Len(f)
      <4>1. N + 1 \in (N + 1) .. Len(nat0)
        BY <1>1, <1>2
      <4> QED BY <1>2, <1>3, <3>2, <4>1 DEF HasPcall
    <3> QED BY <1>4, <2>1, <3>1, <3>2
  <2>2. \A j \in (N + 1) .. Len(nat) : FALSE
    BY <1>1
  <2>3. ASSUME NEW i \in (N + 1) .. Len(nat0)
        PROVE  \A q \in (g0[i].h + 1) .. Len(f2) : ~f2[q].handle
    <3>1. g0[i].h = Len(f)
      BY <1>1, <1>2, <1>3, <2>3
    <3>2. (g0[i].h + 1) .. Len(f2) = {}
      BY <1>4, <3>1
    <3> QED BY <3>2
  <2> QED BY <2>1, <2>2, <2>3 DEF MarksKept
<1> QED BY <1>1, <1>2, <1>3, <1>4, <1>5, MarksOn

LEMMA PcallReady ==
  ASSUME NEW fast, NEW nat, NEW g, NEW N, NEW t, NEW f, NEW f2, NEW n, NEW b, NEW p, NEW x, NEW nat0, NEW g0,
         NEW N0, NEW kind, NEW base, NEW prep, NEW e, NEW z,
         nat \in Seq(Element), g \in Seq(Note), Stack(fast, nat, g), Len(nat) = N, N > 0, f \in Seq(FrameType),
         n \in Nat, b \in Nat,
         Calling(fast, t, f, n, b, nat, g, N), Remarked(fast, f, f2), PcallOf(p, t, n, b, Len(f)), x = g[N],
         nat0 = Append(nat, p), g0 = Append(g, x), N0 = N + 1, e \in Element, z \in Note, e.L = t,
         e.fn = "luaD_callint", Atop(fast, p, x, e, z), z.h = Len(f), N = 1 => ~e.from,
         f # <<>> /\ f[Len(f)].kind = "c" => ~e.from,
         n + 1 >= z.c, base >= z.b, n + 1 = base + z.y, prep => z.y = 0
  PROVE  Ready(fast, t, kind, f2, n, b, base, prep, nat0, g0, N0, e, z)
<1>1. x \in Note /\ p \in Element /\ Len(g) = N /\ N \in Nat
  BY PcallPushed
<1>2. /\ nat0 \in Seq(Element) /\ g0 \in Seq(Note) /\ Len(nat0) = N0 /\ Len(g0) = N0
      /\ Agree(nat, g, nat0, g0, N) /\ nat0[N0] = p /\ g0[N0] = x
  BY <1>1, PushIs
<1>3. p.fn = "luaD_pcall" /\ p.L = t /\ ~Handling(p) /\ x.h = Len(f)
  BY DEF PcallOf, Calling, Handling
<1>4. /\ f2 \in Seq(FrameType) /\ FramesOK(fast, f2) /\ Len(f2) = Len(f) /\ DOMAIN f2 = DOMAIN f
      /\ \A k \in 1 .. Len(f) : f2[k].kind = f[k].kind
      /\ \A k \in DOMAIN f2 : Bad(f2, k) => Bad(f, k)
      /\ Len(f) \in Nat /\ DOMAIN f = 1 .. Len(f)
  BY FrameIs DEF Remarked
<1>5. Known(t, f2, nat0, g0, N0, "none")
  <2>1. Known(t, f2, nat, g, Len(nat), p.fn)
    BY <1>3, PcallKnown
  <2>2. Knows(f2, nat[Len(nat)], g[Len(nat)], p, x, "none")
    BY <1>3, <1>4 DEF Knows, Beginning
  <2>3. Known(t, f2, Append(nat, p), Append(g, x), Len(nat) + 1, "none")
    BY <1>1, <2>1, <2>2, KnownPush
  <2> QED BY <2>3
<1>6. Marks(fast, t, f2, nat0, g0)
  BY PcallMarks
<1>7. ASSUME NEW k \in DOMAIN f2, Bad(f2, k) \/ (k = Len(f2) /\ f2[k].kind = "c")
      PROVE  Excused(t, f2, k, nat0, g0, FALSE) \/ CalledFrom(t, f2, e, k)
  <2>1. f2[k].kind = f[k].kind /\ k \in DOMAIN f
    BY <1>4
  <2>2. CASE Bad(f2, k)
    <3>1. Excused(t, f, k, nat, g, FALSE)
      BY <1>4, <2>1, <2>2 DEF Calling, Explained, Excused
    <3>2. Unneeded(t, f, k, nat, g, N)
      BY <1>1 DEF Unneeded
    <3> QED BY <1>1, <1>2, <2>1, <3>1, <3>2, ExcusedOn
  <2>3. CASE k = Len(f2) /\ f2[k].kind = "c"
    <3>1. Len(f) # 0
      BY <1>4, <2>3
    <3>2. f # <<>>
      BY <3>1, NotEmpty
    <3>3. ~e.from
      BY <1>4, <2>1, <2>3, <3>2
    <3>4. e.frames = k
      BY <1>3, <1>4, <2>3 DEF Atop
    <3> QED BY <2>3, <3>3, <3>4 DEF CalledFrom
  <2> QED BY <1>7, <2>2, <2>3
<1>8. n + 1 >= g0[N0].c /\ b >= g0[N0].b /\ n + 1 >= b
  <2>1. n >= x.c /\ b >= x.b /\ n = b + x.y /\ x.c \in Nat /\ x.y \in Nat
    BY <1>1, NoteIs DEF Calling
  <2>2. n + 1 >= x.c /\ b >= x.b /\ n + 1 >= b
    BY <2>1, AtLeast
  <2>3. g0[N0] = x
    BY <1>2
  <2> QED BY <2>2, <2>3
<1>9. e.fn \in CallNames
  BY DEF CallNames
<1>10. ~(N0 = 2 /\ e.from)
  BY <1>1
<1> QED BY <1>2, <1>3, <1>4, <1>5, <1>6, <1>7, <1>8, <1>9, <1>10 DEF Ready

\* The call of a protected call is entered, or throws.
LEMMA PcallCalls ==
  ASSUME NEW g, NEW nat, NEW N, NEW t, NEW f, NEW f2, NEW n, NEW b, NEW p, NEW nat0, NEW kind, NEW prep,
         g \in Seq(Note), Balanced(g), native = nat, Len(nat) = N, N > 0, t \in Thread, f \in Seq(FrameType),
         kind \in Kind, nCcalls[t] = n, baseCcalls[t] = b, status[t] \in {"ok"}, Top.L = t,
         Calling(luauFastpcall, t, f, n, b, nat, g, N), Remarked(luauFastpcall, f, f2), PcallOf(p, t, n, b, Len(f)),
         nat0 = Append(nat, p), prep => n <= b /\ f # <<>> /\ f[Len(f)].kind = "cont",
         CallInt(t, kind, f2, nat0, prep), UNCHANGED luauFastpcall
  PROVE  CallInv'
<1>1. PICK x, g0, N0, H : x = g[N] /\ g0 = Append(g, x) /\ N0 = N + 1 /\ H = Len(f)
  OBVIOUS
<1>2. nat \in Seq(Element) /\ Stack(luauFastpcall, nat, g) /\ n \in Nat /\ b \in Nat
  BY DEF Balanced, CallTypeOK
<1>3. Stack(luauFastpcall, nat0, g0) /\ x \in Note /\ p \in Element /\ Len(g) = N /\ N \in Nat
  <2>1. Stack(luauFastpcall, Append(nat, p), Append(g, x)) /\ x \in Note /\ p \in Element /\ Len(g) = N /\ N \in Nat
    BY <1>1, <1>2, PcallPushed
  <2> QED BY <1>1, <2>1
<1>4. /\ x.h \in Nat /\ x.y \in Nat /\ x.c \in Nat /\ x.b \in Nat /\ x.h = H /\ n >= x.c /\ b >= x.b /\ n = b + x.y
      /\ nat[N].L = t /\ H \in Nat
  BY <1>1, <1>3, NoteIs DEF Calling
<1>5. /\ f2 \in Seq(FrameType) /\ Len(f2) = H /\ (H > 0 => f2[H].kind = f[H].kind)
      /\ (f2 = <<>> <=> H = 0) /\ (f = <<>> <=> H = 0)
  <2>1. H > 0 => H \in 1 .. Len(f)
    BY <1>1, <1>4
  <2> QED BY <1>1, <2>1, LenIs DEF Remarked
<1>6. Len(nat0) = N0 /\ Moves(native, g, nat0, g0, N, t)
  <2>1. /\ nat0 \in Seq(Element) /\ g0 \in Seq(Note) /\ Len(nat0) = N + 1
        /\ \A i \in 1 .. N : nat0[i] = nat[i] /\ g0[i] = g[i]
        /\ nat0[N + 1] = p
    BY <1>1, <1>2, <1>3, PushIs
  <2>2. \A j \in N .. (N + 1) : j = N \/ j = N + 1
    BY <1>3
  <2>3. N \in 1 .. N /\ \A i \in 1 .. (N - 1) : i \in 1 .. N
    BY <1>3
  <2>4. \A j \in N .. N : j = N
    BY <1>3
  <2>5. p.L = t
    BY DEF PcallOf
  <2> QED BY <1>1, <1>3, <1>4, <2>1, <2>2, <2>3, <2>4, <2>5 DEF Moves
<1>11. /\ n + 1 >= x.c + 1 /\ b + 1 >= x.b + 1 /\ n + 1 = (b + 1) + x.y /\ n + 1 = b + (x.y + 1)
       /\ b + 1 \in Nat /\ x.c + 1 \in Nat /\ x.b + 1 \in Nat /\ x.y + 1 \in Nat
  <2>1. CountsUp(x, n, b)
    BY <1>1, <1>2, <1>3, CallCounts DEF Calling
  <2> QED BY <2>1 DEF CountsUp
<1>7. N = 1 => H = 0
  BY <1>1, <1>2, <1>4 DEF Stack, Grounded, Noted
<1>8. p.fn = "luaD_pcall" /\ ~p.handling /\ p.L = t
  BY DEF PcallOf
<1>9. CASE H > 0 /\ f[H].kind = "cont"
  <2>1. PICK e, z, base : /\ e = [fn |-> "luaD_callint", L |-> t, from |-> TRUE, frames |-> H] /\ base = b + 1
                          /\ z = [h |-> H, y |-> x.y, c |-> x.c + 1, b |-> x.b + 1]
    OBVIOUS
  <2>2. x.c + 1 \in Nat /\ x.b + 1 \in Nat /\ base \in Nat
    BY <1>11, <2>1
  <2>3. z \in Note /\ z.h = H /\ z.y = x.y /\ z.c = x.c + 1 /\ z.b = x.b + 1
    BY <1>4, <2>1, <2>2, MadeNote
  <2>4. e \in Element /\ e.L = t /\ e.fn = "luaD_callint" /\ e.frames = H /\ e.from
    BY <1>4, <2>1, MadeCallInt
  <2>5. Atop(luauFastpcall, p, x, e, z)
    BY <1>4, <1>8, <2>3, <2>4 DEF Atop, Noted
  <2>6. n + 1 >= z.c /\ base >= z.b /\ n + 1 = base + z.y
    <3>1. base = b + 1
      BY <2>1
    <3> QED BY <1>11, <2>3, <3>1
  <2>7. prep => z.y = 0
    BY <1>2, <1>4, <2>3
  <2>8. Ready(luauFastpcall, t, kind, f2, n, b, base, prep, nat0, g0, N0, e, z)
    <3>1. N = 1 => ~e.from
      BY <1>7, <1>9
    <3>2. f # <<>> /\ f[Len(f)].kind = "c" => ~e.from
      BY <1>1, <1>9
    <3>3. z.h = Len(f)
      BY <1>1, <2>3
    <3> QED BY <1>1, <1>2, <2>3, <2>4, <2>5, <2>6, <2>7, <3>1, <3>2, <3>3, PcallReady
  <2>9. Counted(t, base, kind, f2, nat0, e, prep)
    <3>1. f2 # <<>> /\ Last(f2).kind = "cont"
      BY <1>5, <1>9 DEF Last
    <3> QED BY <1>5, <2>1, <3>1 DEF CallInt
  <2> QED BY <1>3, <1>5, <1>6, <2>2, <2>8, <2>9, CountedStep
<1>10. CASE ~(H > 0 /\ f[H].kind = "cont")
  <2>1. PICK e, z : /\ e = [fn |-> "luaD_callint", L |-> t, from |-> FALSE, frames |-> H]
                    /\ z = [h |-> H, y |-> x.y + 1, c |-> x.c + 1, b |-> x.b]
    OBVIOUS
  <2>2. x.c + 1 \in Nat /\ x.y + 1 \in Nat
    BY <1>4
  <2>3. z \in Note /\ z.h = H /\ z.y = x.y + 1 /\ z.c = x.c + 1 /\ z.b = x.b
    BY <1>4, <2>1, <2>2, MadeNote
  <2>4. e \in Element /\ e.L = t /\ e.fn = "luaD_callint" /\ e.frames = H /\ ~e.from
    BY <1>4, <2>1, MadeCallInt
  <2>5. Atop(luauFastpcall, p, x, e, z)
    BY <1>4, <1>8, <2>3, <2>4 DEF Atop, Noted
  <2>6. n + 1 >= z.c /\ b >= z.b /\ n + 1 = b + z.y
    <3> QED BY <1>4, <1>11, <2>3
  <2>7. prep => z.y = 0
    BY <1>1, <1>4, <1>5, <1>10
  <2>8. Ready(luauFastpcall, t, kind, f2, n, b, b, prep, nat0, g0, N0, e, z)
    <3>1. z.h = Len(f)
      BY <1>1, <2>3
    <3> QED BY <1>1, <1>2, <2>3, <2>4, <2>5, <2>6, <2>7, <3>1, PcallReady
  <2>9. Counted(t, b, kind, f2, nat0, e, prep)
    <3>1. ~(f2 # <<>> /\ Last(f2).kind = "cont")
      BY <1>4, <1>5, <1>10 DEF Last
    <3> QED BY <1>5, <2>1, <3>1 DEF CallInt
  <2> QED BY <1>2, <1>3, <1>5, <1>6, <2>8, <2>9, CountedStep
<1> QED BY <1>9, <1>10

LEMMA HostCalling ==
  ASSUME NEW g, NEW t, NEW nat, NEW n, NEW b, g \in Seq(Note), Balanced(g), Host, t \in Thread, Running("C", t), ci[t] = <<>>,
         native = nat, nCcalls[t] = n, baseCcalls[t] = b
  PROVE  Calling(luauFastpcall, t, <<>>, n, b, nat, g, 1)
<1>1. /\ native \in Seq(Element) /\ Stack(luauFastpcall, nat, g) /\ Len(nat) = 1 /\ n \in Nat /\ b \in Nat
  BY DEF Balanced, CallTypeOK, Host
<1>2. nat[1].fn = "C" /\ nat[1].L = MainThread /\ Noted(g[1], 0, 0, 0, 0)
  BY <1>1 DEF Stack, Grounded, Native
<1>3. t = MainThread
  BY <1>1, <1>2 DEF Running, Top, Last
<1>4. 2 .. Len(nat) = {} /\ 2 .. 1 = {} /\ DOMAIN <<>> = {} /\ Len(<<>>) = 0
  BY <1>1
<1>5. n = b
  BY <1>3, <1>4 DEF Balanced
<1>6. FramesOK(luauFastpcall, <<>>) /\ Known(t, <<>>, nat, g, 1, "none") /\ Explained(t, <<>>, nat, g, FALSE)
      /\ Marks(luauFastpcall, t, <<>>, nat, g)
  BY <1>4 DEF FramesOK, Known, Explained, Marks
<1>7. n >= 0 /\ b >= 0 /\ n = b + 0
  BY <1>1, <1>5
<1> QED BY <1>2, <1>3, <1>4, <1>6, <1>7 DEF Calling, Noted

LEMMA FunctionCalling ==
  ASSUME NEW g, NEW nat, NEW N, NEW t, NEW f, NEW n, NEW b, NEW st,
         At(g, nat, N, t, f, n, b, st), signal = "run", nat[N].fn = "C"
  PROVE  Calling(luauFastpcall, t, f, n, b, nat, g, N)
<1>1. nat[N].L = t /\ Len(nat) = N
  BY DEF At
<1>2. /\ Level(g[N], f, n, b, st) /\ Frames(luauFastpcall, t, f, nat, g, "none") /\ Explained(t, f, nat, g, FALSE)
      /\ Marks(luauFastpcall, t, f, nat, g) /\ FramesOK(luauFastpcall, f)
  BY TopRuns
<1>3. f[Len(f)].kind # "lua"
  BY TopRuns
<1>4. n >= g[N].c /\ b >= g[N].b /\ n = b + g[N].y /\ Len(f) = g[N].h
  BY <1>2 DEF Level
<1>5. Known(t, f, nat, g, N, "none")
  BY <1>1, <1>2 DEF Frames
<1> QED BY <1>1, <1>2, <1>3, <1>4, <1>5 DEF Calling

LEMMA ProtectedIs ==
  ASSUME NEW p, NEW t, NEW n, NEW b, NEW H, NEW ef,
         t \in Thread, n \in Nat, b \in Nat, H \in Nat, ef \in BOOLEAN,
         p = [fn |-> "luaD_pcall", L |-> t, nCcalls |-> n, baseCcalls |-> b, frames |-> H, errfunc |-> ef, handling |-> FALSE]
  PROVE  PcallOf(p, t, n, b, H)
<1>1. p \in [fn : {"luaD_pcall"}, L : Thread, nCcalls : Nat, baseCcalls : Nat, frames : Nat,
             errfunc : BOOLEAN, handling : BOOLEAN]
  OBVIOUS
<1> QED BY <1>1 DEF PcallOf, Element

LEMMA CPcallStep ==
  ASSUME NEW g, NEW t, NEW kind, NEW ef, g \in Seq(Note), Balanced(g), t \in Thread, kind \in Kind, ef \in BOOLEAN,
         CPcall(t, kind, ef), UNCHANGED luauFastpcall
  PROVE  CallInv'
<1>1. PICK nat, N, f, n, b, H : /\ nat = native /\ N = Len(native) /\ f = ci[t] /\ n = nCcalls[t] /\ b = baseCcalls[t]
                                /\ H = Len(f)
  OBVIOUS
<1>2. /\ N \in Nat /\ N > 0 /\ f \in Seq(FrameType) /\ n \in Nat /\ b \in Nat /\ H \in Nat /\ H = Len(f)
      /\ Top.L = t /\ signal = "run" /\ Top.fn = "C" /\ (~Host \/ (Host /\ Running("C", t) /\ f = <<>> /\ status[t] = "ok"))
      /\ nat \in Seq(Element)
  <2>1. N \in Nat /\ N > 0 /\ f \in Seq(FrameType) /\ n \in Nat /\ b \in Nat /\ nat \in Seq(Element)
    BY <1>1, LenIs DEF Balanced, CallTypeOK
  <2>2. H \in Nat
    BY <1>1, <2>1, FrameIs
  <2> QED BY <1>1, <2>1, <2>2 DEF CPcall, CFunction, Running
<1>3. Calling(luauFastpcall, t, f, n, b, nat, g, N) /\ status[t] \in {"ok"}
  <2>1. CASE Host
    <3>1. Calling(luauFastpcall, t, <<>>, n, b, nat, g, 1)
      BY <1>1, <1>2, <2>1, HostCalling
    <3> QED BY <1>1, <1>2, <2>1, <3>1 DEF Host
  <2>2. CASE ~Host
    <3>1. PICK nat1, N1, f1, n1, b1, st1 : At(g, nat1, N1, t, f1, n1, b1, st1)
      BY <1>2, <2>2, AboveHost
    <3>2. native = nat1 /\ Top = nat1[N1] /\ Len(nat1) = N1 /\ ci[t] = f1 /\ nCcalls[t] = n1 /\ baseCcalls[t] = b1 /\ status[t] = st1
      BY <3>1, AtSame DEF At
    <3>3. nat1[N1].fn = "C" /\ nat1[N1].fn # "lua_resume"
      BY <1>2, <3>2
    <3>4. Calling(luauFastpcall, t, f1, n1, b1, nat1, g, N1)
      BY <1>2, <3>1, <3>3, FunctionCalling
    <3>5. Level(g[N1], f1, n1, b1, st1)
      BY <1>2, <3>1, <3>3, TopRuns
    <3> QED BY <1>1, <3>2, <3>4, <3>5 DEF Level
  <2> QED BY <2>1, <2>2
<1>4. FramesOK(luauFastpcall, f)
  BY <1>3 DEF Calling
<1>5. PICK p, nat0 : p = Protected(t, ef) /\ nat0 = Append(nat, p)
  OBVIOUS
<1>6. PcallOf(p, t, n, b, Len(f))
  BY <1>1, <1>2, <1>5, ProtectedIs DEF Protected
<1>7. f = <<>> <=> H = 0
  BY <1>2, LenIs
<1>8. CASE H > 0 /\ f[H].kind = "cont"
  <2>1. PICK r, f2 : r = [f[H] EXCEPT !.handle = TRUE, !.errfunc = ef] /\ f2 = [f EXCEPT ![H] = r]
    OBVIOUS
  <2>2. Remarked(luauFastpcall, f, f2)
    BY <1>2, <1>4, <1>8, <2>1, RemarkedCont
  <2>3. f # <<>> /\ Last(f).kind = "cont" /\ f[Len(f)].kind = "cont"
    BY <1>2, <1>7, <1>8 DEF Last
  <2>4. CASE n <= b
    <3>1. CallInt(t, kind, f2, nat0, TRUE)
      BY <1>1, <1>5, <2>1, <2>3, <2>4 DEF CPcall, Yieldable
    <3>2. TRUE => n <= b /\ f # <<>> /\ f[Len(f)].kind = "cont"
      BY <2>3, <2>4
    <3> QED BY <1>1, <1>2, <1>3, <1>5, <1>6, <2>2, <3>1, <3>2, PcallCalls
  <2>5. CASE ~(n <= b)
    <3>1. CallInt(t, kind, f2, nat0, FALSE)
      BY <1>1, <1>5, <2>1, <2>3, <2>5 DEF CPcall, Yieldable
    <3> QED BY <1>1, <1>2, <1>3, <1>5, <1>6, <2>2, <3>1, PcallCalls
  <2> QED BY <2>4, <2>5
<1>9. CASE ~(H > 0 /\ f[H].kind = "cont")
  <2>1. Remarked(luauFastpcall, f, f)
    BY <1>2, <1>4, RemarkedSame
  <2>2. ~(f # <<>> /\ Last(f).kind = "cont")
    BY <1>2, <1>7, <1>9 DEF Last
  <2>3. CallInt(t, kind, f, nat0, FALSE)
    BY <1>1, <1>5, <2>2 DEF CPcall
  <2> QED BY <1>1, <1>2, <1>3, <1>5, <1>6, <2>1, <2>3, PcallCalls
<1> QED BY <1>8, <1>9

-----------------------------------------------------------------------------
(* The call of an error function                                            *)

\* Nothing of the frames f of thread t but what is excused.
AllExcused(t, f, nat, g) ==
    \A k \in DOMAIN f : Bad(f, k) \/ (k = Len(f) /\ f[k].kind = "c") => Excused(t, f, k, nat, g, FALSE)

\* The element on top handles an error.
Handles(fast, t, f, n, b, base, nat, g, N) ==
    /\ nat[N].L = t /\ Handling(nat[N]) /\ g[N].h <= Len(f)
    /\ FramesOK(fast, f) /\ Known(t, f, nat, g, N, "callerrfunc") /\ Marks(fast, t, f, nat, g)
    /\ AllExcused(t, f, nat, g)
    /\ n >= g[N].c /\ b >= g[N].b /\ base >= g[N].b /\ n >= b /\ n >= base

LEMMA MarksPush ==
  ASSUME NEW fast, NEW nat, NEW g, NEW N, NEW t, NEW f, NEW e, NEW z,
         nat \in Seq(Element), g \in Seq(Note), Len(nat) = N, Len(g) = N, e \in Element, z \in Note,
         f \in Seq(FrameType), Marks(fast, t, f, nat, g), e.fn # "luaD_pcall"
  PROVE  Marks(fast, t, f, Append(nat, e), Append(g, z))
<1>1. PICK nat2, g2 : nat2 = Append(nat, e) /\ g2 = Append(g, z)
  OBVIOUS
<1>2. /\ nat2 \in Seq(Element) /\ g2 \in Seq(Note) /\ Len(nat2) = N + 1 /\ Len(g2) = N + 1
      /\ Agree(nat, g, nat2, g2, N) /\ nat2[N + 1] = e /\ N \in Nat
  BY <1>1, PushIs, LenIs
<1>3. MarksKept(fast, t, f, f, nat, nat2, g2, N)
  <2>1. \A j \in (N + 1) .. Len(nat) : FALSE
    BY <1>2
  <2>2. \A i \in (N + 1) .. Len(nat2) : nat2[i].fn # "luaD_pcall"
    BY <1>2
  <2> QED BY <2>1, <2>2 DEF MarksKept
<1>4. Marks(fast, t, f, nat2, g2)
  BY <1>2, <1>3, MarksOn
<1> QED BY <1>1, <1>4

\* The notes of callerrfunc and of luaD_callny on top of it
Erring(x, w, z, H, n, base) ==
    /\ w.h = H /\ w.c = x.c /\ w.b = x.b
    /\ z.h = H /\ z.y = w.y /\ z.c = x.c + 1 /\ z.b = x.b /\ n + 1 = base + z.y

LEMMA HandlerStack ==
  ASSUME NEW fast, NEW nat, NEW g, NEW N, NEW c, NEW w,
         nat \in Seq(Element), g \in Seq(Note), Stack(fast, nat, g), Len(nat) = N, N > 1, Handling(nat[N]),
         c \in Element, c.fn = "callerrfunc", c.L = nat[N].L, w \in Note, g[N].h <= w.h, w.c = g[N].c, w.b = g[N].b
  PROVE  Stack(fast, Append(nat, c), Append(g, w))
<1>1. N \in Nat /\ nat[N].fn # "C"
  BY TopIs DEF Handling
<1>2. Atop(fast, nat[Len(nat)], g[Len(nat)], c, w)
  BY <1>1 DEF Atop, Noted
<1>3. /\ Len(nat) = 1 => c.fn \in {"luaD_pcall", "lua_resume"}
      /\ Len(nat) = 2 /\ nat[2].fn = "luaD_pcall" /\ c.fn = "luaD_callint" => ~c.from
      /\ c.fn = "lua_resume" => \A k \in 2 .. Len(nat) : nat[k].L # c.L
  BY <1>1
<1> QED BY <1>2, <1>3, PushStack

LEMMA HandlerReady ==
  ASSUME NEW fast, NEW nat, NEW g, NEW N, NEW t, NEW f, NEW n, NEW b, NEW base, NEW kind, NEW c, NEW w, NEW e, NEW z,
         NEW nat0, NEW g0, NEW N0, NEW x,
         nat \in Seq(Element), g \in Seq(Note), Stack(fast, nat, g), Len(nat) = N, N > 1, f \in Seq(FrameType),
         n \in Nat, b \in Nat, base \in Nat, Handles(fast, t, f, n, b, base, nat, g, N), x = g[N],
         c \in Element, c.fn = "callerrfunc", c.L = t, w \in Note,
         e \in Element, e.fn = "luaD_callny", e.L = t, z \in Note, Erring(x, w, z, Len(f), n, base),
         nat0 = Append(nat, c), g0 = Append(g, w), N0 = N + 1
  PROVE  Ready(fast, t, kind, f, n, b, base, FALSE, nat0, g0, N0, e, z)
<1>0. /\ w.h = Len(f) /\ w.c = x.c /\ w.b = x.b
      /\ z.h = Len(f) /\ z.y = w.y /\ z.c = x.c + 1 /\ z.b = x.b /\ n + 1 = base + z.y
  BY DEF Erring
<1>1. /\ N \in Nat /\ Len(g) = N /\ x \in Note /\ nat[N].L = t /\ Handling(nat[N]) /\ x.h <= Len(f)
      /\ nat[N].fn # "C"
  BY TopIs DEF Handles, Handling
<1>2. /\ nat0 \in Seq(Element) /\ g0 \in Seq(Note) /\ Len(nat0) = N0 /\ Len(g0) = N0
      /\ Agree(nat, g, nat0, g0, N) /\ nat0[N0] = c /\ g0[N0] = w
  BY <1>1, PushIs
<1>3. Stack(fast, nat0, g0)
  <2>1. Handling(nat[N]) /\ c.L = nat[N].L /\ g[N].h <= w.h /\ w.c = g[N].c /\ w.b = g[N].b
    BY <1>0, <1>1
  <2>2. Stack(fast, Append(nat, c), Append(g, w))
    BY <2>1, HandlerStack
  <2> QED BY <2>2
<1>4. Known(t, f, nat0, g0, N0, "none")
  <2>1. Known(t, f, nat, g, Len(nat), c.fn)
    BY DEF Handles
  <2>2. w.h <= Len(f)
    BY <1>0, FrameIs
  <2>3. Knows(f, nat[Len(nat)], g[Len(nat)], c, w, "none")
    BY <2>2 DEF Knows, Beginning
  <2>4. Known(t, f, Append(nat, c), Append(g, w), Len(nat) + 1, "none")
    <3>1. Len(g) = Len(nat) /\ Len(nat) > 0
      BY <1>1
    <3>2. c.L = t => Knows(f, nat[Len(nat)], g[Len(nat)], c, w, "none")
      BY <2>3
    <3> QED BY <2>1, <3>1, <3>2, KnownPush
  <2> QED BY <1>1, <2>4
<1>5. Marks(fast, t, f, nat0, g0)
  <2>1. Marks(fast, t, f, nat, g) /\ c.fn # "luaD_pcall"
    BY DEF Handles
  <2> QED BY <1>1, <2>1, MarksPush
<1>6. ASSUME NEW k \in DOMAIN f, Bad(f, k) \/ (k = Len(f) /\ f[k].kind = "c")
      PROVE  Excused(t, f, k, nat0, g0, FALSE)
  <2>1. Excused(t, f, k, nat, g, FALSE)
    BY <1>6 DEF Handles, AllExcused
  <2>2. Unneeded(t, f, k, nat, g, N)
    BY <1>1 DEF Unneeded
  <2> QED BY <1>1, <1>2, <2>1, <2>2, ExcusedOn
<1>7. x.c \in Nat /\ x.b \in Nat /\ w.y \in Nat /\ n >= x.c /\ b >= x.b /\ base >= x.b /\ n >= b /\ n >= base
  BY <1>1, NoteIs DEF Handles
<1>8. n + 1 >= z.c /\ base >= z.b /\ n + 1 >= g0[N0].c /\ b >= g0[N0].b /\ n + 1 >= b
  <2>1. n + 1 >= x.c + 1 /\ n + 1 >= x.c /\ n + 1 >= b
    BY <1>7
  <2> QED BY <1>0, <1>2, <1>7, <2>1
<1>9. Atop(fast, c, w, e, z)
  <2>1. z.y > 0
    BY <1>0, <1>7
  <2> QED BY <1>0, <2>1 DEF Atop, Noted
<1>10. e.fn \in CallNames /\ FramesOK(fast, f) /\ ~Handling(c)
  BY DEF CallNames, Handles, Handling
<1> QED BY <1>0, <1>2, <1>3, <1>4, <1>5, <1>6, <1>8, <1>9, <1>10 DEF Ready

LEMMA MadeNative ==
  ASSUME NEW fn, NEW t, t \in Thread, fn \in {"C", "luau_execute", "luaD_callny", "callerrfunc"}
  PROVE  Native(fn, t) \in Element /\ Native(fn, t).fn = fn /\ Native(fn, t).L = t
<1>1. Native(fn, t) \in [fn : {"C", "luau_execute", "luaD_callny", "callerrfunc"}, L : Thread]
  BY DEF Native
<1> QED BY <1>1 DEF Element, Native

LEMMA HandlerCalls ==
  ASSUME NEW g, NEW t, NEW kind, NEW f, NEW base, NEW nat, NEW g1, NEW N, NEW c,
         g \in Seq(Note), Balanced(g), t \in Thread, kind \in Kind, Top.L = t, status[t] \in {"ok"}, base \in Nat,
         f \in Seq(FrameType), Moves(native, g, nat, g1, N, t), Stack(luauFastpcall, nat, g1), Len(nat) = N,
         Handles(luauFastpcall, t, f, nCcalls[t], baseCcalls[t], base, nat, g1, N), c = Native("callerrfunc", t),
         Counted(t, base, kind, f, Append(nat, c), Native("luaD_callny", t), FALSE), UNCHANGED luauFastpcall
  PROVE  CallInv'
<1>1. PICK n, b, H, x, e, nat0, N0 : /\ n = nCcalls[t] /\ b = baseCcalls[t] /\ H = Len(f) /\ x = g1[N]
                                     /\ e = Native("luaD_callny", t) /\ nat0 = Append(nat, c) /\ N0 = N + 1
  OBVIOUS
<1>2. n \in Nat /\ b \in Nat /\ H \in Nat /\ native \in Seq(Element)
  BY <1>1, FrameIs DEF Balanced, CallTypeOK
<1>3. nat \in Seq(Element) /\ g1 \in Seq(Note) /\ N > 1 /\ N \in Nat
  BY LenIs DEF Moves
<1>4. x \in Note /\ x.c \in Nat /\ x.b \in Nat /\ Len(g1) = N
  BY <1>1, <1>3, TopIs, NoteIs
<1>5. n >= base
  BY <1>1 DEF Handles
<1>6. PICK y : y = n + 1 - base
  OBVIOUS
<1>7. y \in Nat /\ n + 1 = base + y
  BY <1>2, <1>5, <1>6
<1>8. PICK w, z : /\ w = [h |-> H, y |-> y, c |-> x.c, b |-> x.b]
                  /\ z = [h |-> H, y |-> y, c |-> x.c + 1, b |-> x.b]
  OBVIOUS
<1>9. w \in Note /\ w.h = H /\ w.y = y /\ w.c = x.c /\ w.b = x.b
  BY <1>2, <1>4, <1>7, <1>8, MadeNote
<1>10. z \in Note /\ z.h = H /\ z.y = y /\ z.c = x.c + 1 /\ z.b = x.b
  <2>1. x.c + 1 \in Nat
    BY <1>4
  <2> QED BY <1>2, <1>4, <1>7, <1>8, <2>1, MadeNote
<1>11. c \in Element /\ c.fn = "callerrfunc" /\ c.L = t /\ e \in Element /\ e.fn = "luaD_callny" /\ e.L = t
  BY <1>1, MadeNative
<1>12. PICK g0 : g0 = Append(g1, w)
  OBVIOUS
<1>13. Stack(luauFastpcall, nat0, g0) /\ Ready(luauFastpcall, t, kind, f, n, b, base, FALSE, nat0, g0, N0, e, z)
  <2>1. Handles(luauFastpcall, t, f, n, b, base, nat, g1, N)
    BY <1>1
  <2>2. Erring(x, w, z, Len(f), n, base)
    BY <1>1, <1>7, <1>9, <1>10 DEF Erring
  <2>3. /\ nat \in Seq(Element) /\ g1 \in Seq(Note) /\ Stack(luauFastpcall, nat, g1) /\ Len(nat) = N /\ N > 1
        /\ f \in Seq(FrameType)
    BY <1>3
  <2>4. n \in Nat /\ b \in Nat /\ base \in Nat /\ x = g1[N] /\ nat0 = Append(nat, c) /\ g0 = Append(g1, w) /\ N0 = N + 1
    BY <1>1, <1>2, <1>12
  <2>5. c \in Element /\ c.fn = "callerrfunc" /\ c.L = t /\ w \in Note
    BY <1>9, <1>11
  <2>6. e \in Element /\ e.fn = "luaD_callny" /\ e.L = t /\ z \in Note
    BY <1>10, <1>11
  <2>7. Ready(luauFastpcall, t, kind, f, n, b, base, FALSE, nat0, g0, N0, e, z)
    BY <2>1, <2>2, <2>3, <2>4, <2>5, <2>6, HandlerReady
  <2>8. Stack(luauFastpcall, nat0, g0)
    <3>1. Handling(nat[N]) /\ nat[N].L = t /\ x.h <= H
      BY <1>1 DEF Handles
    <3>2. c.L = nat[N].L /\ g1[N].h <= w.h /\ w.c = g1[N].c /\ w.b = g1[N].b
      BY <1>1, <1>9, <1>11, <3>1
    <3>3. Stack(luauFastpcall, Append(nat, c), Append(g1, w))
      BY <2>3, <2>5, <3>1, <3>2, HandlerStack
    <3> QED BY <2>4, <3>3
  <2> QED BY <2>7, <2>8
<1>14. Len(nat0) = N0 /\ Moves(native, g, nat0, g0, N, t)
  <2>1. /\ nat0 \in Seq(Element) /\ g0 \in Seq(Note) /\ Len(nat0) = N + 1
        /\ \A i \in 1 .. N : nat0[i] = nat[i] /\ g0[i] = g1[i]
        /\ nat0[N + 1] = c
    BY <1>1, <1>3, <1>4, <1>9, <1>11, <1>12, PushIs
  <2>2. \A j \in (N + 1) .. (N + 1) : j = N + 1
    BY <1>3
  <2>3. Grows(nat, g1, N, nat0, g0, t)
    BY <1>3, <1>11, <2>1, <2>2 DEF Grows
  <2> QED BY <1>1, <1>2, <2>1, <2>3, MovesGrown
<1>15. Counted(t, base, kind, f, nat0, e, FALSE)
  BY <1>1
<1> QED BY <1>1, <1>13, <1>14, <1>15, CountedStep

\* Only the top of the stack is another, e with note z.
TopChanged(nat, g, nat1, g1, N, e, z) ==
    /\ nat1 \in Seq(Element) /\ g1 \in Seq(Note) /\ Len(nat1) = N /\ Len(g1) = N
    /\ \A i \in 1 .. (N - 1) : nat1[i] = nat[i] /\ g1[i] = g[i]
    /\ nat1[N] = e /\ g1[N] = z /\ e.fn = nat[N].fn /\ e.L = nat[N].L

LEMMA TopChangedIs ==
  ASSUME NEW fast, NEW nat, NEW g, NEW N, NEW e, NEW z,
         nat \in Seq(Element), g \in Seq(Note), Stack(fast, nat, g), Len(nat) = N, N > 1, e \in Element,
         z \in Note, e.fn = nat[N].fn, e.L = nat[N].L
  PROVE  TopChanged(nat, g, [nat EXCEPT ![N] = e], [g EXCEPT ![N] = z], N, e, z)
<1>1. N \in Nat /\ N \in 1 .. N /\ Len(g) = N
  BY TopIs
<1>2. /\ [nat EXCEPT ![N] = e] \in Seq(Element) /\ Len([nat EXCEPT ![N] = e]) = N
      /\ \A i \in 1 .. N : [nat EXCEPT ![N] = e][i] = IF i = N THEN e ELSE nat[i]
  BY <1>1, ExceptIs
<1>3. /\ [g EXCEPT ![N] = z] \in Seq(Note) /\ Len([g EXCEPT ![N] = z]) = N
      /\ \A i \in 1 .. N : [g EXCEPT ![N] = z][i] = IF i = N THEN z ELSE g[i]
  BY <1>1, ExceptIs
<1>4. \A i \in 1 .. (N - 1) : i \in 1 .. N /\ i # N
  BY <1>1
<1> QED BY <1>1, <1>2, <1>3, <1>4 DEF TopChanged

LEMMA TopMoves ==
  ASSUME NEW fast, NEW nat, NEW g, NEW N, NEW t, NEW nat1, NEW g1, NEW e, NEW z,
         nat \in Seq(Element), Len(nat) = N, N > 1, nat[N].L = t, TopChanged(nat, g, nat1, g1, N, e, z)
  PROVE  Moves(nat, g, nat1, g1, N, t)
<1>1. N \in Nat /\ N \in 1 .. N
  BY LenIs
<1>2. \A j \in N .. N : j = N
  BY <1>1
<1> QED BY <1>1, <1>2 DEF Moves, TopChanged

\* luaD_pcall calls its error function.
LEMMA PcallHandling ==
  ASSUME NEW fast, NEW nat, NEW g, NEW N, NEW t, NEW f, NEW nat1, NEW d,
         nat \in Seq(Element), g \in Seq(Note), Stack(fast, nat, g), Len(nat) = N, N > 1, nat[N].L = t,
         f \in Seq(FrameType), nat[N].fn = "luaD_pcall", ~Handling(nat[N]), Frames(fast, t, f, nat, g, "luaD_pcall"),
         Explained(t, f, nat, g, TRUE), Marks(fast, t, f, nat, g),
         TopChanged(nat, g, nat1, g, N, d, g[N]), Handling(d), d.frames = nat[N].frames
  PROVE  /\ g[N].h <= Len(f) /\ Known(t, f, nat1, g, N, "callerrfunc")
         /\ Marks(fast, t, f, nat1, g) /\ AllExcused(t, f, nat1, g)
<1>1. /\ N \in Nat /\ N \in 2 .. N /\ g[N] \in Note /\ g[N].h \in Nat /\ Len(nat1) = N /\ nat1[N] = d
      /\ d.fn = "luaD_pcall" /\ d.L = t /\ Len(f) \in Nat /\ DOMAIN f = 1 .. Len(f) /\ Len(g) = N
  BY TopIs, NoteIs, FrameIs DEF TopChanged
<1>2. \A i \in 2 .. N : i # N => nat1[i] = nat[i]
  <2>1. \A i \in 2 .. N : i # N => i \in 1 .. (N - 1)
    BY <1>1
  <2> QED BY <2>1 DEF TopChanged
<1>3. \A i \in 2 .. N : /\ nat1[i].fn = nat[i].fn /\ nat1[i].L = nat[i].L /\ nat1[i - 1] = nat[i - 1]
                        /\ (nat[i].fn = "luaD_pcall" => nat1[i].frames = nat[i].frames)
  <2>1. \A i \in 2 .. N : i - 1 \in 1 .. (N - 1)
    BY <1>1
  <2> QED BY <1>1, <1>2, <2>1 DEF TopChanged
<1>4. g[N].h <= Len(f) /\ Known(t, f, nat, g, N, "luaD_pcall")
  BY LowIs DEF Frames
<1>5. Known(t, f, nat1, g, N, "callerrfunc")
  <2>1. SUFFICES ASSUME NEW i \in 2 .. N, nat1[i].L = t
                 PROVE  Knows(f, nat1[i - 1], g[i - 1], nat1[i], g[i], IF i < N THEN nat1[i + 1].fn ELSE "callerrfunc")
    BY DEF Known
  <2>2. CASE i = N
    BY <1>1, <1>4, <2>2 DEF Knows, Beginning
  <2>3. CASE i # N
    <3>1. i < N /\ i + 1 \in 2 .. N
      BY <1>1, <2>3
    <3>2. Knows(f, nat[i - 1], g[i - 1], nat[i], g[i], nat[i + 1].fn)
      BY <1>3, <1>4, <2>1, <3>1 DEF Known
    <3>3. nat1[i - 1] = nat[i - 1] /\ nat1[i] = nat[i] /\ nat1[i + 1].fn = nat[i + 1].fn
      BY <1>2, <1>3, <2>3, <3>1
    <3> QED BY <3>1, <3>2, <3>3
  <2> QED BY <2>2, <2>3
<1>6. Marks(fast, t, f, nat1, g)
  <2>1. \A j \in 2 .. Len(nat1) : \A p : (nat[j].L = t /\ nat[j].fn = "luaD_pcall" /\ nat[j].frames = p) =>
            (nat1[j].L = t /\ nat1[j].fn = "luaD_pcall" /\ nat1[j].frames = p)
    BY <1>1, <1>3
  <2>2. \A i \in 2 .. N : \A j \in (i + 1) .. N : j \in 2 .. N
    BY <1>1
  <2>3. ASSUME NEW p \in DOMAIN f, f[p].handle /\ (\E k \in 1 .. (p - 1) : Bad(f, k))
        PROVE  \E j \in 2 .. Len(nat1) : nat1[j].L = t /\ nat1[j].fn = "luaD_pcall" /\ nat1[j].frames = p
    <3>1. \E j \in 2 .. N : nat[j].L = t /\ nat[j].fn = "luaD_pcall" /\ nat[j].frames = p
      BY <2>3 DEF Marks
    <3> QED BY <1>1, <2>1, <3>1
  <2>4. ASSUME ~fast, NEW i \in 2 .. Len(nat1), nat1[i].L = t, nat1[i].fn = "luaD_pcall",
               NEW p \in (g[i].h + 1) .. Len(f), f[p].handle
        PROVE  \E j \in (i + 1) .. Len(nat1) : nat1[j].L = t /\ nat1[j].fn = "luaD_pcall" /\ nat1[j].frames = p
    <3>1. i \in 2 .. N /\ nat[i].L = t /\ nat[i].fn = "luaD_pcall"
      BY <1>1, <1>3, <2>4
    <3>2. \E j \in (i + 1) .. N : nat[j].L = t /\ nat[j].fn = "luaD_pcall" /\ nat[j].frames = p
      BY <2>4, <3>1 DEF Marks
    <3> QED BY <1>1, <2>1, <2>2, <3>1, <3>2
  <2> QED BY <2>3, <2>4 DEF Marks
<1>7. ASSUME NEW k \in DOMAIN f, Bad(f, k) \/ (k = Len(f) /\ f[k].kind = "c")
      PROVE  Excused(t, f, k, nat1, g, FALSE)
  <2>1. CASE g[N].h <= k
    BY <1>1, <2>1 DEF Excused, Failed
  <2>2. CASE ~(g[N].h <= k)
    <3>1. Bad(f, k)
      BY <1>1, <1>4, <1>7, <2>2
    <3>2. CASE Calls(t, f, k, nat)
      <4>1. PICK j \in 2 .. N : /\ nat[j].L = t /\ nat[j].frames = k
                                /\ \/ nat[j].fn = "luaD_performcally"
                                   \/ nat[j].fn = "luaD_callint" /\ ~nat[j].from /\ f[k].kind # "lua"
        BY <3>2 DEF Calls
      <4>2. j # N
        BY <4>1
      <4>3. nat1[j] = nat[j]
        BY <1>2, <4>2
      <4> QED BY <1>1, <4>1, <4>3 DEF Excused, Calls
    <3>3. CASE Failed(t, k, nat, g, TRUE)
      <4>1. PICK j \in 2 .. N : /\ nat[j].L = t /\ g[j].h <= k
                                /\ Handling(nat[j]) \/ (Protects(nat[j]) /\ \A m \in (j + 1) .. N : ~Protects(nat[m]))
        BY <3>3 DEF Failed
      <4>2. j # N
        BY <2>2, <4>1
      <4>3. N \in (j + 1) .. N /\ Protects(nat[N])
        BY <1>1, <4>2 DEF Protects
      <4>4. Handling(nat1[j]) /\ nat1[j].L = t
        BY <1>2, <4>1, <4>2, <4>3
      <4> QED BY <1>1, <4>1, <4>4 DEF Excused, Failed
    <3> QED BY <3>1, <3>2, <3>3 DEF Explained
  <2> QED BY <2>1, <2>2
<1> QED BY <1>4, <1>5, <1>6, <1>7 DEF AllExcused

LEMMA PcallHandlesStep ==
  ASSUME NEW g, NEW t, NEW kind, g \in Seq(Note), Balanced(g), t \in Thread, kind \in Kind, PcallHandles(t, kind),
         UNCHANGED luauFastpcall
  PROVE  CallInv'
<1>1. signal = "throw" /\ Top.fn = "luaD_pcall" /\ Top.L = t /\ Top.errfunc
  BY DEF PcallHandles
<1>2. PICK nat, N, f, n, b, st : At(g, nat, N, t, f, n, b, st)
  BY <1>1, AboveHost
<1>3. native = nat /\ Top = nat[N] /\ status[t] = st /\ ci[t] = f /\ nCcalls[t] = n /\ baseCcalls[t] = b
  BY <1>2, AtSame
<1>4. /\ Stack(luauFastpcall, nat, g) /\ nat \in Seq(Element) /\ g \in Seq(Note) /\ Len(nat) = N /\ N > 1
      /\ f \in Seq(FrameType) /\ nat[N].L = t /\ N \in Nat /\ n \in Nat /\ b \in Nat /\ Len(g) = N
  BY <1>2, AtStack
<1>5. /\ Thrown(g[N], n, b, st) /\ ~Handling(nat[N]) /\ FramesOK(luauFastpcall, f)
      /\ Frames(luauFastpcall, t, f, nat, g, "luaD_pcall") /\ Explained(t, f, nat, g, TRUE)
      /\ Marks(luauFastpcall, t, f, nat, g)
  BY <1>1, <1>2, TopThrows
<1>6. /\ Atop(luauFastpcall, nat[N - 1], g[N - 1], nat[N], g[N]) /\ nat[N] \in Element /\ g[N] \in Note
      /\ nat[N].fn = "luaD_pcall"
  BY <1>1, <1>2, <1>3, AtTop
<1>7. PICK d, nat1 : d = [nat[N] EXCEPT !.errfunc = FALSE, !.handling = TRUE] /\ nat1 = [nat EXCEPT ![N] = d]
  OBVIOUS
<1>8. /\ d \in Element /\ d.fn = nat[N].fn /\ d.L = nat[N].L /\ d.frames = nat[N].frames /\ Handling(d)
      /\ d.nCcalls = nat[N].nCcalls /\ d.baseCcalls = nat[N].baseCcalls
  <2>1. nat[N] \in [fn : {"luaD_pcall"}, L : Thread, nCcalls : Nat, baseCcalls : Nat, frames : Nat,
                    errfunc : BOOLEAN, handling : BOOLEAN]
    BY <1>6 DEF Element
  <2>2. d \in [fn : {"luaD_pcall"}, L : Thread, nCcalls : Nat, baseCcalls : Nat, frames : Nat,
               errfunc : BOOLEAN, handling : BOOLEAN]
    BY <1>7, <2>1
  <2>3. d.fn = "luaD_pcall" /\ d.L = nat[N].L /\ d.frames = nat[N].frames /\ d.handling
        /\ d.nCcalls = nat[N].nCcalls /\ d.baseCcalls = nat[N].baseCcalls
    BY <1>7, <2>1
  <2> QED BY <1>6, <2>2, <2>3 DEF Element, Handling
<1>9. [g EXCEPT ![N] = g[N]] = g
  <2>1. g \in [1 .. N -> Note]
    BY <1>4
  <2> QED BY <2>1
<1>10. TopChanged(nat, g, nat1, g, N, d, g[N])
  <2>1. TopChanged(nat, g, [nat EXCEPT ![N] = d], [g EXCEPT ![N] = g[N]], N, d, g[N])
    BY <1>4, <1>6, <1>8, TopChangedIs
  <2> QED BY <1>7, <1>9, <2>1
<1>11. Stack(luauFastpcall, nat1, g)
  <2>1. Atop(luauFastpcall, nat[N - 1], g[N - 1], d, g[N])
    BY <1>6, <1>8 DEF Atop
  <2>2. d.fn = "luaD_callint" => d.from = nat[N].from
    BY <1>6, <1>8
  <2>3. Stack(luauFastpcall, [nat EXCEPT ![N] = d], [g EXCEPT ![N] = g[N]])
    BY <1>4, <1>6, <1>8, <2>1, <2>2, ReplaceStack
  <2> QED BY <1>7, <1>9, <2>3
<1>12. Moves(native, g, nat1, g, N, t)
  <2>1. Moves(nat, g, nat1, g, N, t)
    BY <1>4, <1>10, TopMoves
  <2> QED BY <1>3, <2>1
<1>13. Handles(luauFastpcall, t, f, n, b, b, nat1, g, N)
  <2>1. /\ g[N].h <= Len(f) /\ Known(t, f, nat1, g, N, "callerrfunc")
        /\ Marks(luauFastpcall, t, f, nat1, g) /\ AllExcused(t, f, nat1, g)
    BY <1>4, <1>5, <1>6, <1>8, <1>10, PcallHandling
  <2>2. nat1[N].L = t /\ Handling(nat1[N])
    BY <1>4, <1>8, <1>10 DEF TopChanged
  <2>3. n >= g[N].c /\ b >= g[N].b /\ n >= b
    BY <1>5 DEF Thrown
  <2> QED BY <1>5, <2>1, <2>2, <2>3 DEF Handles
<1>14. Len(nat1) = N
  BY <1>10 DEF TopChanged
<1>15. Counted(t, b, kind, f, Append(nat1, Native("callerrfunc", t)), Native("luaD_callny", t), FALSE)
  <2>1. Len(native) = N /\ native[N] = nat[N]
    BY <1>3, <1>4
  <2>2. CallErrFunc(t, kind, nat1)
    BY <1>3, <1>7, <2>1 DEF PcallHandles
  <2> QED BY <1>3, <2>2 DEF CallErrFunc
<1>16. status[t] \in {"ok"} /\ Handles(luauFastpcall, t, f, nCcalls[t], baseCcalls[t], b, nat1, g, N)
  BY <1>3, <1>5, <1>13 DEF Thrown
<1> QED BY <1>1, <1>4, <1>11, <1>12, <1>14, <1>15, <1>16, HandlerCalls

-----------------------------------------------------------------------------
(* Errors that resume handles                                               *)

\* resume_findhandler: the last frame that has a mark
LEMMA HandlerIs ==
  ASSUME NEW t, NEW f, f \in Seq(FrameType), ci[t] = f, Handlers(t) # {}
  PROVE  /\ Handler(t) \in 1 .. Len(f) /\ f[Handler(t)].handle
         /\ \A p \in 1 .. Len(f) : f[p].handle => p <= Handler(t)
<1>1. Len(f) \in Nat /\ DOMAIN f = 1 .. Len(f)
  BY FrameIs
<1>2. Handlers(t) = {i \in 1 .. Len(f) : f[i].handle}
  BY <1>1 DEF Handlers
<1>3. \E m \in Handlers(t) : \A k \in Handlers(t) : k <= m
  BY <1>1, <1>2, Greatest
<1>4. Handler(t) \in Handlers(t) /\ \A k \in Handlers(t) : k <= Handler(t)
  BY <1>3 DEF Handler
<1> QED BY <1>2, <1>4

\* A thread that was just resumed has no other native frames.
LEMMA ResumeOnly ==
  ASSUME NEW fast, NEW nat, NEW g, NEW N, NEW t,
         nat \in Seq(Element), g \in Seq(Note), Stack(fast, nat, g), Len(nat) = N, N > 1, nat[N].L = t,
         nat[N].fn = "lua_resume"
  PROVE  \A i \in 2 .. N : nat[i].L = t => i = N
<1>1. N \in Nat /\ N \in 2 .. N
  BY TopIs
<1>2. \A k \in 2 .. (N - 1) : nat[k].L # t
  BY <1>1 DEF Stack, Fresh
<1>3. \A i \in 2 .. N : i # N => i \in 2 .. (N - 1)
  BY <1>1
<1> QED BY <1>2, <1>3

\* So nothing is bad below a frame that has a mark.
LEMMA UnmarkedBelow ==
  ASSUME NEW fast, NEW nat, NEW g, NEW N, NEW t, NEW f,
         nat \in Seq(Element), g \in Seq(Note), Stack(fast, nat, g), Len(nat) = N, N > 1, nat[N].L = t,
         nat[N].fn = "lua_resume", f \in Seq(FrameType), Marks(fast, t, f, nat, g)
  PROVE  \A p \in 1 .. Len(f) : f[p].handle => \A k \in 1 .. (p - 1) : ~Bad(f, k)
<1>1. \A i \in 2 .. N : nat[i].L = t => nat[i].fn # "luaD_pcall"
  BY ResumeOnly
<1>2. DOMAIN f = 1 .. Len(f)
  BY FrameIs
<1> QED BY <1>1, <1>2 DEF Marks

\* The error function of a protected call that was continued by resume is called.
LEMMA ResumeHandling ==
  ASSUME NEW fast, NEW nat, NEW g, NEW N, NEW t, NEW f, NEW f2, NEW nat1, NEW g1, NEW d, NEW z, NEW h, NEW r,
         nat \in Seq(Element), g \in Seq(Note), Stack(fast, nat, g), Len(nat) = N, N > 1, nat[N].L = t,
         nat[N].fn = "lua_resume", f \in Seq(FrameType), Marks(fast, t, f, nat, g), h \in 1 .. Len(f), f[h].handle,
         FramesOK(fast, f), Marked(fast, f, f2, h, r), r.kind = f[h].kind, ~r.handle,
         r.forcall = f[h].forcall, r.opyield = f[h].opyield,
         TopChanged(nat, g, nat1, g1, N, d, z), Handling(d), z.h = h
  PROVE  /\ Known(t, f2, nat1, g1, N, "callerrfunc")
         /\ Marks(fast, t, f2, nat1, g1) /\ AllExcused(t, f2, nat1, g1)
<1>1. /\ N \in Nat /\ N \in 2 .. N /\ Len(nat1) = N /\ nat1[N] = d /\ g1[N] = z
      /\ d.fn = "lua_resume" /\ d.L = t /\ Len(f) \in Nat /\ DOMAIN f = 1 .. Len(f) /\ Len(g1) = N
  BY TopIs, FrameIs DEF TopChanged
<1>2. /\ f2 \in Seq(FrameType) /\ Len(f2) = Len(f) /\ DOMAIN f2 = 1 .. Len(f) /\ f2[h] = r
      /\ \A k \in 1 .. Len(f) : k # h => f2[k] = f[k]
  BY <1>1 DEF Marked
<1>3. \A i \in 2 .. N : nat1[i].L = t => i = N
  <2>1. \A i \in 2 .. N : nat[i].L = t => i = N
    BY ResumeOnly
  <2>2. \A i \in 2 .. N : i # N => i \in 1 .. (N - 1)
    BY <1>1
  <2>3. \A i \in 2 .. N : i # N => nat1[i] = nat[i]
    BY <2>2 DEF TopChanged
  <2> QED BY <2>1, <2>3
<1>4. f[h].kind = "cont"
  BY <1>1 DEF FramesOK
<1>5. Known(t, f2, nat1, g1, N, "callerrfunc")
  <2>1. SUFFICES ASSUME NEW i \in 2 .. N, nat1[i].L = t
                 PROVE  Knows(f2, nat1[i - 1], g1[i - 1], nat1[i], g1[i], IF i < N THEN nat1[i + 1].fn ELSE "callerrfunc")
    BY DEF Known
  <2>2. i = N
    BY <1>3, <2>1
  <2>3. h <= Len(f2) /\ h > 0 /\ f2[h].kind = "cont" /\ ~f2[h].handle
    BY <1>1, <1>2, <1>4
  <2>4. Knows(f2, nat1[N - 1], g1[N - 1], d, z, "callerrfunc")
    BY <1>1, <2>3 DEF Knows, Beginning
  <2> QED BY <1>1, <2>2, <2>4
<1>6. \A k \in 1 .. Len(f) : Bad(f2, k) => Bad(f, k)
  BY <1>1, <1>2 DEF Bad
<1>7. \A p \in 1 .. Len(f) : f[p].handle => \A k \in 1 .. (p - 1) : ~Bad(f, k)
  BY UnmarkedBelow
<1>8. Marks(fast, t, f2, nat1, g1)
  <2>1. \A p \in 1 .. Len(f) : f2[p].handle => f[p].handle
    BY <1>2
  <2>2. \A p \in 1 .. Len(f) : \A k \in 1 .. (p - 1) : k \in 1 .. Len(f)
    BY <1>1
  <2>3. \A p \in 1 .. Len(f) : f2[p].handle => \A k \in 1 .. (p - 1) : ~Bad(f2, k)
    BY <1>6, <1>7, <2>1, <2>2
  <2>4. \A i \in 2 .. N : nat1[i].L = t => nat1[i].fn # "luaD_pcall"
    BY <1>1, <1>3
  <2> QED BY <1>1, <1>2, <2>3, <2>4 DEF Marks
<1>9. ASSUME NEW k \in DOMAIN f2, Bad(f2, k) \/ (k = Len(f2) /\ f2[k].kind = "c")
      PROVE  Excused(t, f2, k, nat1, g1, FALSE)
  <2>1. CASE z.h <= k
    BY <1>1, <2>1 DEF Excused, Failed
  <2>2. CASE ~(z.h <= k)
    <3>1. k \in 1 .. Len(f) /\ k \in 1 .. (h - 1) /\ k # Len(f)
      BY <1>1, <1>2, <2>2
    <3> QED BY <1>2, <1>6, <1>7, <1>9, <3>1
  <2> QED BY <2>1, <2>2
<1> QED BY <1>5, <1>8, <1>9 DEF AllExcused

LEMMA GrowsByOne ==
  ASSUME NEW nat, NEW g, NEW N, NEW e, NEW w, NEW t,
         nat \in Seq(Element), g \in Seq(Note), Len(nat) = N, Len(g) = N, e \in Element, w \in Note, e.L = t
  PROVE  Grows(nat, g, N, Append(nat, e), Append(g, w), t)
<1>1. N \in Nat
  BY LenIs
<1>2. /\ Append(nat, e) \in Seq(Element) /\ Append(g, w) \in Seq(Note)
      /\ Len(Append(nat, e)) = N + 1 /\ Append(nat, e)[N + 1] = e
  BY PushIs
<1>3. \A i \in 1 .. N : Append(nat, e)[i] = nat[i] /\ Append(g, w)[i] = g[i]
  BY PushIs
<1>4. \A j \in (N + 1) .. (N + 1) : j = N + 1
  BY <1>1
<1> QED BY <1>1, <1>2, <1>3, <1>4 DEF Grows

\* Something runs on a stack whose top has changed.
LEMMA RunStep ==
  ASSUME NEW g, NEW t, NEW nat1, NEW g1, NEW N, NEW e, NEW w, NEW f, NEW n, NEW b,
         g \in Seq(Note), Balanced(g), t \in Thread, Top.L = t, Moves(native, g, nat1, g1, N, t),
         Len(nat1) = N, Len(g1) = N, e \in Element, w \in Note, e.L = t, f \in Seq(FrameType), n \in Nat, b \in Nat,
         RunsNow(luauFastpcall, f, n, b, t, Append(nat1, e), Append(g1, w), N + 1),
         Becomes(t, f, n, b, "ok", Append(nat1, e), "run")
  PROVE  CallInv'
<1>1. /\ nat1 \in Seq(Element) /\ g1 \in Seq(Note) /\ native \in Seq(Element) /\ N \in Nat
  BY LenIs DEF Moves, Balanced, CallTypeOK
<1>2. Grows(nat1, g1, N, Append(nat1, e), Append(g1, w), t)
  BY <1>1, GrowsByOne
<1>3. Moves(native, g, Append(nat1, e), Append(g1, w), N, t)
  BY <1>1, <1>2, MovesGrown
<1>4. /\ Stack(luauFastpcall, Append(nat1, e), Append(g1, w))
      /\ OnTop(luauFastpcall, f, n, b, "ok", Append(nat1, e), Append(g1, w), "run")
  BY DEF RunsNow, OnTop
<1>5. "ok" \in Statuses /\ "run" \in {"run", "return", "throw"}
  BY DEF Statuses
<1> QED BY <1>3, <1>4, <1>5, MovesStep

\* The lua_resume on top goes on in another phase, with note z.
PhaseChanged(nat, N, d, c, phase, handler) ==
    /\ nat[N].fn = "lua_resume" /\ nat[N].nCcalls = c
    /\ d = [nat[N] EXCEPT !.phase = phase, !.handler = handler]

\* nat1, with notes g1, is nat with d on top.
Phased(fast, nat, g, nat1, g1, N, d, z, c, phase, handler) ==
    /\ d \in Element /\ z \in Note /\ d.fn = "lua_resume" /\ d.L = nat[N].L /\ d.nCcalls = c
    /\ d.phase = phase /\ d.handler = handler /\ c \in Nat
    /\ z.h = handler /\ z.y = 0 /\ z.c = c /\ z.b = c
    /\ Stack(fast, nat1, g1) /\ TopChanged(nat, g, nat1, g1, N, d, z)
    /\ g[N].c = c /\ g[N].b = c /\ g[N].y = 0

LEMMA PhaseIs ==
  ASSUME NEW fast, NEW nat, NEW g, NEW N, NEW d, NEW c, NEW phase, NEW handler, NEW z,
         nat \in Seq(Element), g \in Seq(Note), Stack(fast, nat, g), Len(nat) = N, N > 1,
         PhaseChanged(nat, N, d, c, phase, handler), phase \in Phases, handler \in Nat,
         phase # "handling" => handler = 0, z = [h |-> handler, y |-> 0, c |-> c, b |-> c]
  PROVE  Phased(fast, nat, g, [nat EXCEPT ![N] = d], [g EXCEPT ![N] = z], N, d, z, c, phase, handler)
<1>1. /\ N \in Nat /\ nat[N] \in Element /\ nat[N - 1] \in Element /\ g[N] \in Note /\ g[N - 1] \in Note
      /\ Atop(fast, nat[N - 1], g[N - 1], nat[N], g[N])
  BY TopIs
<1>2. nat[N] \in [fn : {"lua_resume"}, L : Thread, nCcalls : Nat, phase : Phases, handler : Nat]
  BY <1>1 DEF Element, PhaseChanged
<1>3. d \in [fn : {"lua_resume"}, L : Thread, nCcalls : Nat, phase : Phases, handler : Nat]
  BY <1>2 DEF PhaseChanged
<1>4. /\ d \in Element /\ d.fn = "lua_resume" /\ d.L = nat[N].L /\ d.nCcalls = c
      /\ d.phase = phase /\ d.handler = handler /\ c \in Nat
  BY <1>2, <1>3 DEF Element, PhaseChanged
<1>5. z \in Note /\ z.h = handler /\ z.y = 0 /\ z.c = c /\ z.b = c
  <2>1. 0 \in Nat
    OBVIOUS
  <2> QED BY <1>4, <2>1, MadeNote
<1>6. /\ nat[N - 1].fn = "C" /\ g[N - 1].c < c /\ g[N].c = c /\ g[N].b = c /\ g[N].y = 0
  BY <1>1 DEF Atop, Noted, PhaseChanged
<1>7. Atop(fast, nat[N - 1], g[N - 1], d, z)
  BY <1>4, <1>5, <1>6 DEF Atop, Noted
<1>8. d.fn = nat[N].fn /\ (d.fn = "luaD_callint" => d.from = nat[N].from)
  BY <1>4 DEF PhaseChanged
<1>9. Stack(fast, [nat EXCEPT ![N] = d], [g EXCEPT ![N] = z])
  BY <1>4, <1>5, <1>7, <1>8, ReplaceStack
<1>10. TopChanged(nat, g, [nat EXCEPT ![N] = d], [g EXCEPT ![N] = z], N, d, z)
  BY <1>4, <1>5, <1>8, TopChangedIs
<1> QED BY <1>4, <1>5, <1>6, <1>9, <1>10 DEF Phased

PhaseOnly(nat, N, d, c, phase) ==
    PhaseChanged(nat, N, d, c, phase, 0) /\ Phase(nat, phase) = [nat EXCEPT ![N] = d]

LEMMA PhaseOf ==
  ASSUME NEW fast, NEW nat, NEW g, NEW N, NEW phase, NEW d, NEW c,
         nat \in Seq(Element), g \in Seq(Note), Stack(fast, nat, g), Len(nat) = N, N > 1,
         nat[N].fn = "lua_resume", nat[N].phase # "handling",
         d = [nat[N] EXCEPT !.phase = phase], c = nat[N].nCcalls
  PROVE  PhaseOnly(nat, N, d, c, phase)
<1>1. nat[N] \in Element /\ Atop(fast, nat[N - 1], g[N - 1], nat[N], g[N]) /\ N \in Nat
  BY TopIs
<1>2. nat[N] \in [fn : {"lua_resume"}, L : Thread, nCcalls : Nat, phase : Phases, handler : Nat]
  BY <1>1 DEF Element
<1>3. nat[N].handler = 0
  BY <1>1 DEF Atop
<1>4. [nat[N] EXCEPT !.phase = phase] = [nat[N] EXCEPT !.phase = phase, !.handler = 0]
  BY <1>2, <1>3
<1>5. Phase(nat, phase) = [nat EXCEPT ![N] = d]
  BY DEF Phase
<1> QED BY <1>4, <1>5 DEF PhaseChanged, PhaseOnly

\* The frames f of a coroutine whose frame h handles an error
Handleable(f, h) ==
    /\ h \in 1 .. Len(f) /\ f[h].kind = "cont" /\ ~f[h].handle
    /\ \A k \in 1 .. (h - 1) : ~Bad(f, k)

\* Its continuation has the error.
LEMMA HandleRuns ==
  ASSUME NEW g, NEW nat, NEW N, NEW t, NEW f0, NEW n, NEW b, NEW st, NEW d, NEW c, NEW f, NEW h, NEW f2,
         At(g, nat, N, t, f0, n, b, st), PhaseChanged(nat, N, d, c, "handle", 0),
         f \in Seq(FrameType), FramesOK(luauFastpcall, f), Handleable(f, h), f2 = SubSeq(f, 1, h),
         Becomes(t, f2, c, c, "ok", Append([nat EXCEPT ![N] = d], Native("C", t)), "run")
  PROVE  CallInv'
<1>1. /\ Stack(luauFastpcall, nat, g) /\ nat \in Seq(Element) /\ g \in Seq(Note) /\ Len(nat) = N /\ N > 1
      /\ nat[N].L = t /\ N \in Nat /\ Len(g) = N /\ t \in Thread
  BY AtStack
<1>2. nat[N].fn = "lua_resume"
  BY DEF PhaseChanged
<1>3. PICK z, w, nat1, g1 : /\ z = [h |-> 0, y |-> 0, c |-> c, b |-> c]
                            /\ w = [h |-> h, y |-> 0, c |-> c, b |-> c]
                            /\ nat1 = [nat EXCEPT ![N] = d] /\ g1 = [g EXCEPT ![N] = z]
  OBVIOUS
<1>4. /\ d \in Element /\ z \in Note /\ d.fn = "lua_resume" /\ d.L = t /\ d.nCcalls = c
      /\ d.phase = "handle" /\ c \in Nat
      /\ z.h = 0 /\ z.y = 0 /\ z.c = c /\ z.b = c
      /\ Stack(luauFastpcall, nat1, g1) /\ TopChanged(nat, g, nat1, g1, N, d, z)
  <2>1. "handle" \in Phases /\ 0 \in Nat /\ "handle" # "handling"
    BY DEF Phases
  <2>2. Phased(luauFastpcall, nat, g, nat1, g1, N, d, z, c, "handle", 0)
    BY <1>1, <1>3, <2>1, PhaseIs
  <2> QED BY <1>1, <2>2 DEF Phased
<1>5. /\ nat1 \in Seq(Element) /\ g1 \in Seq(Note) /\ Len(nat1) = N /\ Len(g1) = N /\ nat1[N] = d /\ g1[N] = z
  BY <1>4 DEF TopChanged
<1>6. /\ f2 \in Seq(FrameType) /\ Len(f2) = h /\ FramesOK(luauFastpcall, f2) /\ h \in Nat /\ h > 0
      /\ \A k \in 1 .. h : f2[k] = f[k]
      /\ \A k \in 1 .. h : Bad(f2, k) => Bad(f, k)
      /\ DOMAIN f2 = 1 .. h
  <2>1. Len(f) \in Nat /\ h \in 1 .. Len(f)
    BY FrameIs DEF Handleable
  <2>2. h \in 0 .. Len(f) /\ h \in Nat /\ h > 0
    BY <2>1
  <2> QED BY <2>2, BadPrefix, FramesPrefix
<1>7. f2[h].kind = "cont" /\ ~f2[h].handle
  <2>1. h \in 1 .. h
    BY <1>6
  <2> QED BY <1>6, <2>1 DEF Handleable
<1>8. \A k \in 1 .. h : ~Bad(f2, k)
  <2>1. \A k \in 1 .. h : k = h \/ k \in 1 .. (h - 1)
    BY <1>6
  <2>2. ~Bad(f2, h)
    <3>1. f2[h] \in FrameType /\ ~(f2[h].forcall \/ f2[h].opyield)
      BY <1>6, <1>7, FrameIs DEF FramesOK
    <3>2. f2[h].forcall = FALSE /\ f2[h].opyield = FALSE
      BY <3>1 DEF FrameType
    <3> QED BY <1>7, <3>2 DEF Bad
  <2> QED BY <1>6, <2>1, <2>2 DEF Handleable
<1>9. \A i \in 2 .. N : nat1[i].L = t => i = N
  <2>1. nat1[N].L = t /\ nat1[N].fn = "lua_resume" /\ Stack(luauFastpcall, nat1, g1)
    BY <1>4, <1>5
  <2>2. nat1 \in Seq(Element) /\ g1 \in Seq(Note) /\ Len(nat1) = N /\ N > 1
    BY <1>1, <1>5
  <2> QED BY <2>1, <2>2, ResumeOnly
<1>10. Whole(luauFastpcall, t, f2, nat1, g1)
  <2>1. Known(t, f2, nat1, g1, N, "none")
    <3>1. SUFFICES ASSUME NEW i \in 2 .. N, nat1[i].L = t
                   PROVE  Knows(f2, nat1[i - 1], g1[i - 1], nat1[i], g1[i], IF i < N THEN nat1[i + 1].fn ELSE "none")
      BY DEF Known
    <3>2. i = N
      BY <1>9, <3>1
    <3>3. Knows(f2, nat1[N - 1], g1[N - 1], d, z, "none")
      BY <1>4, <1>6 DEF Knows, Beginning
    <3> QED BY <1>1, <1>5, <3>2, <3>3
  <2>2. Explained(t, f2, nat1, g1, FALSE)
    BY <1>6, <1>8 DEF Explained
  <2>3. Marks(luauFastpcall, t, f2, nat1, g1)
    <3>1. \A p \in 1 .. h : \A k \in 1 .. (p - 1) : ~Bad(f2, k)
      <4>1. \A p \in 1 .. h : \A k \in 1 .. (p - 1) : k \in 1 .. h
        BY <1>6
      <4> QED BY <1>8, <4>1
    <3>2. \A i \in 2 .. N : nat1[i].L = t => nat1[i].fn # "luaD_pcall"
      BY <1>4, <1>5, <1>9
    <3> QED BY <1>5, <1>6, <3>1, <3>2 DEF Marks
  <2> QED BY <1>5, <1>6, <2>1, <2>2, <2>3 DEF Whole, Frames
<1>11. w \in Note /\ w.h = h /\ w.y = 0 /\ w.c = c /\ w.b = c
  <2>1. 0 \in Nat
    OBVIOUS
  <2> QED BY <1>3, <1>4, <1>6, <2>1, MadeNote
<1>12. PICK e : e = Native("C", t) /\ e \in Element /\ e.fn = "C" /\ e.L = t
  BY <1>1, MadeNative
<1>13. RunsNow(luauFastpcall, f2, c, c, t, Append(nat1, e), Append(g1, w), N + 1)
  <2>1. Atop(luauFastpcall, nat1[N], g1[N], e, w)
    BY <1>4, <1>5, <1>6, <1>11, <1>12 DEF Atop, Noted
  <2>2. Knows(f2, nat1[N], g1[N], e, w, "none")
    BY <1>6, <1>7, <1>11, <1>12 DEF Knows, Beginning
  <2>3. Callee(f2, c, c, "C", w)
    BY <1>4, <1>6, <1>7, <1>11 DEF Callee
  <2>4. "C" \in {"C", "luau_execute"}
    OBVIOUS
  <2> QED BY <1>1, <1>4, <1>5, <1>6, <1>10, <1>11, <1>12, <2>1, <2>2, <2>3, <2>4, RunPush
<1>14. Moves(native, g, nat1, g1, N, t) /\ Top.L = t /\ Balanced(g)
  <2>1. Moves(nat, g, nat1, g1, N, t)
    BY <1>1, <1>4, TopMoves
  <2> QED BY <2>1 DEF At
<1> QED BY <1>1, <1>3, <1>4, <1>5, <1>6, <1>11, <1>12, <1>13, <1>14, RunStep

-----------------------------------------------------------------------------
(* A resume ends                                                            *)

\* What the frames of the thread that has resumed are is as before.
LEMMA ResumerWhole ==
  ASSUME NEW fast, NEW nat, NEW g, NEW N, NEW nat2, NEW g2, NEW u, NEW f,
         nat \in Seq(Element), g \in Seq(Note), Stack(fast, nat, g), Len(nat) = N, N > 2,
         Popped(nat, g, nat2, g2), nat[N].fn = "lua_resume", nat[N].L # u, ~Handling(nat[N]), f \in Seq(FrameType),
         Whole(fast, u, f, nat, g)
  PROVE  Whole(fast, u, f, nat2, g2)
<1>0. N \in Nat /\ N > 1 /\ N - 1 \in 2 .. N
  BY LenIs
<1>a. PICK K : K = N - 1
  OBVIOUS
<1>1. /\ nat2 \in Seq(Element) /\ g2 \in Seq(Note) /\ Len(nat2) = K /\ Len(g2) = K /\ N \in Nat /\ K > 1
      /\ N = K + 1 /\ K \in Nat /\ \A i \in 1 .. K : nat2[i] = nat[i] /\ g2[i] = g[i]
  <2>1. K \in 1 .. Len(nat) /\ Cut(nat, g, nat2, g2, K)
    BY <1>0, <1>a DEF Popped
  <2>2. /\ nat2 \in Seq(Element) /\ g2 \in Seq(Note) /\ Len(nat2) = K /\ Len(g2) = K
        /\ \A i \in 1 .. K : nat2[i] = nat[i] /\ g2[i] = g[i]
    BY <2>1, CutIs
  <2> QED BY <1>0, <1>a, <2>2
<1>2. FramesOK(fast, f) /\ Known(u, f, nat, g, N, "none") /\ Explained(u, f, nat, g, FALSE) /\ Marks(fast, u, f, nat, g)
  BY DEF Whole, Frames
<1>3. Known(u, f, nat2, g2, K, "none")
  <2>1. SUFFICES ASSUME NEW i \in 2 .. K, nat2[i].L = u
                 PROVE  Knows(f, nat2[i - 1], g2[i - 1], nat2[i], g2[i], IF i < K THEN nat2[i + 1].fn ELSE "none")
    BY DEF Known
  <2>2. i \in 2 .. N /\ i < N /\ i \in 1 .. K /\ i - 1 \in 1 .. K
    BY <1>1
  <2>3. Knows(f, nat[i - 1], g[i - 1], nat[i], g[i], nat[i + 1].fn)
    BY <1>1, <1>2, <2>1, <2>2 DEF Known
  <2>4. Knows(f, nat2[i - 1], g2[i - 1], nat2[i], g2[i], nat[i + 1].fn)
    BY <1>1, <2>2, <2>3
  <2>5. CASE i < K
    <3>1. i + 1 \in 1 .. K
      BY <1>1, <2>5
    <3> QED BY <1>1, <2>4, <2>5, <3>1
  <2>6. CASE ~(i < K)
    <3>1. i + 1 = N
      BY <1>1, <2>6
    <3>2. Knows(f, nat2[i - 1], g2[i - 1], nat2[i], g2[i], "lua_resume")
      BY <2>4, <3>1
    <3>3. Knows(f, nat2[i - 1], g2[i - 1], nat2[i], g2[i], "none")
      BY <3>2 DEF Knows
    <3> QED BY <2>6, <3>3
  <2> QED BY <2>5, <2>6
<1>4. Explained(u, f, nat2, g2, FALSE)
  <2>1. Left(u, f, f, nat, N)
    BY DEF Left, CalledFrom
  <2>2. nat \in Seq(Element) /\ g \in Seq(Note) /\ Len(nat) = N /\ N > 1
    BY <1>0
  <2> QED BY <1>2, <2>1, <2>2, PopExplained
<1>5. Marks(fast, u, f, nat2, g2)
  <2>1. LeftMarks(f, f, nat[N])
    BY DEF LeftMarks
  <2>2. nat \in Seq(Element) /\ g \in Seq(Note) /\ Len(nat) = N /\ N > 1
    BY <1>0
  <2> QED BY <1>2, <2>1, <2>2, PopMarks
<1> QED BY <1>1, <1>2, <1>3, <1>4, <1>5 DEF Whole, Frames

\* Thread u is on top when the lua_resume of thread t has ended.
LEMMA ResumerReturns ==
  ASSUME NEW g, NEW nat, NEW N, NEW t, NEW f, NEW n, NEW b, NEW st, NEW u, NEW nat2, NEW g2, NEW fu, NEW nu, NEW bu,
         At(g, nat, N, t, f, n, b, st), N > 2, nat[N].fn = "lua_resume", ~Handling(nat[N]),
         Popped(nat, g, nat2, g2), nat[N - 1].L = u, fu = ci[u], nu = nCcalls[u], bu = baseCcalls[u]
  PROVE  /\ u \in Thread /\ u # t /\ status[u] \in {"ok"} /\ nat[N - 1].fn = "C"
         /\ Returns(luauFastpcall, fu, nu, bu, nat2, g2)
<1>1. /\ Stack(luauFastpcall, nat, g) /\ nat \in Seq(Element) /\ g \in Seq(Note) /\ Len(nat) = N /\ N > 1
      /\ nat[N].L = t /\ N \in Nat /\ Len(g) = N /\ CallTypeOK
  BY AtStack DEF At, Balanced
<1>0. PICK K : K = N - 1
  OBVIOUS
<1>2. K \in 2 .. N /\ K \in 2 .. (N - 1) /\ N - 1 = K /\ K # N /\ K \in 1 .. K /\ K + 1 = N /\ K \in 1 .. N
  BY <1>0, <1>1
<1>3. nat[K].fn = "C" /\ nat[K] \in Element /\ g[K] \in Note
  <2>1. Atop(luauFastpcall, nat[N - 1], g[N - 1], nat[N], g[N]) /\ nat[N - 1] \in Element /\ g[N - 1] \in Note
    BY <1>1, TopIs
  <2> QED BY <1>2, <2>1 DEF Atop
<1>4. u \in Thread /\ u # t
  <2>1. \A i \in 2 .. N : nat[i].L = t => i = N
    BY <1>1, ResumeOnly
  <2> QED BY <1>2, <1>3, <2>1, ElementIs
<1>5. Rests(luauFastpcall, u, fu, nu, bu, status[u], nat, g)
  <2>1. u # Top.L /\ native = nat
    BY <1>4 DEF At
  <2> QED BY <1>1, <1>4, <2>1 DEF At, Balanced
<1>6. Waits(luauFastpcall, u, fu, nu, bu, status[u], nat, g, K)
  <2>1. nat[K].L = u /\ nat[K + 1].fn = "lua_resume"
    BY <1>2
  <2> QED BY <1>1, <1>2, <1>5, <2>1 DEF Rests
<1>7. fu \in Seq(FrameType)
  BY <1>1, <1>4 DEF CallTypeOK
<1>8. Whole(luauFastpcall, u, fu, nat2, g2)
  <2>1. Whole(luauFastpcall, u, fu, nat, g)
    BY <1>6 DEF Waits
  <2> QED BY <1>1, <1>4, <1>7, <2>1, ResumerWhole
<1>9. Len(nat2) = K /\ nat2[K] = nat[K] /\ g2[K] = g[K]
  <2>1. K \in 1 .. Len(nat) /\ Cut(nat, g, nat2, g2, K)
    BY <1>1, <1>2 DEF Popped
  <2>2. Len(nat2) = K /\ \A i \in 1 .. K : nat2[i] = nat[i] /\ g2[i] = g[i]
    <3>1. nat \in Seq(Element) /\ g \in Seq(Note) /\ Stack(luauFastpcall, nat, g)
      BY <1>1
    <3>2. /\ nat2 \in Seq(Element) /\ g2 \in Seq(Note) /\ Len(nat2) = K /\ Len(g2) = K
          /\ Stack(luauFastpcall, nat2, g2) /\ Agree(nat, g, nat2, g2, K)
          /\ \A i \in 1 .. K : nat2[i] = nat[i] /\ g2[i] = g[i]
      BY <2>1, <3>1, CutIs
    <3> QED BY <3>2
  <2> QED BY <1>2, <2>2
<1>10. Fits(nat2[K], g2[K], fu, nu, bu)
  BY <1>3, <1>6, <1>9 DEF Fits, Waits
<1>11. Returns(luauFastpcall, fu, nu, bu, nat2, g2)
  <2>1. Len(nat2) = K /\ K \in Nat /\ nat2[K].L = u
    BY <1>2, <1>9
  <2> QED BY <1>8, <1>10, <2>1, FitsIs
<1>12. status[u] \in {"ok"}
  BY <1>6 DEF Waits
<1> QED BY <1>2, <1>3, <1>4, <1>11, <1>12

\* The lua_resume on top has ended, for the thread that resumed t or for the host.
LEMMA FinishStep ==
  ASSUME NEW g, NEW nat, NEW N, NEW t, NEW f, NEW n, NEW b, NEW st, NEW m, NEW st2,
         At(g, nat, N, t, f, n, b, st), nat[N].fn = "lua_resume", ~Handling(nat[N]), m = nat[N].nCcalls - 1,
         st2 \in Statuses, st2 = "yield" => Suspended(luauFastpcall, f), Becomes(t, f, m, m, st2, Front(nat), "return")
  PROVE  CallInv'
<1>1. /\ Stack(luauFastpcall, nat, g) /\ nat \in Seq(Element) /\ g \in Seq(Note) /\ Len(nat) = N /\ N > 1
      /\ nat[N].L = t /\ N \in Nat /\ Len(g) = N /\ t \in Thread /\ f \in Seq(FrameType) /\ Balanced(g)
      /\ native = nat /\ Top.L = t /\ CallTypeOK
  BY AtStack DEF At, Balanced
<1>2. m \in Nat
  <2>1. nat[N] \in Element /\ g[N - 1] \in Note /\ Atop(luauFastpcall, nat[N - 1], g[N - 1], nat[N], g[N])
    BY <1>1, TopIs
  <2>2. nat[N].nCcalls \in Nat /\ g[N - 1].c \in Nat /\ g[N - 1].c < nat[N].nCcalls
    BY <2>1, ElementIs, NoteIs DEF Atop
  <2> QED BY <2>2
<1>3. CASE N = 2
  <2>1. "return" \in {"run", "return"} /\ Len(native) = 2 /\ Becomes(t, f, m, m, st2, Front(native), "return")
    BY <1>1, <1>3
  <2> QED BY <1>1, <1>2, <2>1, HostStep
<1>4. CASE N # 2
  <2>1. N > 2
    BY <1>1, <1>4
  <2>2. PICK nat2, g2 : nat2 = Front(nat) /\ g2 = Front(g)
    OBVIOUS
  <2>3. Popped(nat, g, nat2, g2)
    BY <1>1, <2>2, FrontPopped
  <2>4. PICK K : K = N - 1
    OBVIOUS
  <2>5. K \in 1 .. N /\ K \in 2 .. (N - 1) /\ K + 1 = N /\ K > 1 /\ K \in Nat /\ K \in 1 .. K
    BY <1>1, <2>1, <2>4
  <2>6. /\ nat2 \in Seq(Element) /\ g2 \in Seq(Note) /\ Len(nat2) = K /\ Len(g2) = K
        /\ Stack(luauFastpcall, nat2, g2)
        /\ \A i \in 1 .. K : nat2[i] = nat[i] /\ g2[i] = g[i]
    <3>1. nat \in Seq(Element) /\ g \in Seq(Note) /\ Stack(luauFastpcall, nat, g)
      BY <1>1
    <3>2. K \in 1 .. Len(nat) /\ Cut(nat, g, nat2, g2, K)
      BY <1>1, <2>3, <2>4, <2>5 DEF Popped
    <3>3. /\ nat2 \in Seq(Element) /\ g2 \in Seq(Note) /\ Len(nat2) = K /\ Len(g2) = K
          /\ Stack(luauFastpcall, nat2, g2) /\ Agree(nat, g, nat2, g2, K)
          /\ \A i \in 1 .. K : nat2[i] = nat[i] /\ g2[i] = g[i]
      BY <3>1, <3>2, CutIs
    <3> QED BY <3>3
  <2>7. PICK u, fu, nu, bu : u = nat[K].L /\ fu = ci[u] /\ nu = nCcalls[u] /\ bu = baseCcalls[u]
    OBVIOUS
  <2>8. /\ u \in Thread /\ u # t /\ status[u] \in {"ok"} /\ nat[K].fn = "C"
        /\ Returns(luauFastpcall, fu, nu, bu, nat2, g2)
    <3>1. nat[N - 1].L = u /\ fu = ci[u] /\ nu = nCcalls[u] /\ bu = baseCcalls[u]
      BY <2>4, <2>7
    <3>2. /\ u \in Thread /\ u # t /\ status[u] \in {"ok"} /\ nat[N - 1].fn = "C"
          /\ Returns(luauFastpcall, fu, nu, bu, nat2, g2)
      BY <2>1, <2>3, <3>1, ResumerReturns
    <3> QED BY <2>4, <3>2
  <2>9. Becomes(t, f, m, m, st2, nat2, "return") /\ nat2 # <<>>
    BY <2>2, <2>5, <2>6, NotEmpty
  <2>10. /\ CallTypeOK'
         /\ ci'[t] = f /\ nCcalls'[t] = m /\ baseCcalls'[t] = m /\ status'[t] = st2
         /\ \A v \in Thread : v # t => /\ ci'[v] = ci[v] /\ nCcalls'[v] = nCcalls[v]
                                       /\ baseCcalls'[v] = baseCcalls[v] /\ status'[v] = status[v]
    <3>1. "return" \in {"run", "return", "throw"}
      OBVIOUS
    <3> QED BY <1>1, <1>2, <2>6, <2>9, <3>1, BecomesIs
  <2>11. native' = nat2 /\ signal' = "return" /\ luauFastpcall' = luauFastpcall
    BY <2>9 DEF Becomes
  <2>12. Top'.L = u
    <3>1. Top' = nat2[Len(nat2)]
      BY <2>11 DEF Top, Last
    <3> QED BY <2>5, <2>6, <2>7, <3>1
  <2>13. (\A i \in 2 .. Len(nat2) : nat2[i].L # MainThread) => nCcalls'[MainThread] = baseCcalls'[MainThread]
    <3>1. CASE t = MainThread
      BY <2>10, <3>1
    <3>2. CASE t # MainThread
      <4>1. ASSUME \A i \in 2 .. K : nat2[i].L # MainThread
            PROVE  \A i \in 2 .. N : nat[i].L # MainThread
        <5>1. \A i \in 2 .. N : i = N \/ (i \in 2 .. K /\ i \in 1 .. K)
          BY <2>5
        <5> QED BY <1>1, <2>6, <3>2, <4>1, <5>1
      <4>2. MainThread \in Thread
        BY CallAssumption
      <4> QED BY <1>1, <2>6, <2>10, <3>2, <4>1, <4>2 DEF Balanced
    <3> QED BY <3>1, <3>2
  <2>14. OnTop(luauFastpcall, ci'[u], nCcalls'[u], baseCcalls'[u], status'[u], nat2, g2, "return")
    BY <2>7, <2>8, <2>10 DEF OnTop
  <2>15. ASSUME NEW v \in Thread, v # u
         PROVE  Rests(luauFastpcall, v, ci'[v], nCcalls'[v], baseCcalls'[v], status'[v], nat2, g2)
    <3>1. CASE v = t
      <4>1. \A i \in 2 .. K : nat2[i].L # t
        <5>1. \A i \in 2 .. N : nat[i].L = t => i = N
          BY <1>1, ResumeOnly
        <5>2. \A i \in 2 .. K : i \in 2 .. N /\ i # N /\ i \in 1 .. K
          BY <2>5
        <5> QED BY <2>6, <5>1, <5>2
      <4>2. \A i \in 2 .. (K - 1) : i \in 2 .. K
        BY <2>5
      <4> QED BY <2>6, <2>10, <3>1, <4>1, <4>2 DEF Rests
    <3>2. CASE v # t
      <4>1. Rests(luauFastpcall, v, ci[v], nCcalls[v], baseCcalls[v], status[v], nat, g)
        BY <1>1, <3>2 DEF Balanced
      <4>2. Beyond(nat, g, nat2, g2, K, v)
        <5>1. \A j \in K .. N : j = K \/ j = N
          BY <2>5
        <5>2. \A j \in K .. K : j = K
          BY <2>5
        <5>3. \A i \in 1 .. (K - 1) : i \in 1 .. K
          BY <2>5
        <5>4. nat2[K] = nat[K] /\ nat[K].L = u /\ nat[N].L = t /\ u # v /\ t # v
          BY <1>1, <2>5, <2>6, <2>7, <2>15, <3>2
        <5>5. \A i \in 1 .. (K - 1) : nat2[i] = nat[i] /\ g2[i] = g[i]
          BY <2>6, <5>3
        <5>6. (\A j \in K .. N : nat[j].L # v) /\ (\A j \in K .. K : nat2[j].L # v)
          BY <5>1, <5>2, <5>4
        <5>7. Len(nat) = N /\ Len(nat2) = K /\ K \in 1 .. N /\ K <= K
          BY <1>1, <2>5, <2>6
        <5> QED BY <5>4, <5>5, <5>6, <5>7 DEF Beyond
      <4>3. ci[v] \in Seq(FrameType)
        BY <1>1 DEF CallTypeOK
      <4>4. Rests(luauFastpcall, v, ci[v], nCcalls[v], baseCcalls[v], status[v], nat2, g2)
        BY <1>1, <2>6, <4>1, <4>2, <4>3, OthersRest
      <4> QED BY <2>10, <3>2, <4>4
    <3> QED BY <3>1, <3>2
  <2>16. Balanced(g2)'
    BY <2>5, <2>6, <2>10, <2>11, <2>12, <2>13, <2>14, <2>15 DEF Balanced
  <2> QED BY <2>6, <2>16 DEF CallInv
<1> QED BY <1>3, <1>4

\* A coroutine that has yielded can be continued.
LEMMA YieldedSuspended ==
  ASSUME NEW g, NEW nat, NEW N, NEW t, NEW f, NEW n, NEW b, NEW st,
         At(g, nat, N, t, f, n, b, st), signal = "return", st = "yield", nat[N].fn = "lua_resume"
  PROVE  Suspended(luauFastpcall, f)
<1>1. /\ Clear(nat, N) /\ ~Handling(nat[N])
      /\ Frames(luauFastpcall, t, f, nat, g, "luaD_pcall") /\ Explained(t, f, nat, g, FALSE)
      /\ Leaves(f, st) /\ FramesOK(luauFastpcall, f)
  BY TopYields
<1>2. /\ Stack(luauFastpcall, nat, g) /\ nat \in Seq(Element) /\ g \in Seq(Note) /\ Len(nat) = N /\ N > 1
      /\ nat[N].L = t /\ f \in Seq(FrameType)
  BY AtStack
<1>3. ASSUME NEW k \in DOMAIN f
      PROVE  ~Bad(f, k)
  <2>1. t = nat[N].L
    BY <1>2
  <2>2. BadCalls(f, k, nat, t)
    BY <1>1, <1>2, <1>3, <2>1, CalmFrames
  <2>3. \A i \in 2 .. N : nat[i].L = t => i = N
    BY <1>2, ResumeOnly
  <2> QED BY <1>2, <2>2, <2>3 DEF BadCalls
<1> QED BY <1>1, <1>3 DEF Suspended, Leaves

LEMMA ResumeEndsStep ==
  ASSUME NEW g, NEW t, g \in Seq(Note), Balanced(g), t \in Thread, ResumeEnds(t), UNCHANGED luauFastpcall
  PROVE  CallInv'
<1>1. signal = "return" /\ Top.fn = "lua_resume" /\ Top.L = t /\ Top.phase # "handling"
  BY DEF ResumeEnds, Returned
<1>2. PICK nat, N, f, n, b, st : At(g, nat, N, t, f, n, b, st)
  BY <1>1, AboveHost
<1>3. /\ [ci EXCEPT ![t] = f] = ci /\ native = nat /\ Top = nat[N] /\ status[t] = st
  BY <1>2, AtSame
<1>4. nat[N].fn = "lua_resume" /\ ~Handling(nat[N]) /\ st \in Statuses
  BY <1>1, <1>2, <1>3 DEF Handling, At
<1>5. st = "yield" => Suspended(luauFastpcall, f)
  BY <1>1, <1>2, <1>4, YieldedSuspended
<1>6. PICK m : m = nat[N].nCcalls - 1
  OBVIOUS
<1>7. Becomes(t, f, m, m, st, Front(nat), "return")
  BY <1>3, <1>6 DEF ResumeEnds, Finish, Becomes
<1> QED BY <1>2, <1>4, <1>5, <1>6, <1>7, FinishStep

\* No frame has a mark, and resume returns the error.
LEMMA ResumeErrors ==
  ASSUME NEW g, NEW nat, NEW N, NEW t, NEW f, NEW n, NEW b, NEW st, NEW kind,
         At(g, nat, N, t, f, n, b, st), ResumeFails(t, kind), Handlers(t) = {}, UNCHANGED luauFastpcall
  PROVE  CallInv'
<1>1. signal = "throw" /\ Top.fn = "lua_resume" /\ Finish(t, "error")
  BY DEF ResumeFails
<1>2. /\ [ci EXCEPT ![t] = f] = ci /\ native = nat /\ Top = nat[N]
  BY AtSame
<1>3. nat[N].fn = "lua_resume" /\ ~Handling(nat[N]) /\ "error" \in Statuses
  BY <1>1, <1>2, TopThrows DEF Statuses
<1>4. PICK m : m = nat[N].nCcalls - 1
  OBVIOUS
<1>5. Becomes(t, f, m, m, "error", Front(nat), "return")
  BY <1>1, <1>2, <1>4 DEF Finish, Becomes
<1> QED BY <1>3, <1>4, <1>5, FinishStep

\* A continuation has it.
LEMMA ResumeHandles ==
  ASSUME NEW g, NEW nat, NEW N, NEW t, NEW f, NEW n, NEW b, NEW st, NEW kind,
         At(g, nat, N, t, f, n, b, st), ResumeFails(t, kind), Handlers(t) # {}, ~f[Handler(t)].errfunc,
         UNCHANGED luauFastpcall
  PROVE  CallInv'
<1>1. signal = "throw" /\ Top.fn = "lua_resume"
  BY DEF ResumeFails
<1>2. native = nat /\ Top = nat[N] /\ ci[t] = f /\ status[t] = st /\ [status EXCEPT ![t] = st] = status
  BY AtSame
<1>3. /\ Stack(luauFastpcall, nat, g) /\ nat \in Seq(Element) /\ g \in Seq(Note) /\ Len(nat) = N /\ N > 1
      /\ nat[N].L = t /\ f \in Seq(FrameType) /\ N \in Nat
  BY AtStack
<1>4. /\ Thrown(g[N], n, b, st) /\ ~Handling(nat[N]) /\ FramesOK(luauFastpcall, f) /\ Marks(luauFastpcall, t, f, nat, g)
  BY <1>1, TopThrows
<1>5. PICK h, r, f1 : h = Handler(t) /\ r = [f[h] EXCEPT !.handle = FALSE] /\ f1 = [f EXCEPT ![h] = r]
  OBVIOUS
<1>6. h \in 1 .. Len(f) /\ f[h].handle
  BY <1>2, <1>3, <1>5, HandlerIs
<1>7. /\ r \in FrameType /\ r.kind = f[h].kind /\ r.return = f[h].return /\ ~r.handle /\ r.pcall = f[h].pcall
      /\ r.forcall = f[h].forcall /\ r.opyield = f[h].opyield /\ r.errfunc = f[h].errfunc
  <2>1. f[h] \in FrameType
    BY <1>3, <1>6, FrameIs
  <2> QED BY <1>5, <2>1 DEF FrameType
<1>8. f[h].kind = "cont" /\ ~f[h].forcall /\ ~f[h].opyield
  <2>1. DOMAIN f = 1 .. Len(f)
    BY <1>3, FrameIs
  <2> QED BY <1>4, <1>6, <2>1 DEF FramesOK
<1>9. Marked(luauFastpcall, f, f1, h, r)
  <2>1. r.handle \/ r.pcall => r.kind = "cont"
    BY <1>7, <1>8
  <2>2. (r.forcall \/ r.opyield => r.kind = "lua") /\ (luauFastpcall => r.forcall = r.opyield)
    <3>1. f[h] \in FrameType
      BY <1>3, <1>6, FrameIs
    <3>2. f[h].forcall = FALSE /\ f[h].opyield = FALSE
      BY <1>8, <3>1 DEF FrameType
    <3> QED BY <1>7, <3>2
  <2> QED BY <1>3, <1>4, <1>5, <1>6, <1>7, <2>1, <2>2, MarkedIs
<1>10. f1 \in Seq(FrameType) /\ FramesOK(luauFastpcall, f1) /\ Handleable(f1, h)
  <2>1. /\ f1 \in Seq(FrameType) /\ FramesOK(luauFastpcall, f1) /\ Len(f1) = Len(f) /\ f1[h] = r
        /\ \A k \in DOMAIN f1 : k # h => (Bad(f1, k) => Bad(f, k))
    BY <1>9 DEF Marked
  <2>2. \A k \in 1 .. (h - 1) : ~Bad(f, k)
    <3>1. \A p \in 1 .. Len(f) : f[p].handle => \A k \in 1 .. (p - 1) : ~Bad(f, k)
      BY <1>1, <1>2, <1>3, <1>4, UnmarkedBelow
    <3> QED BY <1>6, <3>1
  <2>3. \A k \in 1 .. (h - 1) : k \in DOMAIN f1 /\ k # h
    <3>1. DOMAIN f1 = 1 .. Len(f) /\ Len(f) \in Nat
      BY <1>3, <2>1, FrameIs
    <3> QED BY <1>6, <3>1
  <2> QED BY <1>6, <1>7, <1>8, <2>1, <2>2, <2>3 DEF Handleable
<1>11. PICK d, c : d = [nat[N] EXCEPT !.phase = "handle"] /\ c = nat[N].nCcalls
  OBVIOUS
<1>12. PhaseChanged(nat, N, d, c, "handle", 0) /\ Phase(nat, "handle") = [nat EXCEPT ![N] = d]
  <2>1. nat[N].fn = "lua_resume" /\ nat[N].phase # "handling"
    BY <1>1, <1>2, <1>4 DEF Handling
  <2>2. PhaseOnly(nat, N, d, c, "handle")
    BY <1>3, <1>11, <2>1, PhaseOf
  <2> QED BY <2>2 DEF PhaseOnly
<1>13. PICK f2 : f2 = SubSeq(f1, 1, h)
  OBVIOUS
<1>14. Handle(t, h, f1, [nat EXCEPT ![N] = d])
  <2>1. f1[h].errfunc = f[h].errfunc
    BY <1>7, <1>9 DEF Marked
  <2>2. f1 = [f EXCEPT ![h].handle = FALSE]
    BY <1>5
  <2> QED BY <1>2, <1>5, <1>12, <2>1, <2>2 DEF ResumeFails
<1>15. Becomes(t, f2, c, c, "ok", Append([nat EXCEPT ![N] = d], Native("C", t)), "run")
  <2>1. Last([nat EXCEPT ![N] = d]).nCcalls = c
    <3>1. Len([nat EXCEPT ![N] = d]) = N /\ [nat EXCEPT ![N] = d][N] = d
      BY <1>3
    <3>2. d.nCcalls = c
      <4>1. nat[N] \in Element
        BY <1>3, TopIs
      <4>2. nat[N] \in [fn : {"lua_resume"}, L : Thread, nCcalls : Nat, phase : Phases, handler : Nat]
        BY <1>1, <1>2, <4>1 DEF Element
      <4> QED BY <1>11, <4>2
    <3> QED BY <3>1, <3>2 DEF Last
  <2>2. st = "ok"
    BY <1>4 DEF Thrown
  <2> QED BY <1>2, <1>13, <1>14, <2>1, <2>2 DEF Handle, Becomes
<1> QED BY <1>10, <1>12, <1>13, <1>15, HandleRuns

\* The frame that handles the error loses its marks.
Unmarked(fast, f, f1, h, r) ==
    /\ Marked(fast, f, f1, h, r) /\ r.kind = f[h].kind /\ ~r.handle /\ r.forcall = f[h].forcall /\ r.opyield = f[h].opyield

LEMMA UnmarkedIs ==
  ASSUME NEW fast, NEW f, NEW h, NEW r, NEW f1,
         f \in Seq(FrameType), FramesOK(fast, f), h \in 1 .. Len(f), f[h].handle,
         r = [f[h] EXCEPT !.handle = FALSE, !.errfunc = FALSE], f1 = [f EXCEPT ![h] = r]
  PROVE  Unmarked(fast, f, f1, h, r)
<1>1. /\ r \in FrameType /\ r.kind = f[h].kind /\ r.return = f[h].return /\ ~r.handle /\ r.pcall = f[h].pcall
      /\ r.forcall = f[h].forcall /\ r.opyield = f[h].opyield
  <2>1. f[h] \in FrameType
    BY FrameIs
  <2> QED BY <2>1 DEF FrameType
<1>2. f[h].kind = "cont" /\ ~f[h].forcall /\ ~f[h].opyield
  <2>1. DOMAIN f = 1 .. Len(f)
    BY FrameIs
  <2> QED BY <2>1 DEF FramesOK
<1>3. r.handle \/ r.pcall => r.kind = "cont"
  BY <1>1, <1>2
<1>4. (r.forcall \/ r.opyield => r.kind = "lua") /\ (fast => r.forcall = r.opyield)
  <2>1. f[h] \in FrameType
    BY FrameIs
  <2>2. f[h].forcall = FALSE /\ f[h].opyield = FALSE
    BY <1>2, <2>1 DEF FrameType
  <2> QED BY <1>1, <2>2
<1>5. Marked(fast, f, f1, h, r)
  BY <1>1, <1>3, <1>4, MarkedIs
<1> QED BY <1>1, <1>5 DEF Unmarked

LEMMA TwoChanges ==
  ASSUME NEW f, NEW h, NEW r, f \in Seq(FrameType), h \in 1 .. Len(f),
         r = [f[h] EXCEPT !.handle = FALSE, !.errfunc = FALSE]
  PROVE  [[f EXCEPT ![h].handle = FALSE] EXCEPT ![h].errfunc = FALSE] = [f EXCEPT ![h] = r]
<1>1. DOMAIN f = 1 .. Len(f) /\ f[h] \in FrameType
  BY FrameIs
<1>2. [[f[h] EXCEPT !.handle = FALSE] EXCEPT !.errfunc = FALSE] = r
  BY <1>1 DEF FrameType
<1>3. [f EXCEPT ![h].handle = FALSE][h] = [f[h] EXCEPT !.handle = FALSE]
  BY <1>1
<1> QED BY <1>1, <1>2, <1>3

\* Element d is the top of nat in a phase and with a handler, and c is nat with the handler only.
PhaseAndHandler(nat, N, h, phase, d, c) ==
    /\ nat[N].fn = "lua_resume" /\ d = [nat[N] EXCEPT !.phase = phase, !.handler = h]
    /\ c = [nat EXCEPT ![N] = [nat[N] EXCEPT !.handler = h]]

LEMMA TwoPhases ==
  ASSUME NEW nat, NEW N, NEW h, NEW d, NEW c, NEW phase, nat \in Seq(Element), Len(nat) = N, N > 0,
         PhaseAndHandler(nat, N, h, phase, d, c)
  PROVE  Phase(c, phase) = [nat EXCEPT ![N] = d]
<1>1. DOMAIN nat = 1 .. N /\ N \in 1 .. N /\ nat[N] \in Element
  BY LenIs
<1>2. nat[N] \in [fn : {"lua_resume"}, L : Thread, nCcalls : Nat, phase : Phases, handler : Nat]
  BY <1>1 DEF Element, PhaseAndHandler
<1>3. d = [nat[N] EXCEPT !.phase = phase, !.handler = h] /\ c = [nat EXCEPT ![N] = [nat[N] EXCEPT !.handler = h]]
  BY DEF PhaseAndHandler
<1>4. c[N] = [nat[N] EXCEPT !.handler = h] /\ Len(c) = N /\ DOMAIN c = DOMAIN nat
  BY <1>1, <1>3
<1>5. [c[N] EXCEPT !.phase = phase] = d
  <2>1. PICK r : r = nat[N]
    OBVIOUS
  <2>2. r \in [fn : {"lua_resume"}, L : Thread, nCcalls : Nat, phase : Phases, handler : Nat]
    BY <1>2, <2>1
  <2>3. [[r EXCEPT !.handler = h] EXCEPT !.phase = phase] = [r EXCEPT !.phase = phase, !.handler = h]
    BY <2>2
  <2>4. d = [r EXCEPT !.phase = phase, !.handler = h] /\ c[N] = [r EXCEPT !.handler = h]
    BY <1>3, <1>4, <2>1
  <2> QED BY <2>3, <2>4
<1>6. [c EXCEPT ![N] = d] = [nat EXCEPT ![N] = d]
  BY <1>1, <1>3
<1> QED BY <1>4, <1>5, <1>6 DEF Phase

\* An error function has it first.
LEMMA ResumeErrFunc ==
  ASSUME NEW g, NEW nat, NEW N, NEW t, NEW f, NEW n, NEW b, NEW st, NEW kind,
         At(g, nat, N, t, f, n, b, st), ResumeFails(t, kind), Handlers(t) # {}, f[Handler(t)].errfunc,
         kind \in Kind, UNCHANGED luauFastpcall
  PROVE  CallInv'
<1>1. signal = "throw" /\ Top.fn = "lua_resume"
  BY DEF ResumeFails
<1>2. native = nat /\ Top = nat[N] /\ ci[t] = f /\ status[t] = st /\ nCcalls[t] = n /\ baseCcalls[t] = b /\ Top.L = t
  BY AtSame
<1>3. /\ Stack(luauFastpcall, nat, g) /\ nat \in Seq(Element) /\ g \in Seq(Note) /\ Len(nat) = N /\ N > 1
      /\ nat[N].L = t /\ f \in Seq(FrameType) /\ N \in Nat /\ t \in Thread /\ n \in Nat /\ b \in Nat
  BY AtStack
<1>4. /\ Thrown(g[N], n, b, st) /\ ~Handling(nat[N]) /\ FramesOK(luauFastpcall, f) /\ Marks(luauFastpcall, t, f, nat, g)
  BY <1>1, TopThrows
<1>5. PICK h, r, f1 : /\ h = Handler(t) /\ r = [f[h] EXCEPT !.handle = FALSE, !.errfunc = FALSE]
                      /\ f1 = [f EXCEPT ![h] = r]
  OBVIOUS
<1>6. h \in 1 .. Len(f) /\ f[h].handle /\ h \in Nat
  BY <1>2, <1>3, <1>5, HandlerIs
<1>7. Unmarked(luauFastpcall, f, f1, h, r)
  BY <1>3, <1>4, <1>5, <1>6, UnmarkedIs
<1>8. PICK d, c : d = [nat[N] EXCEPT !.phase = "handling", !.handler = h] /\ c = nat[N].nCcalls
  OBVIOUS
<1>9. PICK z, nat1, g1 : /\ z = [h |-> h, y |-> 0, c |-> c, b |-> c]
                         /\ nat1 = [nat EXCEPT ![N] = d] /\ g1 = [g EXCEPT ![N] = z]
  OBVIOUS
<1>10. Phased(luauFastpcall, nat, g, nat1, g1, N, d, z, c, "handling", h)
  <2>1. PhaseChanged(nat, N, d, c, "handling", h) /\ "handling" \in Phases
    BY <1>1, <1>2, <1>8 DEF PhaseChanged, Phases
  <2> QED BY <1>3, <1>6, <1>9, <2>1, PhaseIs
<1>11. /\ d.L = t /\ d.fn = "lua_resume" /\ Handling(d) /\ z.h = h /\ z.c = c /\ z.b = c /\ c \in Nat
       /\ Stack(luauFastpcall, nat1, g1) /\ TopChanged(nat, g, nat1, g1, N, d, z)
       /\ g[N].c = c /\ g[N].b = c
  BY <1>3, <1>10 DEF Phased, Handling
<1>12. Len(nat1) = N /\ nat1[N] = d /\ g1[N] = z
  BY <1>11 DEF TopChanged
<1>13. f1 \in Seq(FrameType) /\ Len(f1) = Len(f) /\ FramesOK(luauFastpcall, f1)
  BY <1>7 DEF Unmarked, Marked
<1>14. Handles(luauFastpcall, t, f1, n, b, c, nat1, g1, N)
  <2>1. /\ Known(t, f1, nat1, g1, N, "callerrfunc")
        /\ Marks(luauFastpcall, t, f1, nat1, g1) /\ AllExcused(t, f1, nat1, g1)
    <3>1. /\ Marked(luauFastpcall, f, f1, h, r) /\ r.kind = f[h].kind /\ ~r.handle
          /\ r.forcall = f[h].forcall /\ r.opyield = f[h].opyield
      BY <1>7 DEF Unmarked
    <3>2. nat[N].fn = "lua_resume"
      BY <1>1, <1>2
    <3> QED BY <1>3, <1>4, <1>6, <1>11, <3>1, <3>2, ResumeHandling
  <2>2. z.h <= Len(f1)
    BY <1>6, <1>11, <1>13
  <2>3. n >= c /\ b >= c /\ n >= b /\ c >= c
    BY <1>4, <1>11 DEF Thrown
  <2> QED BY <1>11, <1>12, <1>13, <2>1, <2>2, <2>3 DEF Handles
<1>15. Moves(native, g, nat1, g1, N, t)
  <2>1. Moves(nat, g, nat1, g1, N, t)
    BY <1>3, <1>11, TopMoves
  <2> QED BY <1>2, <2>1
<1>16. Counted(t, c, kind, f1, Append(nat1, Native("callerrfunc", t)), Native("luaD_callny", t), FALSE)
  <2>1. [[f EXCEPT ![h].handle = FALSE] EXCEPT ![h].errfunc = FALSE] = f1
    <3>1. f \in Seq(FrameType) /\ h \in 1 .. Len(f) /\ r = [f[h] EXCEPT !.handle = FALSE, !.errfunc = FALSE]
      BY <1>3, <1>5, <1>6
    <3>2. [[f EXCEPT ![h].handle = FALSE] EXCEPT ![h].errfunc = FALSE] = [f EXCEPT ![h] = r]
      BY <3>1, TwoChanges, ZenonT(30)
    <3> QED BY <1>5, <3>2
  <2>2. Phase([nat EXCEPT ![Len(nat)].handler = h], "handling") = nat1
    <3>1. nat \in Seq(Element) /\ Len(nat) = N /\ N > 0 /\ nat[N].fn = "lua_resume"
      BY <1>1, <1>2, <1>3
    <3>2. PICK a : a = [nat EXCEPT ![N] = [nat[N] EXCEPT !.handler = h]]
      OBVIOUS
    <3>3. PhaseAndHandler(nat, N, h, "handling", d, a)
      BY <1>8, <3>1, <3>2 DEF PhaseAndHandler
    <3>4. Phase(a, "handling") = nat1
      BY <1>9, <3>1, <3>3, TwoPhases
    <3>5. [nat EXCEPT ![Len(nat)].handler = h] = a
      BY <3>1, <3>2
    <3> QED BY <3>4, <3>5
  <2>3. [f EXCEPT ![h].handle = FALSE][h].errfunc
    <3>1. f[h] \in FrameType /\ DOMAIN f = 1 .. Len(f)
      BY <1>3, <1>6, FrameIs
    <3> QED BY <1>5, <1>6, <3>1 DEF FrameType
  <2> QED BY <1>2, <1>5, <1>8, <2>1, <2>2, <2>3 DEF ResumeFails
<1>17. status[t] \in {"ok"} /\ Handles(luauFastpcall, t, f1, nCcalls[t], baseCcalls[t], c, nat1, g1, N)
  BY <1>2, <1>4, <1>14 DEF Thrown
<1>18. Balanced(g)
  BY DEF At
<1> QED BY <1>2, <1>3, <1>11, <1>12, <1>13, <1>15, <1>16, <1>17, <1>18, HandlerCalls

LEMMA ResumeFailsStep ==
  ASSUME NEW g, NEW t, NEW kind, g \in Seq(Note), Balanced(g), t \in Thread, kind \in Kind, ResumeFails(t, kind),
         UNCHANGED luauFastpcall
  PROVE  CallInv'
<1>1. Top.fn = "lua_resume" /\ Top.L = t
  BY DEF ResumeFails
<1>2. PICK nat, N, f, n, b, st : At(g, nat, N, t, f, n, b, st)
  BY <1>1, AboveHost
<1>3. CASE Handlers(t) = {}
  BY <1>2, <1>3, ResumeErrors
<1>4. CASE Handlers(t) # {} /\ f[Handler(t)].errfunc
  BY <1>2, <1>4, ResumeErrFunc
<1>5. CASE Handlers(t) # {} /\ ~f[Handler(t)].errfunc
  BY <1>2, <1>5, ResumeHandles
<1> QED BY <1>3, <1>4, <1>5

\* The error function has returned.
LEMMA ResumeHandledStep ==
  ASSUME NEW g, NEW t, g \in Seq(Note), Balanced(g), t \in Thread, ResumeHandled(t), UNCHANGED luauFastpcall
  PROVE  CallInv'
<1>1. /\ signal = "return" /\ Top.fn = "lua_resume" /\ Top.L = t /\ Top.phase = "handling"
      /\ Handle(t, Top.handler, ci[t], Phase([native EXCEPT ![Len(native)].handler = 0], "handle"))
  BY DEF ResumeHandled, Returned
<1>2. PICK nat, N, f, n, b, st : At(g, nat, N, t, f, n, b, st)
  BY <1>1, AboveHost
<1>3. native = nat /\ Top = nat[N] /\ ci[t] = f /\ status[t] = st /\ [status EXCEPT ![t] = st] = status
  BY <1>2, AtSame
<1>4. /\ Stack(luauFastpcall, nat, g) /\ nat \in Seq(Element) /\ g \in Seq(Note) /\ Len(nat) = N /\ N > 1
      /\ nat[N].L = t /\ f \in Seq(FrameType) /\ N \in Nat
  BY <1>2, AtStack
<1>5. nat[N].fn = "lua_resume" /\ nat[N].phase = "handling" /\ Handling(nat[N])
  BY <1>1, <1>3 DEF Handling
<1>6. st = "ok"
  BY <1>1, <1>2, <1>5, TopYields
<1>7. /\ Frames(luauFastpcall, t, f, nat, g, "none") /\ Explained(t, f, nat, g, FALSE) /\ FramesOK(luauFastpcall, f)
  BY <1>1, <1>2, <1>6, TopReturns
<1>8. PICK h : h = nat[N].handler
  OBVIOUS
<1>9. g[N].h = h
  BY <1>2, <1>5, <1>8, AtTop DEF Atop, Noted
<1>10. h \in 1 .. Len(f) /\ f[h].kind = "cont" /\ ~f[h].handle
  <2>1. g[N].h <= Len(f) /\ g[N].h \in Nat /\ Knows(f, nat[N - 1], g[N - 1], nat[N], g[N], "none")
    BY <1>4, <1>7, LowIs
  <2>2. Len(f) \in Nat
    BY <1>4, FrameIs
  <2> QED BY <1>5, <1>9, <2>1, <2>2 DEF Knows
<1>11. \A i \in 2 .. N : nat[i].L = t => i = N
  <2>1. nat[N].fn = "lua_resume" /\ nat[N].L = t
    BY <1>4, <1>5
  <2>2. Stack(luauFastpcall, nat, g) /\ nat \in Seq(Element) /\ g \in Seq(Note) /\ Len(nat) = N /\ N > 1
    BY <1>4
  <2> QED BY <2>1, <2>2, ResumeOnly
<1>12. \A k \in 1 .. (h - 1) : ~Bad(f, k)
  <2>1. SUFFICES ASSUME NEW k \in 1 .. (h - 1), Bad(f, k) PROVE FALSE
    OBVIOUS
  <2>2. k \in DOMAIN f /\ k \in Nat /\ k < h /\ h \in Nat
    <3>1. DOMAIN f = 1 .. Len(f) /\ Len(f) \in Nat
      BY <1>4, FrameIs
    <3> QED BY <1>10, <3>1
  <2>3. ~Calls(t, f, k, nat)
    BY <1>4, <1>5, <1>11 DEF Calls
  <2>4. ~Failed(t, k, nat, g, FALSE)
    BY <1>4, <1>9, <1>11, <2>2 DEF Failed
  <2> QED BY <1>7, <2>1, <2>2, <2>3, <2>4 DEF Explained
<1>13. Handleable(f, h)
  BY <1>10, <1>12 DEF Handleable
<1>14. PICK d, c, a, f2 : /\ d = [nat[N] EXCEPT !.phase = "handle", !.handler = 0] /\ c = nat[N].nCcalls
                          /\ a = [nat EXCEPT ![N] = [nat[N] EXCEPT !.handler = 0]] /\ f2 = SubSeq(f, 1, h)
  OBVIOUS
<1>15. PhaseChanged(nat, N, d, c, "handle", 0)
  BY <1>5, <1>14 DEF PhaseChanged
<1>16. PICK nat1 : nat1 = [nat EXCEPT ![N] = d]
  OBVIOUS
<1>17. Phase(a, "handle") = nat1
  <2>1. nat \in Seq(Element) /\ Len(nat) = N /\ N > 0
    BY <1>4
  <2>2. PhaseAndHandler(nat, N, 0, "handle", d, a)
    BY <1>5, <1>14 DEF PhaseAndHandler
  <2> QED BY <1>16, <2>1, <2>2, TwoPhases
<1>18. [native EXCEPT ![Len(native)].handler = 0] = a
  BY <1>3, <1>4, <1>14
<1>19. Handle(t, h, f, nat1)
  BY <1>1, <1>3, <1>8, <1>17, <1>18
<1>20. Becomes(t, f2, c, c, "ok", Append([nat EXCEPT ![N] = d], Native("C", t)), "run")
  <2>1. Last(nat1).nCcalls = c
    <3>1. Len(nat1) = N /\ nat1[N] = d
      BY <1>4, <1>16
    <3>2. d.nCcalls = c
      <4>1. nat[N] \in Element
        BY <1>4, TopIs
      <4>2. nat[N] \in [fn : {"lua_resume"}, L : Thread, nCcalls : Nat, phase : Phases, handler : Nat]
        BY <1>5, <4>1 DEF Element
      <4> QED BY <1>14, <4>2
    <3> QED BY <3>1, <3>2 DEF Last
  <2> QED BY <1>3, <1>6, <1>14, <1>16, <1>19, <2>1 DEF Handle, Becomes
<1> QED BY <1>2, <1>4, <1>7, <1>13, <1>14, <1>15, <1>20, HandleRuns

-----------------------------------------------------------------------------
(* Calls of luau_execute                                                    *)

\* Frames f2 are f and others on top, that need nothing of the native stack.
FramesGrow(fast, f, f2) ==
    /\ f2 \in Seq(FrameType) /\ FramesOK(fast, f2) /\ Len(f) <= Len(f2)
    /\ \A k \in 1 .. Len(f) : f2[k] = f[k]
    /\ \A k \in 1 .. Len(f2) : Bad(f2, k) => k \in 1 .. Len(f) /\ Bad(f, k)
    /\ \A p \in 1 .. Len(f2) : f2[p].handle =>
          \/ p \in 1 .. Len(f) /\ f[p].handle
          \/ fast /\ \A k \in 1 .. Len(f2) : ~Bad(f2, k)

\* The note of the top is z.
Renoted(fast, t, f2, nat, g, g1, N, z) ==
    /\ Stack(fast, nat, g1) /\ Whole(fast, t, f2, nat, g1) /\ TopChanged(nat, g, nat, g1, N, nat[N], z)

LEMMA ExecGrows ==
  ASSUME NEW g, NEW nat, NEW N, NEW t, NEW f, NEW n, NEW b, NEW st, NEW f2, NEW z, NEW g1,
         At(g, nat, N, t, f, n, b, st), signal = "run", nat[N].fn = "luau_execute",
         FramesGrow(luauFastpcall, f, f2), z \in Note, Len(f) <= z.h, Noted(z, z.h, g[N].y, g[N].c, g[N].b),
         Knows(f2, nat[N - 1], g[N - 1], nat[N], z, "none"), g1 = [g EXCEPT ![N] = z]
  PROVE  Renoted(luauFastpcall, t, f2, nat, g, g1, N, z)
<1>1. /\ Stack(luauFastpcall, nat, g) /\ nat \in Seq(Element) /\ g \in Seq(Note) /\ Len(nat) = N /\ N > 1
      /\ nat[N].L = t /\ f \in Seq(FrameType) /\ N \in Nat
  BY AtStack
<1>2. /\ Level(g[N], f, n, b, st) /\ Whole(luauFastpcall, t, f, nat, g)
      /\ Frames(luauFastpcall, t, f, nat, g, "none") /\ Explained(t, f, nat, g, FALSE)
      /\ Marks(luauFastpcall, t, f, nat, g) /\ FramesOK(luauFastpcall, f)
  BY TopRuns
<1>3. /\ nat[N] \in Element /\ g[N] \in Note /\ g[N - 1] \in Note /\ Len(g) = N
      /\ Atop(luauFastpcall, nat[N - 1], g[N - 1], nat[N], g[N])
  BY <1>1, TopIs
<1>4. /\ g[N].h = Len(f) /\ Len(f) \in Nat /\ Len(f2) \in Nat /\ DOMAIN f = 1 .. Len(f) /\ DOMAIN f2 = 1 .. Len(f2)
      /\ f2 \in Seq(FrameType) /\ Len(f) <= Len(f2)
      /\ g[N - 1].h \in Nat /\ g[N - 1].h < Len(f) /\ z.h \in Nat
  <2>1. f2 \in Seq(FrameType) /\ Len(f) <= Len(f2)
    BY DEF FramesGrow
  <2>2. g[N - 1].h < g[N].h
    BY <1>3 DEF Atop
  <2> QED BY <1>1, <1>2, <1>3, <2>1, <2>2, FrameIs, NoteIs DEF Level
<1>5. Stack(luauFastpcall, nat, g1) /\ TopChanged(nat, g, nat, g1, N, nat[N], z)
  <2>1. Atop(luauFastpcall, nat[N - 1], g[N - 1], nat[N], z)
    BY <1>3, <1>4 DEF Atop, Noted
  <2>2. [nat EXCEPT ![N] = nat[N]] = nat
    BY <1>1
  <2>3. Stack(luauFastpcall, [nat EXCEPT ![N] = nat[N]], [g EXCEPT ![N] = z])
    BY <1>1, <1>3, <2>1, ReplaceStack
  <2>4. TopChanged(nat, g, [nat EXCEPT ![N] = nat[N]], [g EXCEPT ![N] = z], N, nat[N], z)
    BY <1>1, <1>3, TopChangedIs
  <2> QED BY <2>2, <2>3, <2>4
<1>6. /\ g1 \in Seq(Note) /\ Len(g1) = N /\ g1[N] = z
      /\ \A i \in 1 .. (N - 1) : g1[i] = g[i]
  BY <1>5 DEF TopChanged
<1>7. Known(t, f2, nat, g1, N, "none")
  <2>1. PICK H, fn, K : H = g[N - 1].h /\ fn = nat[N].fn /\ K = N - 1
    OBVIOUS
  <2>2. Known(t, f, nat, g, K, fn)
    <3>1. Known(t, f, nat, g, N, "none")
      BY <1>1, <1>2 DEF Frames
    <3> QED BY <1>1, <2>1, <3>1, KnownPop
  <2>3. Kept(f, f2, H)
    <3>1. \A k \in 1 .. H : f2[k] = f[k] /\ k \in 1 .. Len(f)
      BY <1>4, <2>1 DEF FramesGrow
    <3>2. f2[H + 1] = f[H + 1]
      <4>1. H + 1 \in 1 .. Len(f)
        BY <1>4, <2>1
      <4> QED BY <4>1 DEF FramesGrow
    <3>3. H < Len(f) /\ H <= Len(f) /\ H <= Len(f2) /\ H \in Nat
      BY <1>4, <2>1
    <3>4. f2[H + 1].return \/ ~f2[H + 1].return
      OBVIOUS
    <3> QED BY <3>1, <3>2, <3>3, <3>4 DEF Kept
  <2>4. K \in Nat /\ Agree(nat, g, nat, g1, K)
    BY <1>1, <1>6, <2>1 DEF Agree
  <2>5. \A i \in 2 .. K : nat[i].L = t => g[i].h <= H
    BY <1>1, <2>1, BelowHeight
  <2>6. fn # "luaD_pcall"
    BY <2>1
  <2>7. Known(t, f2, nat, g1, K, fn)
    BY <1>1, <1>4, <1>6, <2>2, <2>3, <2>4, <2>5, <2>6, KnownOn
  <2>8. Knows(f2, nat[N - 1], g1[N - 1], nat[N], g1[N], "none")
    <3>1. N - 1 \in 1 .. (N - 1)
      BY <1>1
    <3> QED BY <1>6, <3>1
  <2> QED BY <1>1, <2>1, <2>7, <2>8, KnownTop
<1>8. Explained(t, f2, nat, g1, FALSE)
  <2>1. SUFFICES ASSUME NEW k \in 1 .. Len(f2), Bad(f2, k)
                 PROVE  Calls(t, f2, k, nat) \/ Failed(t, k, nat, g1, FALSE)
    BY <1>4 DEF Explained
  <2>2. k \in DOMAIN f /\ Bad(f, k) /\ f2[k] = f[k]
    BY <1>4, <2>1 DEF FramesGrow
  <2>3. CASE Calls(t, f, k, nat)
    BY <2>2, <2>3 DEF Calls
  <2>4. CASE Failed(t, k, nat, g, FALSE)
    <3>1. PICK j \in 2 .. Len(nat) : nat[j].L = t /\ g[j].h <= k /\ Handling(nat[j])
      BY <2>4 DEF Failed
    <3>2. j \in 1 .. (N - 1)
      BY <1>1, <3>1 DEF Handling
    <3> QED BY <1>6, <3>1, <3>2 DEF Failed
  <2> QED BY <1>2, <2>2, <2>3, <2>4 DEF Explained
<1>9. Marks(luauFastpcall, t, f2, nat, g1)
  <2>1. ASSUME NEW p \in 1 .. Len(f2), f2[p].handle, NEW k \in 1 .. (p - 1), Bad(f2, k)
        PROVE  \E j \in 2 .. Len(nat) : nat[j].L = t /\ nat[j].fn = "luaD_pcall" /\ nat[j].frames = p
    <3>1. k \in 1 .. Len(f2)
      BY <1>4, <2>1
    <3>2. p \in DOMAIN f /\ f[p].handle /\ Bad(f, k)
      BY <1>4, <2>1, <3>1 DEF FramesGrow
    <3> QED BY <1>2, <2>1, <3>2 DEF Marks
  <2>2. ASSUME ~luauFastpcall, NEW i \in 2 .. Len(nat), nat[i].L = t, nat[i].fn = "luaD_pcall",
               NEW p \in (g1[i].h + 1) .. Len(f2), f2[p].handle
        PROVE  \E j \in (i + 1) .. Len(nat) : nat[j].L = t /\ nat[j].fn = "luaD_pcall" /\ nat[j].frames = p
    <3>1. i \in 1 .. (N - 1)
      BY <1>1, <2>2
    <3>2. g1[i] = g[i] /\ g[i].h \in Nat
      <4>1. i \in 1 .. Len(g)
        BY <1>1, <1>3, <3>1
      <4> QED BY <1>1, <1>6, <3>1, <4>1, LenIs, NoteIs
    <3>3. p \in 1 .. Len(f2)
      BY <1>4, <2>2, <3>2
    <3>4. p \in 1 .. Len(f) /\ f[p].handle
      BY <2>2, <3>3 DEF FramesGrow
    <3>5. p \in (g[i].h + 1) .. Len(f)
      BY <2>2, <3>2, <3>4
    <3> QED BY <1>2, <2>2, <3>4, <3>5 DEF Marks
  <2> QED BY <1>4, <2>1, <2>2 DEF Marks
<1>10. FramesOK(luauFastpcall, f2)
  BY DEF FramesGrow
<1> QED BY <1>1, <1>5, <1>7, <1>8, <1>9, <1>10 DEF Renoted, Whole, Frames

\* A Lua function on top of frames f2 is interpreted next.
LEMMA ExecRuns ==
  ASSUME NEW g, NEW nat, NEW N, NEW t, NEW f, NEW n, NEW b, NEW st, NEW f2, NEW z, NEW g1,
         At(g, nat, N, t, f, n, b, st), signal = "run", nat[N].fn = "luau_execute", f2 \in Seq(FrameType),
         Renoted(luauFastpcall, t, f2, nat, g, g1, N, z), Noted(z, z.h, g[N].y, g[N].c, g[N].b),
         Len(f2) = z.h, f2[z.h].kind = "lua", ~f2[z.h].handle, Becomes(t, f2, n, b, "ok", nat, "run")
  PROVE  CallInv'
<1>1. /\ nat \in Seq(Element) /\ Len(nat) = N /\ N > 1 /\ nat[N].L = t /\ N \in Nat /\ n \in Nat /\ b \in Nat
  BY AtStack
<1>2. Level(g[N], f, n, b, st)
  BY TopRuns
<1>3. /\ Stack(luauFastpcall, nat, g1) /\ Whole(luauFastpcall, t, f2, nat, g1)
      /\ TopChanged(nat, g, nat, g1, N, nat[N], z) /\ g1[N] = z
  BY DEF Renoted, TopChanged
<1>4. Moves(nat, g, nat, g1, N, t)
  BY <1>1, <1>3, TopMoves
<1>5. Runs(luauFastpcall, f2, n, b, "ok", nat, g1)
  <2>1. n >= z.c /\ b >= z.b /\ n = b + z.y
    BY <1>2 DEF Level, Noted
  <2> QED BY <1>1, <1>3, <2>1 DEF Runs
<1>6. OnTop(luauFastpcall, f2, n, b, "ok", nat, g1, "run") /\ "ok" \in Statuses
  BY <1>5 DEF OnTop, Statuses
<1> QED BY <1>1, <1>3, <1>4, <1>6, AtStep

\* Or a C function on top of them runs.
LEMMA ExecRunsC ==
  ASSUME NEW g, NEW nat, NEW N, NEW t, NEW f, NEW n, NEW b, NEW st, NEW f2, NEW z, NEW g1,
         At(g, nat, N, t, f, n, b, st), signal = "run", nat[N].fn = "luau_execute", f2 \in Seq(FrameType),
         Renoted(luauFastpcall, t, f2, nat, g, g1, N, z), Noted(z, z.h, g[N].y, g[N].c, g[N].b), z.h \in Nat,
         Len(f2) = z.h + 1, f2[z.h + 1].kind # "lua", ~f2[z.h + 1].handle,
         Becomes(t, f2, n, b, "ok", Append(nat, Native("C", t)), "run")
  PROVE  CallInv'
<1>1. /\ nat \in Seq(Element) /\ Len(nat) = N /\ N > 1 /\ nat[N].L = t /\ N \in Nat /\ n \in Nat /\ b \in Nat
      /\ t \in Thread
  BY AtStack
<1>2. Level(g[N], f, n, b, st) /\ g[N] \in Note
  BY TopRuns, AtTop
<1>3. /\ Stack(luauFastpcall, nat, g1) /\ Whole(luauFastpcall, t, f2, nat, g1)
      /\ TopChanged(nat, g, nat, g1, N, nat[N], z) /\ g1[N] = z /\ g1 \in Seq(Note) /\ Len(g1) = N
  BY DEF Renoted, TopChanged
<1>4. Moves(native, g, nat, g1, N, t)
  <2>1. Moves(nat, g, nat, g1, N, t)
    BY <1>1, <1>3, TopMoves
  <2> QED BY <2>1 DEF At
<1>5. PICK H, y, c, bb : H = z.h + 1 /\ y = g[N].y /\ c = g[N].c /\ bb = g[N].b
  OBVIOUS
<1>6. PICK w : w = [h |-> H, y |-> y, c |-> c, b |-> bb]
  OBVIOUS
<1>7. H \in Nat /\ y \in Nat /\ c \in Nat /\ bb \in Nat
  BY <1>2, <1>5, NoteIs
<1>8. w \in Note /\ w.h = H /\ w.y = y /\ w.c = c /\ w.b = bb
  BY <1>6, <1>7, MadeNote
<1>9. PICK e : e = Native("C", t) /\ e \in Element /\ e.fn = "C" /\ e.L = t
  BY <1>1, MadeNative
<1>10. RunsNow(luauFastpcall, f2, n, b, t, Append(nat, e), Append(g1, w), N + 1)
  <2>1. Atop(luauFastpcall, nat[N], g1[N], e, w)
    <3>1. nat[N].fn = "luau_execute" /\ e.fn = "C" /\ e.L = nat[N].L
      BY <1>1, <1>9
    <3>2. g1[N] = z /\ z.y = y /\ z.c = c /\ z.b = bb
      BY <1>3, <1>5 DEF Noted
    <3>3. z.h < w.h /\ w.h = z.h + 1
      BY <1>5, <1>7, <1>8
    <3>4. Noted(w, w.h, g1[N].y, g1[N].c, g1[N].b)
      BY <1>8, <3>2 DEF Noted
    <3> QED BY <3>1, <3>2, <3>3, <3>4 DEF Atop
  <2>2. Knows(f2, nat[N], g1[N], e, w, "none")
    BY <1>5, <1>7, <1>8, <1>9 DEF Knows, Beginning
  <2>3. Callee(f2, n, b, "C", w)
    BY <1>2, <1>5, <1>8 DEF Callee, Level
  <2>4. "C" \in {"C", "luau_execute"}
    OBVIOUS
  <2> QED BY <1>1, <1>3, <1>8, <1>9, <2>1, <2>2, <2>3, <2>4, RunPush
<1>11. Top.L = t /\ Balanced(g) /\ g \in Seq(Note)
  BY DEF At
<1> QED BY <1>1, <1>3, <1>4, <1>8, <1>9, <1>10, <1>11, RunStep

\* What luau_execute knows when a Lua function has called
LEMMA ExecKnows ==
  ASSUME NEW f, NEW f2, NEW d, NEW x, NEW e, NEW y, NEW z, NEW kind, NEW fn,
         f \in Seq(FrameType), x \in Note, y \in Note, z \in Note, e.fn = "luau_execute", Knows(f, d, x, e, y, fn),
         y.h = Len(f), y.h > 0, z.y = y.y, f[Len(f)].kind = "lua", Pushed(TRUE, f, Frame(kind), f2) \/ Pushed(FALSE, f, Frame(kind), f2),
         kind \in Kind, z.h = Len(f) \/ (kind = "lua" /\ z.h = Len(f) + 1)
  PROVE  Knows(f2, d, x, e, z, fn)
<1>1. /\ Len(f2) = Len(f) + 1 /\ f2[Len(f) + 1] = Frame(kind) /\ Len(f) \in Nat /\ Len(f) > 0
      /\ \A k \in 1 .. Len(f) : f2[k] = f[k]
  BY FrameIs DEF Pushed
<1>2. Frame(kind).kind = kind /\ ~Frame(kind).return
  BY NewFrame
<1>3. z.h \in Nat /\ z.h <= Len(f2) /\ x.h \in Nat
  BY <1>1, NoteIs
<1>4. f2[z.h].kind = "lua"
  BY <1>1, <1>2
<1>5. ASSUME d.fn # "resume_continue" \/ z.y > 0, NEW k \in (x.h + 1) .. z.h
      PROVE  f2[k].kind = "lua" /\ (f2[k].return => k = x.h + 1)
  <2>1. \A i \in (x.h + 1) .. Len(f) : f[i].kind = "lua" /\ (f[i].return => i = x.h + 1)
    BY <1>5 DEF Knows
  <2>2. CASE k <= Len(f)
    <3>1. k \in 1 .. Len(f) /\ k \in (x.h + 1) .. Len(f)
      BY <1>1, <1>3, <2>2
    <3> QED BY <1>1, <2>1, <3>1
  <2>3. CASE k > Len(f)
    <3>1. k = Len(f) + 1 /\ kind = "lua"
      BY <1>1, <1>3, <2>3
    <3> QED BY <1>1, <1>2, <3>1
  <2> QED BY <1>1, <1>3, <2>2, <2>3
<1> QED BY <1>3, <1>4, <1>5 DEF Knows, Beginning

LEMMA ExecCallStep ==
  ASSUME NEW g, NEW t, NEW kind, g \in Seq(Note), Balanced(g), t \in Thread, kind \in Kind, ExecCall(t, kind),
         UNCHANGED luauFastpcall
  PROVE  CallInv'
<1>1. signal = "run" /\ Top.fn = "luau_execute" /\ Top.L = t
  BY DEF ExecCall, Running
<1>2. PICK nat, N, f, n, b, st : At(g, nat, N, t, f, n, b, st)
  BY <1>1, AboveHost
<1>3. /\ native = nat /\ Top = nat[N] /\ ci[t] = f /\ status[t] = st /\ [status EXCEPT ![t] = st] = status
      /\ [nCcalls EXCEPT ![t] = n] = nCcalls /\ [baseCcalls EXCEPT ![t] = b] = baseCcalls
  BY <1>2, AtSame
<1>4. /\ nat \in Seq(Element) /\ g \in Seq(Note) /\ Len(nat) = N /\ N > 1
      /\ nat[N].L = t /\ f \in Seq(FrameType) /\ N \in Nat /\ Stack(luauFastpcall, nat, g)
  BY <1>2, AtStack
<1>5. nat[N].fn = "luau_execute"
  BY <1>1, <1>3
<1>6. /\ Level(g[N], f, n, b, st) /\ Frames(luauFastpcall, t, f, nat, g, "none") /\ FramesOK(luauFastpcall, f)
      /\ f[Len(f)].kind = "lua"
  BY <1>1, <1>2, <1>5, TopRuns
<1>7. PICK f2 : f2 = Append(f, Frame(kind))
  OBVIOUS
<1>8. /\ Frame(kind) \in FrameType /\ Frame(kind).kind = kind
      /\ ~Frame(kind).handle /\ ~Frame(kind).pcall /\ ~Frame(kind).forcall /\ ~Frame(kind).opyield
  BY NewFrame
<1>9. Pushed(luauFastpcall, f, Frame(kind), f2)
  <2>1. f # <<>>
    BY <1>6 DEF Level
  <2> QED BY <1>4, <1>6, <1>7, <1>8, <2>1, PushedIs
<1>10. /\ f2 \in Seq(FrameType) /\ Len(f2) = Len(f) + 1 /\ f2[Len(f) + 1] = Frame(kind) /\ Len(f) \in Nat
       /\ DOMAIN f2 = 1 .. (Len(f) + 1)
  BY <1>4, <1>9, FrameIs DEF Pushed
<1>11. FramesGrow(luauFastpcall, f, f2)
  <2>1. \A k \in 1 .. Len(f2) : Bad(f2, k) => k \in 1 .. Len(f) /\ Bad(f, k)
    <3>1. \A k \in DOMAIN f2 : Bad(f2, k) => k \in DOMAIN f /\ (Bad(f, k) \/ (k = Len(f) /\ f[k].kind = "c"))
      BY <1>9 DEF Pushed
    <3>2. DOMAIN f = 1 .. Len(f)
      BY <1>4, FrameIs
    <3> QED BY <1>6, <1>10, <3>1, <3>2
  <2>2. \A p \in 1 .. Len(f2) : f2[p].handle => p \in 1 .. Len(f) /\ f[p].handle
    <3>1. \A k \in 1 .. Len(f) : f2[k] = f[k]
      BY <1>9 DEF Pushed
    <3>2. \A p \in 1 .. Len(f2) : p \in 1 .. Len(f) \/ p = Len(f) + 1
      BY <1>10
    <3> QED BY <1>8, <1>10, <3>1, <3>2
  <2> QED BY <1>9, <1>10, <2>1, <2>2 DEF FramesGrow, Pushed
<1>12. PICK H, y, c, bb : H = (IF kind = "lua" THEN Len(f) + 1 ELSE Len(f)) /\ y = g[N].y /\ c = g[N].c /\ bb = g[N].b
  OBVIOUS
<1>13. g[N] \in Note /\ g[N].h = Len(f) /\ g[N].h > 0 /\ g[N - 1] \in Note
  BY <1>2, <1>6, AtTop DEF Level
<1>14. PICK z, g1 : z = [h |-> H, y |-> y, c |-> c, b |-> bb] /\ g1 = [g EXCEPT ![N] = z]
  OBVIOUS
<1>15. z \in Note /\ z.h = H /\ z.y = y /\ z.c = c /\ z.b = bb
  <2>1. H \in Nat /\ y \in Nat /\ c \in Nat /\ bb \in Nat
    BY <1>10, <1>12, <1>13, NoteIs
  <2> QED BY <1>14, <2>1, MadeNote
<1>16. Knows(f2, nat[N - 1], g[N - 1], nat[N], z, "none")
  <2>1. Knows(f, nat[N - 1], g[N - 1], nat[N], g[N], "none")
    BY <1>4, <1>6, LowIs
  <2>2. Pushed(TRUE, f, Frame(kind), f2) \/ Pushed(FALSE, f, Frame(kind), f2)
    <3>1. luauFastpcall \in BOOLEAN
      BY DEF Balanced, CallTypeOK
    <3> QED BY <1>9, <3>1
  <2>3. z.h = Len(f) \/ (kind = "lua" /\ z.h = Len(f) + 1)
    BY <1>12, <1>15
  <2>4. z.y = g[N].y
    BY <1>12, <1>15
  <2> QED BY <1>4, <1>5, <1>6, <1>13, <1>15, <2>1, <2>2, <2>3, <2>4, ExecKnows
<1>17. Noted(z, z.h, g[N].y, g[N].c, g[N].b)
  BY <1>12, <1>15 DEF Noted
<1>18. Renoted(luauFastpcall, t, f2, nat, g, g1, N, z)
  <2>1. Len(f) <= z.h
    BY <1>10, <1>12, <1>15
  <2> QED BY <1>1, <1>2, <1>5, <1>11, <1>14, <1>15, <1>16, <1>17, <2>1, ExecGrows
<1>19. st = "ok"
  BY <1>6 DEF Level
<1>20. CASE kind = "lua"
  <2>1. Becomes(t, f2, n, b, "ok", nat, "run")
    BY <1>1, <1>3, <1>7, <1>19, <1>20 DEF ExecCall, Becomes, countVars
  <2>2. Len(f2) = z.h /\ f2[z.h].kind = "lua" /\ ~f2[z.h].handle
    BY <1>8, <1>10, <1>12, <1>15, <1>20
  <2> QED BY <1>1, <1>2, <1>5, <1>10, <1>17, <1>18, <2>1, <2>2, ExecRuns
<1>21. CASE kind # "lua"
  <2>1. Becomes(t, f2, n, b, "ok", Append(nat, Native("C", t)), "run")
    BY <1>1, <1>3, <1>7, <1>19, <1>21 DEF ExecCall, Becomes, countVars
  <2>2. z.h \in Nat /\ Len(f2) = z.h + 1 /\ f2[z.h + 1].kind # "lua" /\ ~f2[z.h + 1].handle
    BY <1>8, <1>10, <1>12, <1>15, <1>21
  <2> QED BY <1>1, <1>2, <1>5, <1>10, <1>17, <1>18, <2>1, <2>2, ExecRunsC
<1> QED BY <1>20, <1>21

\* FASTPCALL's frames
PcallFrame(ef) == [Frame("cont") EXCEPT !.handle = TRUE, !.errfunc = ef, !.pcall = TRUE]

FastFrames(fast, f, f2, P, R) ==
    /\ FramesGrow(fast, f, f2) /\ Len(f2) = Len(f) + 2 /\ f2[Len(f)] = f[Len(f)]
    /\ f2[Len(f) + 1] = P /\ f2[Len(f) + 2] = R

LEMMA PcallFrameIs ==
  ASSUME NEW ef, ef \in BOOLEAN
  PROVE  /\ PcallFrame(ef) \in FrameType /\ PcallFrame(ef).kind = "cont" /\ PcallFrame(ef).pcall
         /\ ~PcallFrame(ef).forcall /\ ~PcallFrame(ef).opyield
BY DEF PcallFrame, Frame, FrameType, Kind

LEMMA FastFramesIs ==
  ASSUME NEW f, NEW f2, NEW kind, NEW ef,
         f \in Seq(FrameType), FramesOK(TRUE, f), f # <<>>, f[Len(f)].kind = "lua", kind \in Kind, ef \in BOOLEAN,
         \A k \in DOMAIN f : ~Bad(f, k), f2 = f \o <<PcallFrame(ef), Return(kind)>>
  PROVE  FastFrames(TRUE, f, f2, PcallFrame(ef), Return(kind))
<1>1. PICK P, R : P = PcallFrame(ef) /\ R = Return(kind)
  OBVIOUS
<1>2. P \in FrameType /\ P.kind = "cont" /\ P.pcall /\ ~P.forcall /\ ~P.opyield
  BY <1>1, PcallFrameIs
<1>3. /\ R \in FrameType /\ R.kind = kind /\ (kind = "lua" => R.return)
      /\ ~R.handle /\ ~R.pcall /\ ~R.forcall /\ ~R.opyield
  BY <1>1, NewFrame
<1>4. PICK f1 : f1 = Append(f, P)
  OBVIOUS
<1>5. f2 = Append(f1, R)
  BY <1>1, <1>2, <1>3, <1>4, ConcatIs
<1>6. Pushed(TRUE, f, P, f1)
  BY <1>2, <1>4, PushedIs
<1>7. /\ f1 \in Seq(FrameType) /\ FramesOK(TRUE, f1) /\ Len(f1) = Len(f) + 1 /\ f1[Len(f) + 1] = P
      /\ \A k \in 1 .. Len(f) : f1[k] = f[k]
      /\ \A k \in DOMAIN f1 : ~Bad(f1, k)
      /\ DOMAIN f1 = 1 .. (Len(f) + 1) /\ Len(f) \in Nat /\ Len(f) > 0
  <2>1. Len(f) \in Nat /\ Len(f) > 0
    BY LenIs
  <2> QED BY <1>6, <2>1 DEF Pushed
<1>8. Pushed(TRUE, f1, R, f2)
  <2>1. R.kind = "lua" /\ ~R.return => f1 # <<>> /\ f1[Len(f1)].kind = "lua"
    BY <1>3
  <2>2. R.handle \/ R.pcall => R.kind = "cont"
    BY <1>3
  <2> QED BY <1>3, <1>5, <1>7, <2>1, <2>2, PushedIs
<1>9. /\ f2 \in Seq(FrameType) /\ FramesOK(TRUE, f2) /\ Len(f2) = Len(f1) + 1 /\ f2[Len(f1) + 1] = R
      /\ \A k \in 1 .. Len(f1) : f2[k] = f1[k]
      /\ DOMAIN f2 = 1 .. (Len(f1) + 1)
  BY <1>8 DEF Pushed
<1>10. \A k \in DOMAIN f2 : ~Bad(f2, k)
  <2>1. \A k \in DOMAIN f2 : Bad(f2, k) => k \in DOMAIN f1 /\ (Bad(f1, k) \/ (k = Len(f1) /\ f1[k].kind = "c"))
    BY <1>8 DEF Pushed
  <2>2. f1[Len(f1)].kind = "cont"
    BY <1>2, <1>7
  <2> QED BY <1>7, <2>1, <2>2
<1>11. /\ Len(f2) = Len(f) + 2 /\ f2[Len(f) + 1] = P /\ f2[Len(f) + 2] = R
       /\ \A k \in 1 .. Len(f) : f2[k] = f[k]
  <2>1. \A k \in 1 .. Len(f) : k \in 1 .. Len(f1)
    BY <1>7
  <2>2. Len(f) + 1 \in 1 .. Len(f1)
    BY <1>7
  <2> QED BY <1>7, <1>9, <2>1, <2>2
<1>12. FramesGrow(TRUE, f, f2)
  <2>1. Len(f) <= Len(f2) /\ DOMAIN f2 = 1 .. Len(f2)
    BY <1>7, <1>9, <1>11
  <2> QED BY <1>9, <1>10, <1>11, <2>1 DEF FramesGrow
<1>13. f2[Len(f)] = f[Len(f)]
  BY <1>7, <1>11
<1> QED BY <1>1, <1>11, <1>12, <1>13 DEF FastFrames

LEMMA ExecFastPcallStep ==
  ASSUME NEW g, NEW t, NEW kind, NEW ef, g \in Seq(Note), Balanced(g), t \in Thread, kind \in Kind, ef \in BOOLEAN,
         ExecFastPcall(t, kind, ef), UNCHANGED luauFastpcall
  PROVE  CallInv'
<1>1. signal = "run" /\ Top.fn = "luau_execute" /\ Top.L = t /\ Yieldable(t) /\ luauFastpcall = TRUE
  <2>1. luauFastpcall \in BOOLEAN
    BY DEF Balanced, CallTypeOK
  <2> QED BY <2>1 DEF ExecFastPcall, Running
<1>2. PICK nat, N, f, n, b, st : At(g, nat, N, t, f, n, b, st)
  BY <1>1, AboveHost
<1>3. /\ native = nat /\ Top = nat[N] /\ ci[t] = f /\ status[t] = st /\ [status EXCEPT ![t] = st] = status
      /\ [nCcalls EXCEPT ![t] = n] = nCcalls /\ [baseCcalls EXCEPT ![t] = b] = baseCcalls
      /\ nCcalls[t] = n /\ baseCcalls[t] = b
  BY <1>2, AtSame
<1>4. /\ nat \in Seq(Element) /\ g \in Seq(Note) /\ Len(nat) = N /\ N > 1
      /\ nat[N].L = t /\ f \in Seq(FrameType) /\ N \in Nat /\ Stack(luauFastpcall, nat, g) /\ n \in Nat /\ b \in Nat
  BY <1>2, AtStack
<1>5. nat[N].fn = "luau_execute"
  BY <1>1, <1>3
<1>6. /\ Level(g[N], f, n, b, st) /\ Frames(luauFastpcall, t, f, nat, g, "none") /\ FramesOK(luauFastpcall, f)
      /\ f[Len(f)].kind = "lua" /\ Explained(t, f, nat, g, FALSE)
  BY <1>1, <1>2, <1>5, TopRuns
<1>7. /\ g[N] \in Note /\ g[N].h = Len(f) /\ g[N].h > 0 /\ g[N - 1] \in Note /\ f # <<>> /\ st = "ok" /\ g[N].y = 0
      /\ Atop(luauFastpcall, nat[N - 1], g[N - 1], nat[N], g[N])
  <2>1. g[N] \in Note /\ g[N - 1] \in Note /\ Atop(luauFastpcall, nat[N - 1], g[N - 1], nat[N], g[N])
    BY <1>2, AtTop
  <2>2. n = b + g[N].y /\ n <= b /\ g[N].y \in Nat
    BY <1>1, <1>3, <1>6, <2>1, NoteIs DEF Level, Yieldable
  <2>3. g[N].y = 0
    BY <1>4, <2>2
  <2> QED BY <1>6, <2>1, <2>3 DEF Level
<1>8. /\ nat[N - 1].fn = "resume_continue" /\ g[N - 1].h < Len(f) /\ g[N - 1].h \in Nat /\ Len(f) \in Nat
  BY <1>1, <1>4, <1>5, <1>7, FrameIs, NoteIs DEF Atop
<1>9. \A k \in DOMAIN f : ~Bad(f, k)
  <2>1. nat[N].fn # "callerrfunc" /\ (N = 2 => nat[N].fn # "luaD_pcall")
    BY <1>5
  <2>2. Clear(nat, N)
    BY <1>4, <1>7, <2>1, ClearIs
  <2>3. ~Handling(nat[N]) /\ t = nat[N].L
    BY <1>4, <1>5 DEF Handling
  <2> QED BY <1>1, <1>4, <1>6, <2>2, <2>3, CalmFrames
<1>10. PICK f2, P, R : f2 = f \o <<P, R>> /\ P = PcallFrame(ef) /\ R = Return(kind)
  OBVIOUS
<1>11. FastFrames(luauFastpcall, f, f2, P, R)
  <2>1. FastFrames(TRUE, f, f2, PcallFrame(ef), Return(kind))
    BY <1>1, <1>4, <1>6, <1>7, <1>9, <1>10, FastFramesIs
  <2> QED BY <1>1, <1>10, <2>1
<1>12. /\ FramesGrow(luauFastpcall, f, f2) /\ Len(f2) = Len(f) + 2 /\ f2[Len(f)] = f[Len(f)]
       /\ f2[Len(f) + 1] = P /\ f2[Len(f) + 2] = R /\ f2 \in Seq(FrameType)
  BY <1>11 DEF FastFrames, FramesGrow
<1>13. P.kind = "cont" /\ P.pcall /\ R.kind = kind /\ ~R.handle
  BY <1>10, PcallFrameIs, NewFrame
<1>14. PICK H, y, c, bb : H = (IF kind = "lua" THEN Len(f) + 2 ELSE Len(f) + 1) /\ y = g[N].y /\ c = g[N].c /\ bb = g[N].b
  OBVIOUS
<1>15. PICK z, g1 : z = [h |-> H, y |-> y, c |-> c, b |-> bb] /\ g1 = [g EXCEPT ![N] = z]
  OBVIOUS
<1>16. z \in Note /\ z.h = H /\ z.y = y /\ z.c = c /\ z.b = bb
  <2>1. H \in Nat /\ y \in Nat /\ c \in Nat /\ bb \in Nat
    BY <1>7, <1>8, <1>14, NoteIs
  <2> QED BY <1>15, <2>1, MadeNote
<1>17. Knows(f2, nat[N - 1], g[N - 1], nat[N], z, "none")
  <2>1. CASE kind = "lua"
    BY <1>5, <1>7, <1>8, <1>12, <1>13, <1>14, <1>16, <2>1 DEF Knows, Beginning
  <2>2. CASE kind # "lua"
    <3>1. z.h = Len(f) + 1 /\ z.h - 1 = Len(f) /\ z.y = 0
      BY <1>7, <1>8, <1>14, <1>16, <2>2
    <3>2. f2[z.h].pcall /\ f2[z.h - 1].kind = "lua" /\ z.h > g[N - 1].h + 1 /\ z.h <= Len(f2)
      BY <1>6, <1>8, <1>12, <1>13, <3>1
    <3> QED BY <1>5, <1>8, <3>1, <3>2 DEF Knows, Beginning
  <2> QED BY <2>1, <2>2
<1>18. Noted(z, z.h, g[N].y, g[N].c, g[N].b)
  BY <1>14, <1>16 DEF Noted
<1>19. Renoted(luauFastpcall, t, f2, nat, g, g1, N, z)
  <2>1. Len(f) <= z.h
    BY <1>8, <1>14, <1>16
  <2> QED BY <1>1, <1>2, <1>5, <1>12, <1>15, <1>16, <1>17, <1>18, <2>1, ExecGrows
<1>20. CASE kind = "lua"
  <2>1. Becomes(t, f2, n, b, "ok", nat, "run")
    BY <1>1, <1>3, <1>7, <1>10, <1>20 DEF ExecFastPcall, Becomes, countVars, PcallFrame
  <2>2. Len(f2) = z.h /\ f2[z.h].kind = "lua" /\ ~f2[z.h].handle
    BY <1>12, <1>13, <1>14, <1>16, <1>20
  <2> QED BY <1>1, <1>2, <1>5, <1>12, <1>18, <1>19, <2>1, <2>2, ExecRuns
<1>21. CASE kind # "lua"
  <2>1. Becomes(t, f2, n, b, "ok", Append(nat, Native("C", t)), "run")
    BY <1>1, <1>3, <1>7, <1>10, <1>21 DEF ExecFastPcall, Becomes, countVars, PcallFrame
  <2>2. z.h = Len(f) + 1
    BY <1>14, <1>16, <1>21
  <2>3. z.h \in Nat /\ Len(f2) = z.h + 1 /\ f2[z.h + 1] = R
    BY <1>8, <1>12, <2>2
  <2> QED BY <1>1, <1>2, <1>5, <1>12, <1>13, <1>18, <1>19, <1>21, <2>1, <2>3, ExecRunsC
<1> QED BY <1>20, <1>21

-----------------------------------------------------------------------------
(* What resume continues                                                    *)

\* Frames that need nothing of the native stack
Free(fast, f) ==
    f \in Seq(FrameType) /\ FramesOK(fast, f) /\ \A k \in DOMAIN f : ~Bad(f, k)

LEMMA ResumedWhole ==
  ASSUME NEW fast, NEW nat, NEW g, NEW N, NEW t, NEW f,
         nat \in Seq(Element), g \in Seq(Note), Stack(fast, nat, g), Len(nat) = N, N > 1, nat[N].L = t,
         nat[N].fn = "lua_resume", ~Handling(nat[N]), g[N].h = 0, Free(fast, f)
  PROVE  Whole(fast, t, f, nat, g)
<1>1. \A i \in 2 .. N : nat[i].L = t => i = N
  BY ResumeOnly
<1>2. /\ f \in Seq(FrameType) /\ FramesOK(fast, f) /\ DOMAIN f = 1 .. Len(f) /\ Len(f) \in Nat
      /\ \A k \in 1 .. Len(f) : ~Bad(f, k)
  BY FrameIs DEF Free
<1>3. Known(t, f, nat, g, N, "none")
  <2>1. SUFFICES ASSUME NEW i \in 2 .. N, nat[i].L = t
                 PROVE  Knows(f, nat[i - 1], g[i - 1], nat[i], g[i], IF i < N THEN nat[i + 1].fn ELSE "none")
    BY DEF Known
  <2>2. i = N
    BY <1>1, <2>1
  <2>3. Knows(f, nat[N - 1], g[N - 1], nat[N], g[N], "none")
    BY <1>2 DEF Knows, Beginning, Handling
  <2>4. N \in Nat
    BY LenIs
  <2> QED BY <2>2, <2>3, <2>4
<1>4. Explained(t, f, nat, g, FALSE)
  BY <1>2 DEF Explained
<1>5. Marks(fast, t, f, nat, g)
  <2>1. \A p \in 1 .. Len(f) : \A k \in 1 .. (p - 1) : ~Bad(f, k)
    <3>1. \A p \in 1 .. Len(f) : \A k \in 1 .. (p - 1) : k \in 1 .. Len(f)
      BY <1>2
    <3> QED BY <1>2, <3>1
  <2>2. \A i \in 2 .. N : nat[i].L = t => nat[i].fn # "luaD_pcall"
    BY <1>1
  <2> QED BY <1>2, <2>1, <2>2 DEF Marks
<1> QED BY <1>2, <1>3, <1>4, <1>5 DEF Whole, Frames

\* One more element lies on a stack whose top has changed.
LEMMA PushStep ==
  ASSUME NEW g, NEW t, NEW nat1, NEW g1, NEW N, NEW e, NEW w, NEW f, NEW n, NEW b, NEW st, NEW sig,
         g \in Seq(Note), Balanced(g), t \in Thread, Top.L = t, Moves(native, g, nat1, g1, N, t),
         Len(nat1) = N, Len(g1) = N, e \in Element, w \in Note, e.L = t, f \in Seq(FrameType), n \in Nat, b \in Nat,
         st \in Statuses, sig \in {"run", "return", "throw"}, Stack(luauFastpcall, Append(nat1, e), Append(g1, w)),
         OnTop(luauFastpcall, f, n, b, st, Append(nat1, e), Append(g1, w), sig),
         Becomes(t, f, n, b, st, Append(nat1, e), sig)
  PROVE  CallInv'
<1>1. /\ nat1 \in Seq(Element) /\ g1 \in Seq(Note) /\ native \in Seq(Element) /\ N \in Nat
  BY LenIs DEF Moves, Balanced, CallTypeOK
<1>2. Grows(nat1, g1, N, Append(nat1, e), Append(g1, w), t)
  BY <1>1, GrowsByOne
<1>3. Moves(native, g, Append(nat1, e), Append(g1, w), N, t)
  BY <1>1, <1>2, MovesGrown
<1> QED BY <1>3, MovesStep

\* The loop of resume_continue begins.
LEMMA LoopStep ==
  ASSUME NEW g, NEW nat, NEW N, NEW t, NEW f0, NEW n, NEW b, NEW st, NEW f,
         At(g, nat, N, t, f0, n, b, st), nat[N].fn = "lua_resume", ~Handling(nat[N]), Free(luauFastpcall, f),
         f # <<>> => f[Len(f)].kind # "c", n >= g[N].c, n = b,
         Becomes(t, f, n, b, "ok", Append(Phase(nat, "loop"), ResumeContinue(t, 0)), "return")
  PROVE  CallInv'
<1>1. /\ Stack(luauFastpcall, nat, g) /\ nat \in Seq(Element) /\ g \in Seq(Note) /\ Len(nat) = N /\ N > 1
      /\ nat[N].L = t /\ N \in Nat /\ Len(g) = N /\ t \in Thread /\ n \in Nat /\ b \in Nat
  BY AtStack
<1>2. PICK d, c : d = [nat[N] EXCEPT !.phase = "loop"] /\ c = nat[N].nCcalls
  OBVIOUS
<1>3. PhaseChanged(nat, N, d, c, "loop", 0) /\ Phase(nat, "loop") = [nat EXCEPT ![N] = d]
  <2>1. nat[N].phase # "handling"
    BY DEF Handling
  <2>2. PhaseOnly(nat, N, d, c, "loop")
    BY <1>1, <1>2, <2>1, PhaseOf
  <2> QED BY <2>2 DEF PhaseOnly
<1>4. PICK z, nat1, g1 : /\ z = [h |-> 0, y |-> 0, c |-> c, b |-> c]
                         /\ nat1 = [nat EXCEPT ![N] = d] /\ g1 = [g EXCEPT ![N] = z]
  OBVIOUS
<1>5. Phased(luauFastpcall, nat, g, nat1, g1, N, d, z, c, "loop", 0)
  <2>1. "loop" \in Phases /\ 0 \in Nat /\ "loop" # "handling"
    BY DEF Phases
  <2> QED BY <1>1, <1>3, <1>4, <2>1, PhaseIs
<1>6. /\ d.fn = "lua_resume" /\ d.L = t /\ d.phase = "loop" /\ ~Handling(d) /\ z \in Note
      /\ z.h = 0 /\ z.y = 0 /\ z.c = c /\ z.b = c /\ g[N].c = c /\ c \in Nat
      /\ Stack(luauFastpcall, nat1, g1) /\ TopChanged(nat, g, nat1, g1, N, d, z)
  BY <1>1, <1>5 DEF Phased, Handling
<1>7. nat1 \in Seq(Element) /\ g1 \in Seq(Note) /\ Len(nat1) = N /\ Len(g1) = N /\ nat1[N] = d /\ g1[N] = z
  BY <1>6 DEF TopChanged
<1>8. Whole(luauFastpcall, t, f, nat1, g1)
  BY <1>1, <1>6, <1>7, ResumedWhole
<1>9. PICK e : e = ResumeContinue(t, 0)
  OBVIOUS
<1>10. e \in Element /\ e.fn = "resume_continue" /\ e.L = t /\ e.base = 0
  BY <1>1, <1>9 DEF ResumeContinue, Element
<1>11. Atop(luauFastpcall, nat1[N], g1[N], e, z)
  BY <1>6, <1>7, <1>10 DEF Atop, Noted
<1>12. f \in Seq(FrameType) /\ FramesOK(luauFastpcall, f) /\ DOMAIN f = 1 .. Len(f) /\ Len(f) \in Nat
  BY FrameIs DEF Free
<1>13. Knows(f, nat1[N], g1[N], e, z, "none")
  <2>1. z.h < Len(f) /\ f[z.h + 1].kind = "lua" => f[z.h + 1].return
    <3>1. SUFFICES ASSUME 0 < Len(f) PROVE f[1].kind = "lua" => f[1].return
      BY <1>6
    <3>2. 1 \in DOMAIN f
      BY <1>12, <3>1
    <3> QED BY <1>12, <3>2 DEF FramesOK
  <2>2. z.h <= Len(f)
    BY <1>6, <1>12
  <2> QED BY <1>10, <2>1, <2>2 DEF Knows
<1>14. /\ Stack(luauFastpcall, Append(nat1, e), Append(g1, z))
       /\ Whole(luauFastpcall, t, f, Append(nat1, e), Append(g1, z))
  <2>1. e.fn \in {"C", "luau_execute", "resume_continue", "callerrfunc"}
    BY <1>10
  <2> QED BY <1>1, <1>6, <1>7, <1>8, <1>10, <1>11, <1>12, <1>13, <2>1, WholeOn
<1>15. OnTop(luauFastpcall, f, n, b, "ok", Append(nat1, e), Append(g1, z), "return")
  <2>1. PICK nat2, g2 : nat2 = Append(nat1, e) /\ g2 = Append(g1, z)
    OBVIOUS
  <2>2. Len(nat2) = N + 1 /\ nat2[N + 1] = e /\ g2[N + 1] = z
    BY <1>6, <1>7, <1>10, <2>1, PushIs
  <2>3. n >= z.c /\ b >= z.b /\ n = b + z.y
    BY <1>1, <1>6
  <2>4. Len(f) > 0 => f # <<>>
    BY <1>12
  <2>5. Returns(luauFastpcall, f, n, b, nat2, g2)
    BY <1>6, <1>10, <1>12, <1>14, <2>1, <2>2, <2>3, <2>4 DEF Returns
  <2> QED BY <2>1, <2>5 DEF OnTop
<1>16. Moves(native, g, nat1, g1, N, t) /\ Top.L = t /\ Balanced(g)
  <2>1. Moves(nat, g, nat1, g1, N, t)
    BY <1>1, <1>6, TopMoves
  <2> QED BY <2>1 DEF At
<1>17. Becomes(t, f, n, b, "ok", Append(nat1, e), "return") /\ "ok" \in Statuses
  BY <1>3, <1>4, <1>9 DEF Statuses
<1> QED BY <1>1, <1>6, <1>7, <1>10, <1>12, <1>14, <1>15, <1>16, <1>17, PushStep

\* A thread that was just resumed
LEMMA TopStarts ==
  ASSUME NEW g, NEW nat, NEW N, NEW t, NEW f, NEW n, NEW b, NEW st,
         At(g, nat, N, t, f, n, b, st), signal = "run", nat[N].fn = "lua_resume"
  PROVE  /\ nat[N].phase = "start" /\ ~Handling(nat[N]) /\ n >= g[N].c /\ b >= g[N].b /\ n = b /\ g[N].h = 0
         /\ (st = "ok" /\ f = <<>>) \/ (st = "yield" /\ Suspended(luauFastpcall, f))
<1>1. OnTop(luauFastpcall, f, n, b, st, nat, g, signal) /\ Len(nat) = N
  BY AtStack
<1>2. Runs(luauFastpcall, f, n, b, st, nat, g)
  BY <1>1 DEF OnTop
<1>3. Atop(luauFastpcall, nat[N - 1], g[N - 1], nat[N], g[N])
  BY AtTop
<1>4. nat[N].phase = "start" /\ n >= g[N].c /\ b >= g[N].b /\ n = b + g[N].y
  BY <1>1, <1>2 DEF Runs
<1>5. (st = "ok" /\ f = <<>>) \/ (st = "yield" /\ Suspended(luauFastpcall, f))
  BY <1>1, <1>2 DEF Runs
<1>6. g[N].h = 0 /\ g[N].y = 0
  BY <1>3, <1>4 DEF Atop, Noted
<1>7. n \in Nat /\ b \in Nat
  BY DEF At
<1> QED BY <1>4, <1>5, <1>6, <1>7 DEF Handling

LEMMA FirstFrame ==
  ASSUME NEW fast, NEW kind, NEW f, kind \in Kind, f = <<Return(kind)>>
  PROVE  Free(fast, f) /\ Len(f) = 1 /\ f[1].kind = kind /\ ~f[1].handle /\ f # <<>>
<1>1. PICK r : r = Return(kind)
  OBVIOUS
<1>2. /\ r \in FrameType /\ r.kind = kind /\ (kind = "lua" => r.return)
      /\ ~r.handle /\ ~r.pcall /\ ~r.forcall /\ ~r.opyield
  BY <1>1, NewFrame
<1>3. f \in Seq(FrameType) /\ Len(f) = 1 /\ f[1] = r /\ DOMAIN f = {1} /\ f # <<>>
  BY <1>1, <1>2
<1>4. r.forcall = FALSE /\ r.opyield = FALSE
  BY <1>2 DEF FrameType
<1>5. FramesOK(fast, f)
  BY <1>2, <1>3, <1>4 DEF FramesOK
<1>6. \A k \in DOMAIN f : ~Bad(f, k)
  <2>1. f[1].forcall = f[1].opyield /\ ~(1 < Len(f))
    <3>1. f[1].forcall = FALSE /\ f[1].opyield = FALSE
      BY <1>3, <1>4
    <3>2. ~(1 < Len(f))
      BY <1>3
    <3> QED BY <3>1, <3>2
  <2>2. ~Bad(f, 1)
    BY <2>1 DEF Bad
  <2> QED BY <1>3, <2>2
<1> QED BY <1>2, <1>3, <1>5, <1>6 DEF Free

\* The function of a coroutine is of C.
LEMMA StartsC ==
  ASSUME NEW g, NEW nat, NEW N, NEW t, NEW f0, NEW n, NEW b, NEW st, NEW kind, NEW f,
         At(g, nat, N, t, f0, n, b, st), nat[N].fn = "lua_resume", ~Handling(nat[N]), n >= g[N].c, n = b,
         kind \in Kind, kind # "lua", f = <<Return(kind)>>,
         Becomes(t, f, n, b, "ok", Append(Phase(nat, "called"), Native("C", t)), "run")
  PROVE  CallInv'
<1>1. /\ Stack(luauFastpcall, nat, g) /\ nat \in Seq(Element) /\ g \in Seq(Note) /\ Len(nat) = N /\ N > 1
      /\ nat[N].L = t /\ N \in Nat /\ Len(g) = N /\ t \in Thread /\ n \in Nat /\ b \in Nat
  BY AtStack
<1>2. PICK d, c : d = [nat[N] EXCEPT !.phase = "called"] /\ c = nat[N].nCcalls
  OBVIOUS
<1>3. PhaseChanged(nat, N, d, c, "called", 0) /\ Phase(nat, "called") = [nat EXCEPT ![N] = d]
  <2>1. nat[N].phase # "handling"
    BY DEF Handling
  <2>2. PhaseOnly(nat, N, d, c, "called")
    BY <1>1, <1>2, <2>1, PhaseOf
  <2> QED BY <2>2 DEF PhaseOnly
<1>4. PICK z, w, nat1, g1 : /\ z = [h |-> 0, y |-> 0, c |-> c, b |-> c] /\ w = [h |-> 1, y |-> 0, c |-> c, b |-> c]
                            /\ nat1 = [nat EXCEPT ![N] = d] /\ g1 = [g EXCEPT ![N] = z]
  OBVIOUS
<1>5. Phased(luauFastpcall, nat, g, nat1, g1, N, d, z, c, "called", 0)
  <2>1. "called" \in Phases /\ 0 \in Nat /\ "called" # "handling"
    BY DEF Phases
  <2> QED BY <1>1, <1>3, <1>4, <2>1, PhaseIs
<1>6. /\ d.fn = "lua_resume" /\ d.L = t /\ d.phase = "called" /\ ~Handling(d) /\ z \in Note
      /\ z.h = 0 /\ z.y = 0 /\ z.c = c /\ z.b = c /\ g[N].c = c /\ c \in Nat
      /\ Stack(luauFastpcall, nat1, g1) /\ TopChanged(nat, g, nat1, g1, N, d, z)
  BY <1>1, <1>5 DEF Phased, Handling
<1>7. nat1 \in Seq(Element) /\ g1 \in Seq(Note) /\ Len(nat1) = N /\ Len(g1) = N /\ nat1[N] = d /\ g1[N] = z
  BY <1>6 DEF TopChanged
<1>8. Free(luauFastpcall, f) /\ Len(f) = 1 /\ f[1].kind = kind /\ ~f[1].handle /\ f \in Seq(FrameType)
  BY FirstFrame DEF Free
<1>9. Whole(luauFastpcall, t, f, nat1, g1)
  BY <1>1, <1>6, <1>7, <1>8, ResumedWhole
<1>10. w \in Note /\ w.h = 1 /\ w.y = 0 /\ w.c = c /\ w.b = c
  <2>1. 1 \in Nat /\ 0 \in Nat
    OBVIOUS
  <2> QED BY <1>4, <1>6, <2>1, MadeNote
<1>11. PICK e : e = Native("C", t) /\ e \in Element /\ e.fn = "C" /\ e.L = t
  BY <1>1, MadeNative
<1>12. RunsNow(luauFastpcall, f, n, b, t, Append(nat1, e), Append(g1, w), N + 1)
  <2>1. Atop(luauFastpcall, nat1[N], g1[N], e, w)
    BY <1>6, <1>7, <1>10, <1>11 DEF Atop, Noted
  <2>2. Knows(f, nat1[N], g1[N], e, w, "none")
    BY <1>8, <1>10, <1>11 DEF Knows, Beginning
  <2>3. Callee(f, n, b, "C", w)
    BY <1>1, <1>6, <1>8, <1>10 DEF Callee
  <2>4. "C" \in {"C", "luau_execute"}
    OBVIOUS
  <2> QED BY <1>1, <1>6, <1>7, <1>8, <1>9, <1>10, <1>11, <2>1, <2>2, <2>3, <2>4, RunPush
<1>13. Moves(native, g, nat1, g1, N, t) /\ Top.L = t /\ Balanced(g)
  <2>1. Moves(nat, g, nat1, g1, N, t)
    BY <1>1, <1>6, TopMoves
  <2> QED BY <2>1 DEF At
<1> QED BY <1>1, <1>3, <1>4, <1>7, <1>8, <1>10, <1>11, <1>12, <1>13, RunStep

LEMMA StartStep ==
  ASSUME NEW g, NEW t, NEW kind, g \in Seq(Note), Balanced(g), t \in Thread, kind \in Kind, Start(t, kind),
         UNCHANGED luauFastpcall
  PROVE  CallInv'
<1>1. signal = "run" /\ Top.fn = "lua_resume" /\ Top.L = t /\ status[t] = "ok"
  BY DEF Start, Running
<1>2. PICK nat, N, f0, n, b, st : At(g, nat, N, t, f0, n, b, st)
  BY <1>1, AboveHost
<1>3. /\ native = nat /\ Top = nat[N] /\ status[t] = st /\ [status EXCEPT ![t] = st] = status
      /\ [nCcalls EXCEPT ![t] = n] = nCcalls /\ [baseCcalls EXCEPT ![t] = b] = baseCcalls
  BY <1>2, AtSame
<1>4. nat[N].fn = "lua_resume" /\ st = "ok"
  BY <1>1, <1>3
<1>5. ~Handling(nat[N]) /\ n >= g[N].c /\ n = b
  BY <1>1, <1>2, <1>4, TopStarts
<1>6. PICK f : f = <<Return(kind)>>
  OBVIOUS
<1>7. Free(luauFastpcall, f) /\ Len(f) = 1 /\ f[1].kind = kind
  BY <1>6, FirstFrame
<1>8. CASE kind = "lua"
  <2>1. Becomes(t, f, n, b, "ok", Append(Phase(nat, "loop"), ResumeContinue(t, 0)), "return")
    BY <1>3, <1>4, <1>6, <1>8 DEF Start, Becomes, countVars, Loop
  <2>2. f # <<>> => f[Len(f)].kind # "c"
    BY <1>7, <1>8
  <2> QED BY <1>2, <1>4, <1>5, <1>7, <2>1, <2>2, LoopStep
<1>9. CASE kind # "lua"
  <2>1. Becomes(t, f, n, b, "ok", Append(Phase(nat, "called"), Native("C", t)), "run")
    BY <1>1, <1>3, <1>4, <1>6, <1>9 DEF Start, Becomes, countVars
  <2> QED BY <1>2, <1>4, <1>5, <1>6, <1>9, <2>1, StartsC
<1> QED BY <1>8, <1>9

\* The frames of a suspended thread when its C function without a continuation has its results
LEMMA RestartFrames ==
  ASSUME NEW fast, NEW f, NEW f2, f \in Seq(FrameType), Suspended(fast, f),
         f2 = IF Last(f).kind = "c" THEN Front(f) ELSE f
  PROVE  Free(fast, f2) /\ (f2 # <<>> => f2[Len(f2)].kind # "c")
<1>1. FramesOK(fast, f) /\ f # <<>> /\ \A k \in DOMAIN f : ~Bad(f, k)
  BY DEF Suspended
<1>2. /\ Len(f) \in Nat /\ Len(f) > 0 /\ Front(f) = SubSeq(f, 1, Len(f) - 1) /\ Last(f) = f[Len(f)]
  BY <1>1, FrontIs
<1>3. DOMAIN f = 1 .. Len(f)
  BY FrameIs
<1>4. CASE f[Len(f)].kind # "c"
  BY <1>1, <1>2, <1>4 DEF Free
<1>5. CASE f[Len(f)].kind = "c"
  <2>1. PICK m : m = Len(f) - 1
    OBVIOUS
  <2>2. m \in 0 .. Len(f) /\ m \in Nat /\ m < Len(f) /\ f2 = SubSeq(f, 1, m)
    BY <1>2, <1>5, <2>1
  <2>3. f2 \in Seq(FrameType) /\ Len(f2) = m /\ FramesOK(fast, f2) /\ NoWorse(f, f2)
    BY <1>1, <2>2, Prefixed
  <2>4. Free(fast, f2)
    BY <1>1, <2>3 DEF Free, NoWorse
  <2>5. ASSUME f2 # <<>> PROVE f2[m].kind # "c"
    <3>1. m > 0
      BY <2>2, <2>3, <2>5, LenIs
    <3>2. m \in DOMAIN f /\ m \in DOMAIN f2
      <4>1. DOMAIN f2 = 1 .. m
        BY <2>3, FrameIs
      <4>2. m \in 1 .. m /\ m \in 1 .. Len(f)
        BY <1>2, <2>2, <3>1
      <4> QED BY <1>3, <4>1, <4>2
    <3>3. f2[m].kind = f[m].kind /\ ~Bad(f, m)
      BY <1>1, <2>3, <3>2 DEF NoWorse
    <3> QED BY <2>2, <3>3 DEF Bad
  <2> QED BY <2>3, <2>4, <2>5
<1> QED BY <1>4, <1>5

LEMMA RestartStep ==
  ASSUME NEW g, NEW t, g \in Seq(Note), Balanced(g), t \in Thread, Restart(t), UNCHANGED luauFastpcall
  PROVE  CallInv'
<1>1. signal = "run" /\ Top.fn = "lua_resume" /\ Top.L = t /\ status[t] = "yield"
  BY DEF Restart, Running
<1>2. PICK nat, N, f0, n, b, st : At(g, nat, N, t, f0, n, b, st)
  BY <1>1, AboveHost
<1>3. /\ native = nat /\ Top = nat[N] /\ status[t] = st /\ ci[t] = f0 /\ [ci EXCEPT ![t] = f0] = ci
      /\ [nCcalls EXCEPT ![t] = n] = nCcalls /\ [baseCcalls EXCEPT ![t] = b] = baseCcalls
  BY <1>2, AtSame
<1>4. nat[N].fn = "lua_resume" /\ st = "yield" /\ f0 \in Seq(FrameType)
  BY <1>1, <1>2, <1>3 DEF At
<1>5. ~Handling(nat[N]) /\ n >= g[N].c /\ n = b /\ Suspended(luauFastpcall, f0)
  BY <1>1, <1>2, <1>4, TopStarts
<1>6. PICK f : f = IF Last(f0).kind = "c" THEN Front(f0) ELSE f0
  OBVIOUS
<1>7. Free(luauFastpcall, f) /\ (f # <<>> => f[Len(f)].kind # "c")
  BY <1>4, <1>5, <1>6, RestartFrames
<1>8. ci' = [ci EXCEPT ![t] = f]
  BY <1>3, <1>6 DEF Restart
<1>9. Becomes(t, f, n, b, "ok", Append(Phase(nat, "loop"), ResumeContinue(t, 0)), "return")
  BY <1>3, <1>8 DEF Restart, Becomes, countVars, Loop
<1> QED BY <1>2, <1>4, <1>5, <1>7, <1>9, LoopStep

\* A coroutine whose lua_resume is returned to
LEMMA ResumedFree ==
  ASSUME NEW g, NEW nat, NEW N, NEW t, NEW f, NEW n, NEW b, NEW st,
         At(g, nat, N, t, f, n, b, st), nat[N].fn = "lua_resume", ~Handling(nat[N]), FramesOK(luauFastpcall, f),
         Explained(t, f, nat, g, FALSE)
  PROVE  Free(luauFastpcall, f)
<1>1. /\ Stack(luauFastpcall, nat, g) /\ nat \in Seq(Element) /\ g \in Seq(Note) /\ Len(nat) = N /\ N > 1
      /\ nat[N].L = t /\ f \in Seq(FrameType)
  BY AtStack
<1>2. \A i \in 2 .. N : nat[i].L = t => i = N
  BY <1>1, ResumeOnly
<1>3. ASSUME NEW k \in DOMAIN f PROVE ~Bad(f, k)
  <2>1. ~Calls(t, f, k, nat)
    BY <1>1, <1>2 DEF Calls
  <2>2. ~Failed(t, k, nat, g, FALSE)
    BY <1>1, <1>2 DEF Failed
  <2> QED BY <1>3, <2>1, <2>2 DEF Explained
<1> QED BY <1>1, <1>3 DEF Free

Reenters(fast, t, f, n, b, nat, g, N) ==
    /\ FramesOK(fast, f) /\ Explained(t, f, nat, g, FALSE) /\ n >= g[N].c /\ n = b
    /\ f # <<>> => f[Len(f)].kind # "c"

LEMMA ReenterFirst ==
  ASSUME NEW g, NEW nat, NEW N, NEW t, NEW f, NEW n, NEW b, NEW st,
         At(g, nat, N, t, f, n, b, st), signal = "return", st = "reentry"
  PROVE  Reenters(luauFastpcall, t, f, n, b, nat, g, N)
<1>1. st # "ok"
  OBVIOUS
<1>2. FramesOK(luauFastpcall, f) /\ Explained(t, f, nat, g, FALSE) /\ n >= g[N].c /\ n = b /\ Leaves(f, st)
  BY <1>1, TopYields
<1> QED BY <1>2 DEF Leaves, Reenters

LEMMA ReenterHandled ==
  ASSUME NEW g, NEW nat, NEW N, NEW t, NEW f, NEW n, NEW b, NEW st,
         At(g, nat, N, t, f, n, b, st), signal = "return", st = "ok", nat[N].fn = "lua_resume",
         nat[N].phase = "handle"
  PROVE  Reenters(luauFastpcall, t, f, n, b, nat, g, N)
<1>1. FramesOK(luauFastpcall, f) /\ Explained(t, f, nat, g, FALSE) /\ Fits(nat[N], g[N], f, n, b)
  BY TopReturns
<1>2. g[N].y = 0
  BY AtTop DEF Atop, Noted
<1>3. n \in Nat /\ b \in Nat
  BY DEF At
<1>4. n >= g[N].c /\ n = b + g[N].y /\ (f # <<>> => f[Len(f)].kind # "c")
  BY <1>1 DEF Fits, Handling
<1>5. n = b
  BY <1>2, <1>3, <1>4
<1> QED BY <1>1, <1>4, <1>5 DEF Reenters

LEMMA ReenterStep ==
  ASSUME NEW g, NEW t, g \in Seq(Note), Balanced(g), t \in Thread, Reenter(t), UNCHANGED luauFastpcall
  PROVE  CallInv'
<1>1. /\ signal = "return" /\ Top.fn = "lua_resume" /\ Top.L = t
      /\ (Top.phase = "called" /\ status[t] = "reentry") \/ (Top.phase = "handle" /\ status[t] = "ok")
  BY DEF Reenter, Returned
<1>2. PICK nat, N, f, n, b, st : At(g, nat, N, t, f, n, b, st)
  BY <1>1, AboveHost
<1>3. /\ native = nat /\ Top = nat[N] /\ status[t] = st /\ ci[t] = f /\ [ci EXCEPT ![t] = f] = ci
      /\ [nCcalls EXCEPT ![t] = n] = nCcalls /\ [baseCcalls EXCEPT ![t] = b] = baseCcalls
  BY <1>2, AtSame
<1>4. nat[N].fn = "lua_resume" /\ f \in Seq(FrameType) /\ ~Handling(nat[N]) /\ n \in Nat /\ b \in Nat
  BY <1>1, <1>2, <1>3 DEF At, Handling
<1>5. Reenters(luauFastpcall, t, f, n, b, nat, g, N)
  <2>1. CASE st = "reentry"
    BY <1>1, <1>2, <2>1, ReenterFirst
  <2>2. CASE nat[N].phase = "handle" /\ st = "ok"
    BY <1>1, <1>2, <1>4, <2>2, ReenterHandled
  <2> QED BY <1>1, <1>3, <2>1, <2>2
<1>6. /\ FramesOK(luauFastpcall, f) /\ Explained(t, f, nat, g, FALSE) /\ n >= g[N].c /\ n = b
      /\ (f # <<>> => f[Len(f)].kind # "c")
  BY <1>5 DEF Reenters
<1>7. Free(luauFastpcall, f)
  BY <1>2, <1>4, <1>6, ResumedFree
<1>8. Becomes(t, f, n, b, "ok", Append(Phase(nat, "loop"), ResumeContinue(t, 0)), "return")
  BY <1>1, <1>3 DEF Reenter, Becomes, countVars, Loop
<1> QED BY <1>2, <1>4, <1>6, <1>7, <1>8, LoopStep

\* The loop of resume_continue has ended.
LEMMA LoopEnds ==
  ASSUME NEW g, NEW nat, NEW N, NEW t, NEW f, NEW n, NEW b, NEW st,
         At(g, nat, N, t, f, n, b, st), signal = "return", st = "ok", nat[N].fn = "resume_continue",
         Len(f) <= nat[N].base, Becomes(t, f, n, b, "ok", Front(nat), "return")
  PROVE  CallInv'
<1>1. /\ Stack(luauFastpcall, nat, g) /\ nat \in Seq(Element) /\ g \in Seq(Note) /\ Len(nat) = N /\ N > 1
      /\ nat[N].L = t /\ f \in Seq(FrameType) /\ N \in Nat /\ n \in Nat /\ b \in Nat
  BY AtStack
<1>2. /\ Fits(nat[N], g[N], f, n, b) /\ Frames(luauFastpcall, t, f, nat, g, "none") /\ Explained(t, f, nat, g, FALSE)
      /\ Marks(luauFastpcall, t, f, nat, g) /\ FramesOK(luauFastpcall, f)
  BY TopReturns
<1>3. /\ Atop(luauFastpcall, nat[N - 1], g[N - 1], nat[N], g[N]) /\ g[N] \in Note /\ g[N - 1] \in Note
      /\ (N = 2 => nat[N].fn \in {"luaD_pcall", "lua_resume"})
  BY AtTop
<1>4. N > 2
  BY <1>1, <1>3
<1>5. /\ g[N].h = g[N - 1].h /\ g[N].y = g[N - 1].y /\ g[N].c = g[N - 1].c /\ g[N].b = g[N - 1].b
      /\ nat[N].base = g[N - 1].h
      /\ nat[N - 1].fn \in {"luaD_callint", "luaD_performcally", "luaD_callny"}
         \/ (nat[N - 1].fn = "lua_resume" /\ nat[N - 1].phase = "loop")
  BY <1>3 DEF Atop, Noted
<1>6. /\ g[N].h <= Len(f) /\ g[N].h \in Nat /\ g[N - 1].h \in Nat /\ g[N - 1].h <= Len(f) /\ Len(f) \in Nat
  <2>1. g[N].h <= Len(f) /\ g[N].h \in Nat
    BY <1>1, <1>2, LowIs
  <2> QED BY <1>1, <1>5, <2>1, FrameIs
<1>7. Len(f) = g[N - 1].h
  BY <1>5, <1>6
<1>8. Fits(nat[N - 1], g[N - 1], f, n, b)
  <2>1. n >= g[N].c /\ b >= g[N].b /\ n = b + g[N].y
    BY <1>2 DEF Fits, Handling
  <2>2. n >= g[N - 1].c /\ b >= g[N - 1].b /\ n = b + g[N - 1].y
    BY <1>5, <2>1
  <2> QED BY <1>5, <1>7, <2>2 DEF Fits
<1>9. NoWorse(f, f)
  BY DEF NoWorse
<1>10. Left(t, f, f, nat, N) /\ LeftMarks(f, f, nat[N])
  BY <1>9, NoWorseLeft
<1>11. Ends(luauFastpcall, t, f, "none", f, "none", nat, g, N)
  <2>1. Kept(f, f, g[N - 1].h)
    BY <1>1, <1>6, KeptSame
  <2> QED BY <1>1, <1>2, <1>10, <2>1 DEF Ends, Handling
<1> QED BY <1>1, <1>2, <1>4, <1>8, <1>10, <1>11, StepReturns

LEMMA ContinueEndsStep ==
  ASSUME NEW g, NEW t, g \in Seq(Note), Balanced(g), t \in Thread, ContinueEnds(t), UNCHANGED luauFastpcall
  PROVE  CallInv'
<1>1. signal = "return" /\ Top.fn = "resume_continue" /\ Top.L = t
  BY DEF ContinueEnds, Returned
<1>2. PICK nat, N, f, n, b, st : At(g, nat, N, t, f, n, b, st)
  BY <1>1, AboveHost
<1>3. /\ native = nat /\ Top = nat[N] /\ status[t] = st /\ ci[t] = f /\ [ci EXCEPT ![t] = f] = ci
      /\ [nCcalls EXCEPT ![t] = n] = nCcalls /\ [baseCcalls EXCEPT ![t] = b] = baseCcalls
      /\ [status EXCEPT ![t] = st] = status
  BY <1>2, AtSame
<1>4. nat[N].fn = "resume_continue"
  BY <1>1, <1>3
<1>5. Becomes(t, f, n, b, st, Front(nat), "return")
  BY <1>1, <1>3 DEF ContinueEnds, Becomes, countVars
<1>6. CASE st # "ok"
  <2>1. nat[N].fn \in {"C", "luau_execute", "resume_continue", "luaD_pcall"}
    BY <1>4
  <2> QED BY <1>1, <1>2, <1>5, <1>6, <2>1, YieldsOn
<1>7. CASE st = "ok"
  <2>1. f \in Seq(FrameType) /\ nat[N] \in Element /\ Len(f) \in Nat /\ nat[N].base \in Nat
    BY <1>2, <1>4, AtStack, AtTop, FrameIs, ElementIs
  <2>2. ~(Len(f) > nat[N].base)
    BY <1>3, <1>7 DEF ContinueEnds, Continues
  <2>3. Len(f) <= nat[N].base
    BY <2>1, <2>2
  <2>4. Becomes(t, f, n, b, "ok", Front(nat), "return")
    BY <1>5, <1>7
  <2> QED BY <1>1, <1>2, <1>4, <1>7, <2>3, <2>4, LoopEnds
<1> QED BY <1>6, <1>7

\* The frames above the notes lose marks, or are gone.
LEMMA WholeLess ==
  ASSUME NEW fast, NEW nat, NEW g, NEW N, NEW t, NEW f, NEW f2, NEW H,
         nat \in Seq(Element), g \in Seq(Note), Stack(fast, nat, g), Len(nat) = N, N > 1, nat[N].L = t,
         f \in Seq(FrameType), f2 \in Seq(FrameType), Whole(fast, t, f, nat, g), FramesOK(fast, f2), NoWorse(f, f2),
         Kept(f, f2, H), g[N].h <= H
  PROVE  Whole(fast, t, f2, nat, g)
<1>1. Known(t, f, nat, g, N, "none") /\ Explained(t, f, nat, g, FALSE) /\ Marks(fast, t, f, nat, g)
  BY DEF Whole, Frames
<1>2. N \in Nat /\ Len(g) = N
  BY LenIs DEF Stack, Grounded
<1>3. Known(t, f2, nat, g, N, "none")
  <2>1. \A i \in 2 .. N : nat[i].L = t => g[i].h <= H
    <3>1. SUFFICES ASSUME NEW i \in 2 .. N, nat[i].L = t PROVE g[i].h <= H
      OBVIOUS
    <3>2. nat[i].L = nat[N].L
      BY <3>1
    <3>3. g[i].h <= g[N].h /\ g[i] \in Note
      BY <3>1, <3>2, TopHighest
    <3>4. g[i].h \in Nat /\ g[N].h \in Nat /\ H \in Nat
      <4>1. g[N] \in Note
        BY TopIs
      <4> QED BY <3>3, <4>1, NoteIs DEF Kept
    <3> QED BY <3>3, <3>4
  <2>2. Agree(nat, g, nat, g, N)
    BY <1>2 DEF Agree
  <2>3. "none" # "luaD_pcall"
    OBVIOUS
  <2> QED BY <1>1, <1>2, <2>1, <2>2, <2>3, KnownOn
<1>4. Explained(t, f2, nat, g, FALSE)
  <2>1. SUFFICES ASSUME NEW k \in DOMAIN f2, Bad(f2, k)
                 PROVE  Calls(t, f2, k, nat) \/ Failed(t, k, nat, g, FALSE)
    BY DEF Explained
  <2>2. k \in DOMAIN f /\ Bad(f, k) /\ f2[k].kind = f[k].kind
    BY <2>1 DEF NoWorse
  <2>3. Calls(t, f, k, nat) => Calls(t, f2, k, nat)
    BY <2>2 DEF Calls
  <2> QED BY <1>1, <2>2, <2>3 DEF Explained
<1>5. Marks(fast, t, f2, nat, g)
  <2>1. DOMAIN f = 1 .. Len(f) /\ DOMAIN f2 = 1 .. Len(f2) /\ Len(f) \in Nat /\ Len(f2) \in Nat
    BY FrameIs
  <2>2. ASSUME NEW p \in DOMAIN f2, f2[p].handle, NEW k \in 1 .. (p - 1), Bad(f2, k)
        PROVE  \E j \in 2 .. Len(nat) : nat[j].L = t /\ nat[j].fn = "luaD_pcall" /\ nat[j].frames = p
    <3>1. k \in DOMAIN f2
      BY <2>1, <2>2
    <3>2. p \in DOMAIN f /\ f[p].handle /\ Bad(f, k)
      BY <2>2, <3>1 DEF NoWorse
    <3> QED BY <1>1, <2>2, <3>2 DEF Marks
  <2>3. ASSUME ~fast, NEW i \in 2 .. Len(nat), nat[i].L = t, nat[i].fn = "luaD_pcall",
               NEW p \in (g[i].h + 1) .. Len(f2), f2[p].handle
        PROVE  \E j \in (i + 1) .. Len(nat) : nat[j].L = t /\ nat[j].fn = "luaD_pcall" /\ nat[j].frames = p
    <3>1. g[i].h \in Nat
      <4>1. i \in 1 .. Len(g)
        BY <1>2, <2>3
      <4> QED BY <4>1, LenIs, NoteIs
    <3>2. p \in DOMAIN f2
      BY <2>1, <2>3, <3>1
    <3>3. p \in DOMAIN f /\ f[p].handle
      BY <2>3, <3>2 DEF NoWorse
    <3>4. p \in (g[i].h + 1) .. Len(f)
      BY <2>1, <2>3, <3>1, <3>3
    <3> QED BY <1>1, <2>3, <3>3, <3>4 DEF Marks
  <2> QED BY <2>2, <2>3 DEF Marks
<1> QED BY <1>2, <1>3, <1>4, <1>5 DEF Whole, Frames

\* The loop of resume_continue goes on.
Loops(fast, t, f, n, b, nat, g, N) ==
    /\ Whole(fast, t, f, nat, g) /\ n >= g[N].c /\ b >= g[N].b /\ n = b /\ g[N].y = 0 /\ g[N].h < Len(f)
    /\ f[Len(f)].kind # "c"

LEMMA LoopReturned ==
  ASSUME NEW g, NEW nat, NEW N, NEW t, NEW f, NEW n, NEW b, NEW st,
         At(g, nat, N, t, f, n, b, st), signal = "return", st = "ok", nat[N].fn = "resume_continue",
         nat[N].base < Len(f)
  PROVE  Loops(luauFastpcall, t, f, n, b, nat, g, N)
<1>1. Fits(nat[N], g[N], f, n, b) /\ Whole(luauFastpcall, t, f, nat, g)
  BY TopReturns
<1>2. Atop(luauFastpcall, nat[N - 1], g[N - 1], nat[N], g[N]) /\ g[N] \in Note /\ nat[N] \in Element
  BY AtTop
<1>3. nat[N].base = g[N].h /\ g[N].h \in Nat
  BY <1>2, NoteIs DEF Atop, Noted
<1>4. n \in Nat /\ b \in Nat /\ f \in Seq(FrameType) /\ Len(f) \in Nat
  BY FrameIs DEF At
<1>5. g[N].h < Len(f) /\ Len(f) # g[N].h
  BY <1>3, <1>4
<1>6. n >= g[N].c /\ b >= g[N].b /\ n = b + g[N].y /\ g[N].y = 0
  BY <1>1, <1>5 DEF Fits, Handling
<1>7. f[Len(f)].kind # "c"
  BY <1>1, <1>4, <1>5 DEF Fits
<1>8. n = b
  BY <1>4, <1>6
<1> QED BY <1>1, <1>5, <1>6, <1>7, <1>8 DEF Loops

LEMMA LoopReentered ==
  ASSUME NEW g, NEW nat, NEW N, NEW t, NEW f, NEW n, NEW b, NEW st,
         At(g, nat, N, t, f, n, b, st), signal = "return", st = "reentry", nat[N].fn = "resume_continue",
         nat[N].base < Len(f)
  PROVE  Loops(luauFastpcall, t, f, n, b, nat, g, N)
<1>1. st # "ok"
  OBVIOUS
<1>2. /\ n >= g[N].c /\ n >= g[N].b /\ n = b /\ g[N].y = 0 /\ Clear(nat, N) /\ ~Handling(nat[N])
      /\ Frames(luauFastpcall, t, f, nat, g, "luaD_pcall") /\ Explained(t, f, nat, g, FALSE)
      /\ Leaves(f, st) /\ FramesOK(luauFastpcall, f)
  BY <1>1, TopYields
<1>3. /\ Atop(luauFastpcall, nat[N - 1], g[N - 1], nat[N], g[N]) /\ g[N] \in Note /\ nat[N - 1] \in Element
      /\ (N = 2 => nat[N].fn \in {"luaD_pcall", "lua_resume"})
  BY AtTop
<1>4. /\ Stack(luauFastpcall, nat, g) /\ nat \in Seq(Element) /\ g \in Seq(Note) /\ Len(nat) = N /\ N > 1 /\ N > 2
      /\ nat[N].L = t /\ f \in Seq(FrameType) /\ N \in Nat /\ n \in Nat /\ b \in Nat /\ Len(f) \in Nat /\ Len(g) = N
  <2>1. N > 2
    BY <1>3, AtStack
  <2> QED BY <2>1, AtStack, FrameIs
<1>5. nat[N].base = g[N].h /\ g[N].h \in Nat /\ g[N].h < Len(f)
  BY <1>3, NoteIs DEF Atop, Noted
<1>6. f[Len(f)].kind = "lua"
  BY <1>2 DEF Leaves
<1>7. Known(t, f, nat, g, N, "none")
  <2>1. Known(t, f, nat, g, N, "luaD_pcall")
    BY <1>2, <1>4 DEF Frames
  <2>2. SUFFICES ASSUME NEW i \in 2 .. N, nat[i].L = t
                 PROVE  Knows(f, nat[i - 1], g[i - 1], nat[i], g[i], IF i < N THEN nat[i + 1].fn ELSE "none")
    BY DEF Known
  <2>3. Knows(f, nat[i - 1], g[i - 1], nat[i], g[i], IF i < N THEN nat[i + 1].fn ELSE "luaD_pcall")
    BY <2>1, <2>2 DEF Known
  <2>4. CASE i < N
    BY <2>3, <2>4
  <2>5. CASE i = N
    <3>1. Knows(f, nat[i - 1], g[i - 1], nat[i], g[i], "luaD_pcall") /\ nat[i].fn # "C"
      BY <1>4, <2>3, <2>5
    <3>2. Knows(f, nat[i - 1], g[i - 1], nat[i], g[i], "none")
      BY <3>1 DEF Knows
    <3> QED BY <1>4, <2>5, <3>2
  <2> QED BY <1>4, <2>2, <2>4, <2>5
<1>8. Marks(luauFastpcall, t, f, nat, g)
  <2>1. \A k \in DOMAIN f : BadCalls(f, k, nat, t) /\ (luauFastpcall => ~Bad(f, k))
    <3>1. t = nat[N].L
      BY <1>4
    <3> QED BY <1>2, <1>4, <3>1, CalmFrames
  <2>2. CASE luauFastpcall
    <3>1. \A p \in DOMAIN f : \A k \in 1 .. (p - 1) : k \in DOMAIN f
      BY <1>4, FrameIs
    <3> QED BY <2>1, <2>2, <3>1 DEF Marks
  <2>3. CASE ~luauFastpcall
    <3>1. nat[N - 1].fn = "lua_resume" /\ nat[N - 1].L = t
      BY <1>3, <1>4, <2>3 DEF Atop
    <3>2. \A i \in 2 .. N : nat[i].L = t => i = N \/ i = N - 1
      <4>1. Fresh(nat)
        BY <1>4 DEF Stack
      <4>2. N - 1 \in 2 .. N
        BY <1>4
      <4>3. \A i \in 2 .. N : i = N \/ i = N - 1 \/ i \in 2 .. ((N - 1) - 1)
        BY <1>4
      <4> QED BY <1>4, <3>1, <4>1, <4>2, <4>3 DEF Fresh
    <3>3. \A i \in 2 .. N : nat[i].L = t => nat[i].fn \notin {"luaD_pcall", "luaD_performcally"}
      BY <3>1, <3>2
    <3>4. \A k \in DOMAIN f : ~Bad(f, k)
      BY <1>4, <2>1, <3>3 DEF BadCalls
    <3>5. \A p \in DOMAIN f : \A k \in 1 .. (p - 1) : k \in DOMAIN f
      BY <1>4, FrameIs
    <3> QED BY <1>4, <3>3, <3>4, <3>5 DEF Marks
  <2> QED BY <2>2, <2>3
<1>9. Whole(luauFastpcall, t, f, nat, g)
  BY <1>2, <1>4, <1>7, <1>8 DEF Whole, Frames
<1>10. b >= g[N].b
  BY <1>2
<1> QED BY <1>2, <1>5, <1>6, <1>9, <1>10 DEF Loops

LEMMA LoopClear ==
  ASSUME NEW g, NEW nat, NEW N, NEW t, NEW f, NEW n, NEW b, NEW st, NEW k,
         At(g, nat, N, t, f, n, b, st), nat[N].fn = "resume_continue", Loops(luauFastpcall, t, f, n, b, nat, g, N),
         k \in DOMAIN f, f[k].kind = "c"
  PROVE  ~(k < Len(f))
<1>1. /\ Stack(luauFastpcall, nat, g) /\ nat \in Seq(Element) /\ g \in Seq(Note) /\ Len(nat) = N /\ N > 1
      /\ nat[N].L = t /\ f \in Seq(FrameType)
  BY AtStack
<1>2. g[N].y = 0 /\ Frames(luauFastpcall, t, f, nat, g, "none") /\ Explained(t, f, nat, g, FALSE)
  BY DEF Loops, Whole
<1>3. Clear(nat, N) /\ ~Handling(nat[N]) /\ t = nat[N].L
  <2>1. nat[N].fn # "callerrfunc" /\ (N = 2 => nat[N].fn # "luaD_pcall")
    OBVIOUS
  <2> QED BY <1>1, <1>2, <2>1, ClearIs DEF Handling
<1> QED BY <1>1, <1>2, <1>3, CalmFrames

\* The frame of pcall ends.
LEMMA LoopPops ==
  ASSUME NEW g, NEW nat, NEW N, NEW t, NEW f, NEW n, NEW b, NEW st, NEW f2,
         At(g, nat, N, t, f, n, b, st), nat[N].fn = "resume_continue", Loops(luauFastpcall, t, f, n, b, nat, g, N),
         f2 = Front(f), Becomes(t, f2, n, b, "ok", nat, "return")
  PROVE  CallInv'
<1>1. /\ Stack(luauFastpcall, nat, g) /\ nat \in Seq(Element) /\ g \in Seq(Note) /\ Len(nat) = N /\ N > 1
      /\ nat[N].L = t /\ f \in Seq(FrameType) /\ N \in Nat /\ n \in Nat /\ b \in Nat
  BY AtStack
<1>2. /\ Whole(luauFastpcall, t, f, nat, g) /\ n >= g[N].c /\ b >= g[N].b /\ n = b /\ g[N].y = 0 /\ g[N].h < Len(f)
      /\ FramesOK(luauFastpcall, f)
  BY DEF Loops, Whole, Frames
<1>3. g[N].h \in Nat /\ Len(f) \in Nat /\ DOMAIN f = 1 .. Len(f)
  BY <1>1, TopIs, NoteIs, FrameIs
<1>4. f # <<>>
  BY <1>1, <1>2, <1>3, LenIs
<1>5. PICK m : m = Len(f) - 1
  OBVIOUS
<1>6. m \in Nat /\ m \in 0 .. Len(f) /\ m \in 0 .. m /\ g[N].h <= m /\ m < Len(f) /\ f2 = SubSeq(f, 1, m)
  <2>1. Front(f) = SubSeq(f, 1, Len(f) - 1)
    BY <1>1, <1>4, FrontIs
  <2>2. m \in Nat /\ m \in 0 .. Len(f) /\ m \in 0 .. m /\ g[N].h <= m /\ m < Len(f)
    BY <1>2, <1>3, <1>5
  <2> QED BY <1>5, <2>1, <2>2
<1>7. /\ f2 \in Seq(FrameType) /\ Len(f2) = m /\ FramesOK(luauFastpcall, f2) /\ NoWorse(f, f2)
      /\ (\A k \in 1 .. m : f2[k] = f[k]) /\ Kept(f, f2, m)
  <2>1. f \in Seq(FrameType) /\ FramesOK(luauFastpcall, f) /\ m \in 0 .. Len(f) /\ f2 = SubSeq(f, 1, m)
    BY <1>1, <1>2, <1>6
  <2>2. f2 \in Seq(FrameType) /\ Len(f2) = m /\ FramesOK(luauFastpcall, f2) /\ NoWorse(f, f2)
    BY <2>1, Prefixed
  <2>3. \A k \in 1 .. m : f2[k] = f[k]
    BY <2>1, Prefixed
  <2>4. \A H \in 0 .. m : Kept(f, f2, H)
    BY <2>1, Prefixed
  <2> QED BY <1>6, <2>2, <2>3, <2>4
<1>8. Whole(luauFastpcall, t, f2, nat, g)
  BY <1>1, <1>2, <1>6, <1>7, WholeLess
<1>9. Len(f2) > g[N].h => f2[Len(f2)].kind # "c"
  <2>1. SUFFICES ASSUME m > g[N].h PROVE f2[m].kind # "c"
    BY <1>7
  <2>2. m \in 1 .. m /\ m \in DOMAIN f
    BY <1>3, <1>6, <2>1
  <2>3. f2[m] = f[m]
    BY <1>7, <2>2
  <2> QED BY <1>6, <2>2, <2>3, LoopClear
<1>10. Returns(luauFastpcall, f2, n, b, nat, g)
  <2>1. n = b + g[N].y
    BY <1>1, <1>2
  <2> QED BY <1>1, <1>2, <1>8, <1>9, <2>1 DEF Returns
<1>11. OnTop(luauFastpcall, f2, n, b, "ok", nat, g, "return") /\ "ok" \in Statuses
  BY <1>10 DEF OnTop, Statuses
<1>12. Moves(nat, g, nat, g, N, t)
  BY <1>1, Stays
<1> QED BY <1>1, <1>7, <1>11, <1>12, AtStep

\* The frame on top is continued, as function fn.
Continued(fast, f, f2, H, r, fn) ==
    /\ f2 \in Seq(FrameType) /\ FramesOK(fast, f2) /\ NoWorse(f, f2) /\ Len(f2) = H
    /\ f2[H] = r /\ ~r.handle /\ r.kind = f[H].kind /\ r.return = f[H].return
    /\ \A k \in 1 .. H : f2[k].kind = f[k].kind /\ f2[k].return = f[k].return /\ f2[k].pcall = f[k].pcall
    /\ \A k \in 1 .. H : k # H => f2[k] = f[k]
    /\ fn = (IF f[H].kind = "lua" THEN "luau_execute" ELSE "C")

LEMMA ContinuedIs ==
  ASSUME NEW fast, NEW f, NEW f2, NEW H, NEW r, NEW fn,
         f \in Seq(FrameType), FramesOK(fast, f), H = Len(f), H > 0,
         r = (IF f[H].kind = "lua" THEN [f[H] EXCEPT !.opyield = FALSE, !.forcall = FALSE] ELSE [f[H] EXCEPT !.handle = FALSE]),
         f2 = [f EXCEPT ![H] = r], fn = (IF f[H].kind = "lua" THEN "luau_execute" ELSE "C")
  PROVE  Continued(fast, f, f2, H, r, fn)
<1>1. H \in 1 .. Len(f) /\ H \in DOMAIN f /\ f[H] \in FrameType /\ DOMAIN f = 1 .. H
  BY FrameIs
<1>2. r \in FrameType /\ r.kind = f[H].kind /\ r.return = f[H].return /\ r.pcall = f[H].pcall
  BY <1>1 DEF FrameType
<1>3. /\ f[H].handle \/ f[H].pcall => f[H].kind = "cont"
      /\ f[H].forcall \/ f[H].opyield => f[H].kind = "lua"
  BY <1>1 DEF FramesOK
<1>4. ~r.handle /\ ~r.forcall /\ ~r.opyield
  <2>1. CASE f[H].kind = "lua"
    <3>1. r = [f[H] EXCEPT !.opyield = FALSE, !.forcall = FALSE]
      BY <2>1
    <3>2. r.handle = f[H].handle /\ ~r.forcall /\ ~r.opyield
      BY <1>1, <3>1 DEF FrameType
    <3> QED BY <1>3, <2>1, <3>2
  <2>2. CASE f[H].kind # "lua"
    <3>1. r = [f[H] EXCEPT !.handle = FALSE]
      BY <2>2
    <3>2. ~r.handle /\ r.forcall = f[H].forcall /\ r.opyield = f[H].opyield
      BY <1>1, <3>1 DEF FrameType
    <3> QED BY <1>3, <2>2, <3>2
  <2> QED BY <2>1, <2>2
<1>5. r.forcall = FALSE /\ r.opyield = FALSE
  BY <1>2, <1>4 DEF FrameType
<1>6. Marked(fast, f, f2, H, r)
  <2>1. (r.handle \/ r.pcall => r.kind = "cont") /\ (r.forcall \/ r.opyield => r.kind = "lua")
    BY <1>2, <1>3, <1>4
  <2>2. fast => r.forcall = r.opyield
    BY <1>5
  <2> QED BY <1>1, <1>2, <2>1, <2>2, MarkedIs
<1>7. /\ f2 \in Seq(FrameType) /\ FramesOK(fast, f2) /\ Len(f2) = H /\ DOMAIN f2 = DOMAIN f /\ f2[H] = r
      /\ \A k \in 1 .. H : k # H => f2[k] = f[k]
      /\ \A k \in DOMAIN f2 : k # H => (Bad(f2, k) => Bad(f, k))
  BY <1>6 DEF Marked
<1>8. ~Bad(f2, H)
  <2>1. f2[H].forcall = FALSE /\ f2[H].opyield = FALSE /\ ~(H < Len(f2))
    BY <1>1, <1>5, <1>7
  <2> QED BY <2>1 DEF Bad
<1>9. \A k \in 1 .. H : f2[k].kind = f[k].kind /\ f2[k].return = f[k].return /\ f2[k].pcall = f[k].pcall
  BY <1>2, <1>7
<1>10. NoWorse(f, f2)
  <2>1. \A k \in DOMAIN f2 : f2[k].handle => f[k].handle
    BY <1>1, <1>4, <1>7
  <2> QED BY <1>1, <1>7, <1>8, <1>9, <2>1 DEF NoWorse
<1> QED BY <1>2, <1>4, <1>7, <1>9, <1>10 DEF Continued

LEMMA ContinuedKept ==
  ASSUME NEW fast, NEW f, NEW f2, NEW H, NEW r, NEW fn, NEW m,
         f \in Seq(FrameType), H = Len(f), Continued(fast, f, f2, H, r, fn), m \in Nat, m < H
  PROVE  Kept(f, f2, m)
<1>1. H \in Nat /\ m + 1 \in 1 .. H /\ DOMAIN f = 1 .. H
  BY FrameIs
<1>2. Len(f2) = H
  BY DEF Continued
<1>3. \A k \in 1 .. m : k \in 1 .. H /\ k # H
  BY <1>1
<1>4. \A k \in 1 .. m : f2[k] = f[k]
  BY <1>3 DEF Continued
<1>5. f2[m + 1].kind = f[m + 1].kind /\ f2[m + 1].return = f[m + 1].return
  BY <1>1 DEF Continued
<1>6. m < Len(f2) /\ f2[m + 1].kind = "lua" =>
          f2[m + 1].return \/ (m < Len(f) /\ f[m + 1].kind = "lua" /\ ~f[m + 1].return)
  BY <1>2, <1>5
<1> QED BY <1>1, <1>2, <1>4, <1>6 DEF Kept

\* What runs a frame that is continued lies on resume_continue.
LEMMA ContinuedAtop ==
  ASSUME NEW fast, NEW f, NEW f2, NEW H, NEW r, NEW fn, NEW t, NEW d, NEW x, NEW w, NEW n, NEW b,
         f \in Seq(FrameType), H = Len(f), Continued(fast, f, f2, H, r, fn), f[H].kind # "c",
         d.fn = "resume_continue", d.L = t, x \in Note, x.y = 0, x.h < H, n >= x.c, b >= x.b, n = b, b \in Nat,
         w = [h |-> H, y |-> 0, c |-> x.c, b |-> x.b]
  PROVE  /\ Atop(fast, d, x, Native(fn, t), w) /\ Knows(f2, d, x, Native(fn, t), w, "none") /\ Callee(f2, n, b, fn, w)
         /\ fn \in {"C", "luau_execute"} /\ w \in Note
<1>1. H \in Nat /\ x.c \in Nat /\ x.b \in Nat
  BY FrameIs DEF Note
<1>2. w \in Note /\ w.h = H /\ w.y = 0 /\ w.c = x.c /\ w.b = x.b
  BY <1>1 DEF Note
<1>3. /\ (fn = "luau_execute" /\ f2[H].kind = "lua") \/ (fn = "C" /\ f2[H].kind # "lua")
      /\ Len(f2) = H /\ ~f2[H].handle
  BY DEF Continued
<1>4. fn \in {"C", "luau_execute"} /\ Native(fn, t).fn = fn /\ Native(fn, t).L = t
  BY <1>3 DEF Native
<1>5. Noted(w, w.h, x.y, x.c, x.b)
  BY <1>2 DEF Noted
<1>6. Atop(fast, d, x, Native(fn, t), w)
  BY <1>2, <1>4, <1>5 DEF Atop
<1>7. Knows(f2, d, x, Native(fn, t), w, "none")
  BY <1>1, <1>2, <1>3, <1>4 DEF Knows, Beginning
<1>8. n = b + w.y
  BY <1>2
<1>9. Callee(f2, n, b, fn, w)
  BY <1>2, <1>3, <1>8 DEF Callee
<1> QED BY <1>2, <1>4, <1>6, <1>7, <1>9

LEMMA LoopRuns ==
  ASSUME NEW g, NEW nat, NEW N, NEW t, NEW f, NEW n, NEW b, NEW st, NEW f2, NEW H, NEW r, NEW fn,
         At(g, nat, N, t, f, n, b, st), nat[N].fn = "resume_continue", Loops(luauFastpcall, t, f, n, b, nat, g, N),
         H = Len(f), Continued(luauFastpcall, f, f2, H, r, fn), Becomes(t, f2, n, b, "ok", Append(nat, Native(fn, t)), "run")
  PROVE  CallInv'
<1>1. /\ Stack(luauFastpcall, nat, g) /\ nat \in Seq(Element) /\ g \in Seq(Note) /\ Len(nat) = N /\ N > 1
      /\ nat[N].L = t /\ f \in Seq(FrameType) /\ N \in Nat /\ n \in Nat /\ b \in Nat /\ t \in Thread /\ Len(g) = N
  BY AtStack
<1>2. /\ Whole(luauFastpcall, t, f, nat, g) /\ n >= g[N].c /\ b >= g[N].b /\ n = b /\ g[N].y = 0 /\ g[N].h < H
      /\ f[H].kind # "c"
  BY DEF Loops
<1>3. g[N] \in Note /\ g[N].h \in Nat
  BY AtTop, NoteIs
<1>4. PICK w : w = [h |-> H, y |-> 0, c |-> g[N].c, b |-> g[N].b]
  OBVIOUS
<1>5. /\ Atop(luauFastpcall, nat[N], g[N], Native(fn, t), w) /\ Knows(f2, nat[N], g[N], Native(fn, t), w, "none")
      /\ Callee(f2, n, b, fn, w) /\ fn \in {"C", "luau_execute"} /\ w \in Note
  BY <1>1, <1>2, <1>3, <1>4, ContinuedAtop
<1>6. Kept(f, f2, g[N].h)
  BY <1>1, <1>2, <1>3, ContinuedKept
<1>7. f2 \in Seq(FrameType) /\ FramesOK(luauFastpcall, f2) /\ NoWorse(f, f2)
  BY DEF Continued
<1>8. g[N].h <= g[N].h
  BY <1>3
<1>9. Whole(luauFastpcall, t, f2, nat, g)
  BY <1>1, <1>2, <1>6, <1>7, <1>8, WholeLess
<1>10. RunsNow(luauFastpcall, f2, n, b, t, Append(nat, Native(fn, t)), Append(g, w), N + 1)
  BY <1>1, <1>5, <1>7, <1>9, RunPush
<1>11. Moves(nat, g, nat, g, N, t)
  BY <1>1, Stays
<1>12. native = nat /\ Top.L = t /\ g \in Seq(Note) /\ Balanced(g)
  BY AtSame DEF At
<1>13. Native(fn, t) \in Element /\ Native(fn, t).L = t
  BY <1>1, <1>5, MadeNative
<1> QED BY <1>1, <1>5, <1>7, <1>10, <1>11, <1>12, <1>13, RunStep

LEMMA ContinueStep ==
  ASSUME NEW g, NEW t, g \in Seq(Note), Balanced(g), t \in Thread, Continue(t), UNCHANGED luauFastpcall
  PROVE  CallInv'
<1>1. signal = "return" /\ Top.fn = "resume_continue" /\ Top.L = t
  BY DEF Continue, Returned
<1>2. PICK nat, N, f, n, b, st : At(g, nat, N, t, f, n, b, st)
  BY <1>1, AboveHost
<1>3. /\ native = nat /\ Top = nat[N] /\ status[t] = st /\ ci[t] = f /\ [ci EXCEPT ![t] = f] = ci
      /\ [nCcalls EXCEPT ![t] = n] = nCcalls /\ [baseCcalls EXCEPT ![t] = b] = baseCcalls
  BY <1>2, AtSame
<1>4. nat[N].fn = "resume_continue"
  BY <1>1, <1>3
<1>5. st \in {"ok", "reentry"} /\ Len(f) > nat[N].base
  BY <1>3 DEF Continue, Continues
<1>6. f \in Seq(FrameType) /\ nat[N] \in Element /\ Len(f) \in Nat /\ nat[N].base \in Nat /\ ci \in [Thread -> Seq(FrameType)]
  BY <1>2, <1>4, AtStack, AtTop, FrameIs, ElementIs DEF Balanced, CallTypeOK
<1>7. Loops(luauFastpcall, t, f, n, b, nat, g, N)
  <2>1. nat[N].base < Len(f)
    BY <1>5, <1>6
  <2>2. CASE st = "ok"
    BY <1>1, <1>2, <1>4, <2>1, <2>2, LoopReturned
  <2>3. CASE st = "reentry"
    BY <1>1, <1>2, <1>4, <2>1, <2>3, LoopReentered
  <2> QED BY <1>5, <2>2, <2>3
<1>8. Len(f) > 0
  BY <1>5, <1>6
<1>9. f # <<>> /\ Last(f) = f[Len(f)]
  BY <1>6, <1>8, LenIs DEF Last
<1>10. CASE Last(f).pcall
  <2>1. PICK f2 : f2 = Front(f)
    OBVIOUS
  <2>2. Becomes(t, f2, n, b, "ok", nat, "return")
    BY <1>1, <1>3, <1>10, <2>1 DEF Continue, Becomes, countVars
  <2> QED BY <1>2, <1>4, <1>7, <2>1, <2>2, LoopPops
<1>11. CASE ~Last(f).pcall
  <2>1. PICK H : H = Len(f)
    OBVIOUS
  <2>2. PICK r : r = (IF f[H].kind = "lua" THEN [f[H] EXCEPT !.opyield = FALSE, !.forcall = FALSE] ELSE [f[H] EXCEPT !.handle = FALSE])
    OBVIOUS
  <2>3. PICK f2 : f2 = [f EXCEPT ![H] = r]
    OBVIOUS
  <2>4. PICK fn : fn = (IF f[H].kind = "lua" THEN "luau_execute" ELSE "C")
    OBVIOUS
  <2>5. FramesOK(luauFastpcall, f)
    BY <1>7 DEF Loops, Whole, Frames
  <2>6. Continued(luauFastpcall, f, f2, H, r, fn)
    BY <1>6, <1>8, <2>1, <2>2, <2>3, <2>4, <2>5, ContinuedIs
  <2>7. /\ ci' = [ci EXCEPT ![t][Len(ci[t])] =
                   IF Last(ci[t]).kind = "lua" THEN [@ EXCEPT !.opyield = FALSE, !.forcall = FALSE]
                   ELSE [@ EXCEPT !.handle = FALSE]]
        /\ native' = Append(native, Native(IF Last(ci[t]).kind = "lua" THEN "luau_execute" ELSE "C", t))
        /\ signal' = "run" /\ status' = [status EXCEPT ![t] = "ok"] /\ UNCHANGED countVars
    BY <1>3, <1>11 DEF Continue
  <2>8. ci' = [ci EXCEPT ![t] = f2]
    BY <1>3, <1>6, <1>9, <2>1, <2>2, <2>3, <2>7
  <2>9. native' = Append(nat, Native(fn, t))
    BY <1>3, <1>9, <2>1, <2>4, <2>7
  <2>10. Becomes(t, f2, n, b, "ok", Append(nat, Native(fn, t)), "run")
    BY <1>3, <2>7, <2>8, <2>9 DEF Becomes, countVars
  <2> QED BY <1>2, <1>4, <1>7, <2>1, <2>6, <2>10, LoopRuns
<1> QED BY <1>10, <1>11

-----------------------------------------------------------------------------
(* A resume begins                                                          *)

\* lua_resume of thread t lies on the stack, with c counted calls.
Resumption(e, w, t, c) ==
    /\ e \in Element /\ e.fn = "lua_resume" /\ e.L = t /\ e.nCcalls = c /\ e.phase = "start" /\ e.handler = 0
    /\ w \in Note /\ Noted(w, 0, 0, c, c)

LEMMA ResumptionIs ==
  ASSUME NEW e, NEW w, NEW t, NEW c, t \in Thread, c \in Nat,
         e = [fn |-> "lua_resume", L |-> t, nCcalls |-> c, phase |-> "start", handler |-> 0],
         w = [h |-> 0, y |-> 0, c |-> c, b |-> c]
  PROVE  Resumption(e, w, t, c)
<1>1. e \in [fn : {"lua_resume"}, L : Thread, nCcalls : Nat, phase : Phases, handler : Nat]
  BY DEF Phases
<1>2. e \in Element
  BY <1>1 DEF Element
<1>3. w \in Note /\ Noted(w, 0, 0, c, c)
  BY DEF Note, Noted
<1> QED BY <1>2, <1>3 DEF Resumption

LEMMA ResumptionStack ==
  ASSUME NEW fast, NEW nat, NEW g, NEW N, NEW e, NEW w, NEW t, NEW c,
         nat \in Seq(Element), g \in Seq(Note), Stack(fast, nat, g), Len(nat) = N, Resumption(e, w, t, c),
         nat[N].fn = "C", g[N].c < c, \A k \in 2 .. N : nat[k].L # t
  PROVE  Stack(fast, Append(nat, e), Append(g, w))
<1>1. /\ e \in Element /\ e.fn = "lua_resume" /\ e.L = t /\ e.nCcalls = c /\ e.handler = 0 /\ w \in Note
      /\ Noted(w, e.handler, 0, e.nCcalls, e.nCcalls)
  BY DEF Resumption
<1>2. Atop(fast, nat[N], g[N], e, w)
  BY <1>1 DEF Atop
<1>3. Len(nat) = 1 => e.fn \in {"luaD_pcall", "lua_resume"}
  BY <1>1
<1>4. Len(nat) = 2 /\ nat[2].fn = "luaD_pcall" /\ e.fn = "luaD_callint" => ~e.from
  BY <1>1
<1>5. e.fn = "lua_resume" => \A k \in 2 .. Len(nat) : nat[k].L # e.L
  BY <1>1
<1> QED BY <1>1, <1>2, <1>3, <1>4, <1>5, PushStack

\* A thread that waits for one that it resumed has frames.
LEMMA WaitingFrames ==
  ASSUME NEW g, NEW nat, NEW N, NEW t, NEW i, g \in Seq(Note), Balanced(g), native = nat, Len(nat) = N, t \in Thread,
         i \in 2 .. N, i + 1 \in 2 .. N, nat[i].L = t, nat[i + 1].fn = "lua_resume", nat[N].L # t
  PROVE  status[t] \in {"ok"} /\ ci[t] # <<>>
<1>1. nat \in Seq(Element) /\ Stack(luauFastpcall, nat, g) /\ Len(g) = N /\ N \in Nat /\ N > 1 /\ ci[t] \in Seq(FrameType)
  BY LenIs DEF Balanced, CallTypeOK, Stack, Grounded
<1>2. Top.L # t
  BY <1>1 DEF Top, Last
<1>3. Rests(luauFastpcall, t, ci[t], nCcalls[t], baseCcalls[t], status[t], nat, g)
  BY <1>2 DEF Balanced
<1>4. i \in 2 .. (N - 1) /\ (i + 1) - 1 = i /\ i \in 1 .. N /\ i - 1 \in 1 .. N
  BY <1>1
<1>5. Waits(luauFastpcall, t, ci[t], nCcalls[t], baseCcalls[t], status[t], nat, g, i)
  BY <1>3, <1>4 DEF Rests
<1>6. nat[i].fn = "C"
  <2>1. Atop(luauFastpcall, nat[(i + 1) - 1], g[(i + 1) - 1], nat[i + 1], g[i + 1])
    BY <1>1 DEF Stack, Lies
  <2>2. Atop(luauFastpcall, nat[i], g[i], nat[i + 1], g[i + 1])
    BY <1>4, <2>1
  <2> QED BY <2>2 DEF Atop
<1>7. g[i - 1].h < g[i].h
  <2>1. Atop(luauFastpcall, nat[i - 1], g[i - 1], nat[i], g[i])
    BY <1>1 DEF Stack, Lies
  <2> QED BY <1>6, <2>1 DEF Atop
<1>8. g[i - 1].h \in Nat /\ g[i].h \in Nat
  BY <1>1, <1>4, LenIs, NoteIs
<1>9. status[t] = "ok" /\ Len(ci[t]) = g[i].h
  BY <1>5 DEF Waits
<1>10. Len(ci[t]) # 0
  BY <1>7, <1>8, <1>9
<1>11. ci[t] # <<>>
  BY <1>1, <1>10, LenIs
<1> QED BY <1>9, <1>11

\* The thread on top is not the one to be resumed: it runs, and has frames.
LEMMA RunningFrames ==
  ASSUME NEW g, g \in Seq(Note), Balanced(g), Len(native) > 1, Running("C", Top.L)
  PROVE  /\ status[Top.L] \in {"ok"} /\ ci[Top.L] # <<>> /\ Top.L \in Thread /\ signal = "run"
         /\ nCcalls[Top.L] >= g[Len(native)].c /\ native[Len(native)].fn = "C"
<1>1. signal = "run" /\ Top.fn = "C" /\ ~Host
  <2>1. signal = "run" /\ Top.fn = "C"
    BY DEF Running
  <2>2. PICK M : M = Len(native)
    OBVIOUS
  <2>3. M > 1
    BY <2>2
  <2>4. M # 1
    BY <2>3
  <2> QED BY <2>1, <2>2, <2>4 DEF Host
<1>2. Top.L \in Thread /\ \E nat, N, f, n, b, st : At(g, nat, N, Top.L, f, n, b, st)
  BY <1>1, AboveHost
<1>3. PICK t : t = Top.L
  OBVIOUS
<1>4. PICK nat, N, f, n, b, st : At(g, nat, N, t, f, n, b, st)
  BY <1>2, <1>3
<1>5. /\ native = nat /\ Top = nat[N] /\ status[t] = st /\ ci[t] = f /\ nCcalls[t] = n
  BY <1>4, AtSame
<1>6. nat[N].fn = "C" /\ Len(nat) = N
  BY <1>1, <1>4, <1>5, AtStack
<1>7. Level(g[N], f, n, b, st)
  BY <1>1, <1>4, <1>6, TopRuns
<1>8. st = "ok" /\ f # <<>> /\ n >= g[N].c
  BY <1>7 DEF Level
<1>9. status[t] \in {"ok"} /\ ci[t] # <<>> /\ nCcalls[t] >= g[N].c
  BY <1>5, <1>8
<1>10. Len(native) = N /\ native[N].fn = "C"
  BY <1>5, <1>6
<1> QED BY <1>1, <1>2, <1>3, <1>9, <1>10

LEMMA NotOnStack ==
  ASSUME NEW g, NEW t, g \in Seq(Note), Balanced(g), t \in Thread, Len(native) > 1, Running("C", Top.L),
         status[t] = "yield" \/ ci[t] = <<>>
  PROVE  \A k \in 2 .. Len(native) : native[k].L # t
<1>1. PICK nat, N : nat = native /\ N = Len(native)
  OBVIOUS
<1>2. nat \in Seq(Element) /\ Stack(luauFastpcall, nat, g) /\ Len(nat) = N /\ N \in Nat /\ N > 1
  BY <1>1, LenIs DEF Balanced, CallTypeOK
<1>3. nat[N].L # t
  <2>1. status[Top.L] \in {"ok"} /\ ci[Top.L] # <<>>
    BY RunningFrames
  <2>2. Top.L # t
    BY <2>1
  <2> QED BY <1>1, <2>2 DEF Top, Last
<1>4. SUFFICES ASSUME NEW k0 \in 2 .. N, nat[k0].L = t
               PROVE  FALSE
  BY <1>1
<1>5. PICK T : T = {k \in 2 .. N : nat[k].L = t}
  OBVIOUS
<1>6. T \subseteq 1 .. N /\ T # {}
  BY <1>2, <1>4, <1>5
<1>7. PICK i \in T : \A k \in T : k <= i
  BY <1>2, <1>6, Greatest
<1>8. i \in 2 .. N /\ nat[i].L = t /\ i # N
  BY <1>3, <1>5, <1>7
<1>9. i + 1 \in 2 .. N /\ i \in Nat /\ ~(i + 1 <= i) /\ (i + 1) - 1 = i
  BY <1>2, <1>8
<1>10. nat[i + 1].L # t
  BY <1>5, <1>7, <1>9
<1>11. nat[i + 1].fn = "lua_resume"
  <2>1. Atop(luauFastpcall, nat[(i + 1) - 1], g[(i + 1) - 1], nat[i + 1], g[i + 1])
    BY <1>2, <1>9 DEF Stack, Lies
  <2>2. Atop(luauFastpcall, nat[i], g[i], nat[i + 1], g[i + 1])
    BY <1>9, <2>1
  <2> QED BY <1>8, <1>10, <2>2 DEF Atop
<1>12. status[t] \in {"ok"} /\ ci[t] # <<>>
  BY <1>1, <1>2, <1>3, <1>8, <1>9, <1>11, WaitingFrames
<1> QED BY <1>12

\* An element of another thread lies on top.
LEMMA WholeBelow ==
  ASSUME NEW fast, NEW nat, NEW g, NEW N, NEW e, NEW w, NEW u, NEW f,
         nat \in Seq(Element), g \in Seq(Note), Len(nat) = N, Len(g) = N, N > 1, e \in Element, w \in Note, e.L # u,
         Whole(fast, u, f, nat, g)
  PROVE  Whole(fast, u, f, Append(nat, e), Append(g, w))
<1>1. PICK nat2, g2 : nat2 = Append(nat, e) /\ g2 = Append(g, w)
  OBVIOUS
<1>2. /\ Len(nat2) = N + 1 /\ \A i \in 1 .. N : nat2[i] = nat[i] /\ g2[i] = g[i]
  BY <1>1, PushIs
<1>3. nat2[N + 1].L # u /\ N \in Nat
  BY <1>1, PushIs, LenIs
<1>4. FramesOK(fast, f) /\ Known(u, f, nat, g, N, "none") /\ Explained(u, f, nat, g, FALSE) /\ Marks(fast, u, f, nat, g)
  BY DEF Whole, Frames
<1>5. \A i \in 2 .. N : /\ i \in 2 .. (N + 1) /\ nat2[i] = nat[i] /\ g2[i] = g[i]
                        /\ nat2[i - 1] = nat[i - 1] /\ g2[i - 1] = g[i - 1]
                        /\ i < N => nat2[i + 1] = nat[i + 1]
  BY <1>2, <1>3
<1>6. \A i \in 2 .. (N + 1) : nat2[i].L = u => i \in 2 .. N
  BY <1>3
<1>7. Known(u, f, nat2, g2, N + 1, "none")
  <2>1. SUFFICES ASSUME NEW i \in 2 .. (N + 1), nat2[i].L = u
                 PROVE  Knows(f, nat2[i - 1], g2[i - 1], nat2[i], g2[i], IF i < N + 1 THEN nat2[i + 1].fn ELSE "none")
    BY DEF Known
  <2>2. i \in 2 .. N /\ nat[i].L = u
    BY <1>5, <1>6, <2>1
  <2>3. Knows(f, nat2[i - 1], g2[i - 1], nat2[i], g2[i], IF i < N THEN nat[i + 1].fn ELSE "none")
    BY <1>4, <1>5, <2>2 DEF Known
  <2>4. CASE i < N
    <3>1. nat2[i + 1] = nat[i + 1]
      BY <1>5, <2>2, <2>4
    <3>2. i < N + 1
      BY <1>3, <2>2
    <3> QED BY <2>3, <2>4, <3>1, <3>2
  <2>5. CASE ~(i < N)
    <3>1. Knows(f, nat2[i - 1], g2[i - 1], nat2[i], g2[i], "none")
      BY <2>3, <2>5
    <3> QED BY <3>1 DEF Knows
  <2> QED BY <2>4, <2>5
<1>8. Explained(u, f, nat2, g2, FALSE)
  <2>1. SUFFICES ASSUME NEW k \in DOMAIN f, Bad(f, k)
                 PROVE  Calls(u, f, k, nat2) \/ Failed(u, k, nat2, g2, FALSE)
    BY DEF Explained
  <2>2. CASE Calls(u, f, k, nat)
    BY <1>2, <1>5, <2>2 DEF Calls
  <2>3. CASE Failed(u, k, nat, g, FALSE)
    BY <1>2, <1>5, <2>3 DEF Failed
  <2> QED BY <1>4, <2>1, <2>2, <2>3 DEF Explained
<1>9. Marks(fast, u, f, nat2, g2)
  <2>1. ASSUME NEW p \in DOMAIN f, f[p].handle, \E k \in 1 .. (p - 1) : Bad(f, k)
        PROVE  \E j \in 2 .. Len(nat2) : nat2[j].L = u /\ nat2[j].fn = "luaD_pcall" /\ nat2[j].frames = p
    <3>1. PICK j \in 2 .. N : nat[j].L = u /\ nat[j].fn = "luaD_pcall" /\ nat[j].frames = p
      BY <1>4, <2>1 DEF Marks
    <3> QED BY <1>2, <1>5, <3>1
  <2>2. ASSUME ~fast, NEW i \in 2 .. Len(nat2), nat2[i].L = u, nat2[i].fn = "luaD_pcall",
               NEW p \in (g2[i].h + 1) .. Len(f), f[p].handle
        PROVE  \E j \in (i + 1) .. Len(nat2) : nat2[j].L = u /\ nat2[j].fn = "luaD_pcall" /\ nat2[j].frames = p
    <3>1. i \in 2 .. N /\ nat[i] = nat2[i] /\ g[i] = g2[i]
      BY <1>2, <1>5, <1>6, <2>2
    <3>2. PICK j \in (i + 1) .. N : nat[j].L = u /\ nat[j].fn = "luaD_pcall" /\ nat[j].frames = p
      BY <1>4, <2>2, <3>1 DEF Marks
    <3>3. j \in 2 .. N /\ j \in (i + 1) .. Len(nat2)
      BY <1>2, <1>3, <3>1
    <3> QED BY <1>5, <3>2, <3>3
  <2> QED BY <2>1, <2>2 DEF Marks
<1> QED BY <1>1, <1>2, <1>4, <1>7, <1>8, <1>9 DEF Whole, Frames

\* A thread that does not resume rests.
LEMMA RestsBelow ==
  ASSUME NEW fast, NEW nat, NEW g, NEW N, NEW e, NEW w, NEW u, NEW f, NEW n, NEW b, NEW st,
         nat \in Seq(Element), g \in Seq(Note), Len(nat) = N, Len(g) = N, N > 1, e \in Element, w \in Note, e.L # u,
         nat[N].L # u, f \in Seq(FrameType), Rests(fast, u, f, n, b, st, nat, g)
  PROVE  Rests(fast, u, f, n, b, st, Append(nat, e), Append(g, w))
<1>1. /\ Append(nat, e) \in Seq(Element) /\ Len(Append(nat, e)) = N + 1
      /\ \A i \in 1 .. N : Append(nat, e)[i] = nat[i] /\ Append(g, w)[i] = g[i]
      /\ Append(nat, e)[N + 1] = e
  BY PushIs
<1>2. N \in Nat
  BY LenIs
<1>3. Beyond(nat, g, Append(nat, e), Append(g, w), N, u)
  <2>1. N \in 1 .. N /\ N <= N + 1 /\ \A i \in 1 .. (N - 1) : i \in 1 .. N
    BY <1>2
  <2>2. \A j \in N .. (N + 1) : j = N \/ j = N + 1
    BY <1>2
  <2>3. \A j \in N .. N : j = N
    BY <1>2
  <2> QED BY <1>1, <2>1, <2>2, <2>3 DEF Beyond
<1> QED BY <1>1, <1>3, OthersRest

\* The thread that resumes waits.
LEMMA ResumerWaits ==
  ASSUME NEW fast, NEW nat, NEW g, NEW N, NEW e, NEW w, NEW u, NEW f, NEW n, NEW b, NEW st,
         nat \in Seq(Element), g \in Seq(Note), Stack(fast, nat, g), Len(nat) = N, N > 1, e \in Element, w \in Note, e.L # u,
         nat[N].L = u, f \in Seq(FrameType), Level(g[N], f, n, b, st), Whole(fast, u, f, nat, g)
  PROVE  Rests(fast, u, f, n, b, st, Append(nat, e), Append(g, w))
<1>1. N \in Nat /\ Len(g) = N /\ N \in 2 .. N /\ N \in 1 .. N
  BY TopIs
<1>2. PICK nat2, g2 : nat2 = Append(nat, e) /\ g2 = Append(g, w)
  OBVIOUS
<1>3. /\ Len(nat2) = N + 1 /\ \A i \in 1 .. N : nat2[i] = nat[i] /\ g2[i] = g[i]
  BY <1>1, <1>2, PushIs
<1>4. Whole(fast, u, f, nat2, g2)
  BY <1>1, <1>2, WholeBelow
<1>5. Waits(fast, u, f, n, b, st, nat2, g2, N)
  <2>1. g2[N] = g[N]
    BY <1>1, <1>3
  <2> QED BY <1>4, <2>1 DEF Waits, Level
<1>6. ~(\A i \in 2 .. Len(nat2) : nat2[i].L # u)
  <2>1. N \in 2 .. Len(nat2) /\ nat2[N].L = u
    BY <1>1, <1>3
  <2> QED BY <2>1
<1>7. ASSUME NEW i \in 2 .. (N - 1), nat[i].L = u
      PROVE  nat[i + 1].fn # "lua_resume"
  <2>1. i \in 2 .. N /\ i + 1 \in i .. N /\ i + 1 \in 2 .. N /\ i \in 2 .. ((i + 1) - 1)
    BY <1>1
  <2>2. nat[i].L = nat[N].L
    BY <1>7
  <2>3. \A k \in i .. N : nat[k].L = nat[N].L
    BY <1>1, <2>1, <2>2, TopHighest
  <2>4. nat[i + 1].L = u
    BY <2>1, <2>3
  <2>5. nat[i + 1].fn = "lua_resume" => nat[i].L # nat[i + 1].L
    BY <1>1, <2>1 DEF Stack, Fresh
  <2> QED BY <1>7, <2>4, <2>5
<1>8. ASSUME NEW i \in 2 .. N, nat2[i].L = u, nat2[i + 1].fn = "lua_resume"
      PROVE  i = N
  <2>1. SUFFICES ASSUME i # N PROVE FALSE
    OBVIOUS
  <2>2. i \in 2 .. (N - 1) /\ i \in 1 .. N /\ i + 1 \in 1 .. N
    BY <1>1, <2>1
  <2>3. nat[i].L = u /\ nat[i + 1].fn = "lua_resume"
    BY <1>3, <1>8, <2>2
  <2> QED BY <1>7, <2>2, <2>3
<1>9. 2 .. (Len(nat2) - 1) = 2 .. N
  BY <1>1, <1>3
<1>10. \A i \in 2 .. (Len(nat2) - 1) : (nat2[i].L = u /\ nat2[i + 1].fn = "lua_resume") => Waits(fast, u, f, n, b, st, nat2, g2, i)
  BY <1>5, <1>8, <1>9
<1> QED BY <1>2, <1>6, <1>10 DEF Rests

\* Thread u rests when it is no thread that is on the stack, or on that of the host.
LEMMA RestsOnHost ==
  ASSUME NEW fast, NEW nat, NEW g, NEW e, NEW w, NEW u, NEW f, NEW n, NEW b, NEW st,
         nat \in Seq(Element), g \in Seq(Note), Len(nat) = 1, Len(g) = 1, e \in Element, w \in Note,
         Rests(fast, u, f, n, b, st, nat, g)
  PROVE  Rests(fast, u, f, n, b, st, Append(nat, e), Append(g, w))
<1>1. Len(Append(nat, e)) = 2
  <2>1. PICK N : N = 1
    OBVIOUS
  <2>2. Len(nat) = N /\ Len(g) = N
    BY <2>1
  <2>3. Len(Append(nat, e)) = N + 1
    BY <2>2, PushIs
  <2> QED BY <2>1, <2>3
<1>2. 2 .. (2 - 1) = {} /\ 2 .. 1 = {}
  OBVIOUS
<1>3. st = "yield" => Suspended(fast, f)
  BY <1>2 DEF Rests
<1> QED BY <1>1, <1>2, <1>3 DEF Rests

\* The thread that is resumed runs.
LEMMA ResumedRuns ==
  ASSUME NEW fast, NEW nat, NEW g, NEW N, NEW e, NEW w, NEW t, NEW c, NEW f, NEW st,
         nat \in Seq(Element), g \in Seq(Note), Len(nat) = N, Len(g) = N, Resumption(e, w, t, c), c \in Nat,
         (st = "ok" /\ f = <<>>) \/ (st = "yield" /\ Suspended(fast, f))
  PROVE  OnTop(fast, f, c, c, st, Append(nat, e), Append(g, w), "run")
<1>1. e \in Element /\ w \in Note /\ e.fn = "lua_resume" /\ e.phase = "start" /\ w.c = c /\ w.b = c /\ w.y = 0
  BY DEF Resumption, Noted
<1>2. PICK nat2, g2 : nat2 = Append(nat, e) /\ g2 = Append(g, w)
  OBVIOUS
<1>3. Len(nat2) = N + 1 /\ nat2[N + 1] = e /\ g2[N + 1] = w
  BY <1>1, <1>2, PushIs
<1>4. nat2[Len(nat2)] = e /\ g2[Len(nat2)] = w
  BY <1>3
<1>5. c >= w.c /\ c >= w.b /\ c = c + w.y
  BY <1>1
<1>6. Runs(fast, f, c, c, st, nat2, g2)
  BY <1>1, <1>4, <1>5 DEF Runs
<1> QED BY <1>2, <1>6 DEF OnTop

LEMMA ResumeBegins ==
  ASSUME NEW g, NEW t, NEW nat, NEW N, NEW e, NEW w, NEW c,
         g \in Seq(Note), Balanced(g), t \in Thread, native = nat, Len(nat) = N, Resumption(e, w, t, c), c \in Nat,
         nat[N].fn = "C", g[N].c < c, \A k \in 2 .. N : nat[k].L # t, N > 1 => Running("C", Top.L),
         status[t] = "yield" \/ (status[t] = "ok" /\ ci[t] = <<>>),
         Becomes(t, ci[t], c, c, status[t], Append(nat, e), "run")
  PROVE  CallInv'
<1>1. /\ CallTypeOK /\ Stack(luauFastpcall, nat, g) /\ nat \in Seq(Element) /\ N \in Nat /\ N > 0 /\ Len(g) = N
      /\ MainThread \in Thread /\ ci[t] \in Seq(FrameType) /\ status[t] \in Statuses
  BY LenIs, CallAssumption DEF Balanced, CallTypeOK, Stack, Grounded
<1>2. PICK nat2, g2 : nat2 = Append(nat, e) /\ g2 = Append(g, w)
  OBVIOUS
<1>3. e \in Element /\ w \in Note /\ e.L = t
  BY DEF Resumption
<1>4. /\ nat2 \in Seq(Element) /\ g2 \in Seq(Note) /\ Len(nat2) = N + 1 /\ \A i \in 1 .. N : nat2[i] = nat[i]
      /\ nat2[N + 1] = e
  BY <1>1, <1>2, <1>3, PushIs
<1>5. Stack(luauFastpcall, nat2, g2)
  BY <1>1, <1>2, ResumptionStack
<1>6. Len(nat2) # 0 /\ Len(nat2) # 1 /\ Len(nat2) > 1
  BY <1>1, <1>4
<1>7. nat2 # <<>>
  BY <1>6, NotEmpty
<1>8. N > 1 => Top.L # t
  <2>1. SUFFICES ASSUME N > 1 PROVE Top.L # t
    OBVIOUS
  <2>2. N \in 2 .. N
    BY <1>1, <2>1
  <2> QED BY <2>2 DEF Top, Last
<1>9. /\ CallTypeOK'
      /\ ci'[t] = ci[t] /\ nCcalls'[t] = c /\ baseCcalls'[t] = c /\ status'[t] = status[t]
      /\ \A u \in Thread : u # t => /\ ci'[u] = ci[u] /\ nCcalls'[u] = nCcalls[u]
                                    /\ baseCcalls'[u] = baseCcalls[u] /\ status'[u] = status[u]
  <2>1. Becomes(t, ci[t], c, c, status[t], nat2, "run")
    BY <1>2
  <2>2. "run" \in {"run", "return", "throw"}
    OBVIOUS
  <2> QED BY <1>1, <1>4, <1>7, <2>1, <2>2, BecomesIs
<1>10. native' = nat2 /\ signal' = "run" /\ luauFastpcall' = luauFastpcall
  BY <1>2 DEF Becomes
<1>11. Top'.L = t
  <2>1. Top' = nat2[Len(nat2)]
    BY <1>10 DEF Top, Last
  <2> QED BY <1>3, <1>4, <2>1
<1>12. status[t] = "yield" => Suspended(luauFastpcall, ci[t])
  <2>1. Len(native) > 1 => t # Top.L
    BY <1>8
  <2>2. Rests(luauFastpcall, t, ci[t], nCcalls[t], baseCcalls[t], status[t], nat, g)
    BY <2>1 DEF Balanced
  <2> QED BY <2>2 DEF Rests
<1>13. OnTop(luauFastpcall, ci[t], c, c, status[t], nat2, g2, "run")
  BY <1>1, <1>2, <1>12, ResumedRuns
<1>14. (\A i \in 2 .. Len(nat2) : nat2[i].L # MainThread) => nCcalls'[MainThread] = baseCcalls'[MainThread]
  <2>1. SUFFICES ASSUME \A i \in 2 .. Len(nat2) : nat2[i].L # MainThread
                 PROVE  nCcalls'[MainThread] = baseCcalls'[MainThread]
    OBVIOUS
  <2>2. N + 1 \in 2 .. Len(nat2)
    BY <1>1, <1>4
  <2>3. t # MainThread
    BY <1>3, <1>4, <2>1, <2>2
  <2>4. \A i \in 2 .. N : i \in 2 .. Len(nat2) /\ nat2[i] = nat[i]
    BY <1>1, <1>4
  <2>5. \A i \in 2 .. Len(native) : native[i].L # MainThread
    BY <2>1, <2>4
  <2>6. nCcalls[MainThread] = baseCcalls[MainThread]
    BY <2>5 DEF Balanced
  <2> QED BY <1>1, <1>9, <2>3, <2>6
<1>15. ASSUME NEW u \in Thread, u # t
       PROVE  Rests(luauFastpcall, u, ci'[u], nCcalls'[u], baseCcalls'[u], status'[u], nat2, g2)
  <2>1. ci[u] \in Seq(FrameType) /\ e.L # u
    BY <1>1, <1>3, <1>15 DEF CallTypeOK
  <2>2. CASE N > 1 /\ u = Top.L
    <3>1. PICK m, f, n, b, st : At(g, nat, m, Top.L, f, n, b, st)
      <4>1. ~Host
        BY <1>1, <2>2 DEF Host
      <4>2. \E nat0, m, f, n, b, st : At(g, nat0, m, Top.L, f, n, b, st)
        BY <4>1, AboveHost
      <4>3. PICK nat0, m, f, n, b, st : At(g, nat0, m, Top.L, f, n, b, st)
        BY <4>2
      <4>4. nat0 = nat
        BY <4>3, AtSame
      <4> QED BY <4>3, <4>4
    <3>2. m = N /\ nat[N].L = u /\ ci[u] = f /\ nCcalls[u] = n /\ baseCcalls[u] = b /\ status[u] = st
      BY <2>2, <3>1, AtSame, AtStack
    <3>3. At(g, nat, N, u, f, n, b, st)
      BY <2>2, <3>1, <3>2
    <3>4. signal = "run" /\ nat[N].fn # "lua_resume"
      BY <2>2 DEF Running
    <3>5. Level(g[N], f, n, b, st) /\ Whole(luauFastpcall, u, f, nat, g)
      BY <3>3, <3>4, TopRuns
    <3>6. Rests(luauFastpcall, u, f, n, b, st, nat2, g2)
      <4>1. f \in Seq(FrameType) /\ N > 1
        BY <2>1, <2>2, <3>2
      <4> QED BY <1>1, <1>2, <1>3, <2>1, <3>2, <3>5, <4>1, ResumerWaits
    <3> QED BY <1>9, <1>15, <3>2, <3>6
  <2>3. CASE ~(N > 1 /\ u = Top.L)
    <3>1. Rests(luauFastpcall, u, ci[u], nCcalls[u], baseCcalls[u], status[u], nat, g)
      BY <2>3 DEF Balanced
    <3>2. CASE N > 1
      <4>1. nat[N].L # u
        BY <2>3, <3>2 DEF Top, Last
      <4>2. Rests(luauFastpcall, u, ci[u], nCcalls[u], baseCcalls[u], status[u], nat2, g2)
        BY <1>1, <1>2, <1>3, <2>1, <3>1, <3>2, <4>1, RestsBelow
      <4> QED BY <1>9, <1>15, <4>2
    <3>3. CASE ~(N > 1)
      <4>1. Len(nat) = 1 /\ Len(g) = 1
        BY <1>1, <3>3
      <4>2. Rests(luauFastpcall, u, ci[u], nCcalls[u], baseCcalls[u], status[u], nat2, g2)
        BY <1>1, <1>2, <1>3, <3>1, <4>1, RestsOnHost
      <4> QED BY <1>9, <1>15, <4>2
    <3> QED BY <3>2, <3>3
  <2> QED BY <2>2, <2>3
<1>16. Balanced(g2)'
  BY <1>4, <1>5, <1>6, <1>9, <1>10, <1>11, <1>13, <1>14, <1>15 DEF Balanced
<1> QED BY <1>4, <1>16 DEF CallInv

\* A thread that is not on the stack changes.
LEMMA AwayStep ==
  ASSUME NEW g, NEW t, NEW nat, NEW N, NEW f, NEW n, NEW b, NEW st,
         g \in Seq(Note), Balanced(g), t \in Thread, native = nat, Len(nat) = N, t # MainThread,
         \A k \in 2 .. N : nat[k].L # t, f \in Seq(FrameType), n \in Nat, b \in Nat, st \in Statuses,
         st = "yield" => Suspended(luauFastpcall, f), Becomes(t, f, n, b, st, nat, signal)
  PROVE  CallInv'
<1>1. /\ CallTypeOK /\ Stack(luauFastpcall, nat, g) /\ nat \in Seq(Element) /\ N \in Nat /\ nat # <<>>
      /\ MainThread \in Thread /\ signal \in {"run", "return", "throw"}
  BY LenIs, CallAssumption DEF Balanced, CallTypeOK, Stack, Grounded
<1>2. /\ CallTypeOK'
      /\ ci'[t] = f /\ nCcalls'[t] = n /\ baseCcalls'[t] = b /\ status'[t] = st
      /\ \A u \in Thread : u # t => /\ ci'[u] = ci[u] /\ nCcalls'[u] = nCcalls[u]
                                    /\ baseCcalls'[u] = baseCcalls[u] /\ status'[u] = status[u]
  <2>1. PICK sig : sig = signal
    OBVIOUS
  <2>2. Becomes(t, f, n, b, st, nat, sig) /\ sig \in {"run", "return", "throw"}
    BY <1>1, <2>1
  <2> QED BY <1>1, <2>2, BecomesIs
<1>3. native' = nat /\ signal' = signal /\ luauFastpcall' = luauFastpcall
  BY DEF Becomes
<1>4. Top' = Top /\ Top = nat[N]
  BY <1>3 DEF Top, Last
<1>5. N > 1 => Top.L # t /\ Top.L \in Thread
  <2>1. SUFFICES ASSUME N > 1 PROVE Top.L # t /\ Top.L \in Thread
    OBVIOUS
  <2>2. N \in 2 .. N /\ N \in 1 .. N
    BY <1>1, <2>1
  <2>3. nat[N] \in Element
    BY <1>1, <2>2, LenIs
  <2> QED BY <1>4, <2>2, <2>3, ElementIs
<1>6. (\A i \in 2 .. N : nat[i].L # MainThread) => nCcalls'[MainThread] = baseCcalls'[MainThread]
  BY <1>1, <1>2 DEF Balanced
<1>7. N > 1 => OnTop(luauFastpcall, ci'[Top.L], nCcalls'[Top.L], baseCcalls'[Top.L], status'[Top.L], nat, g, signal)
  BY <1>2, <1>5 DEF Balanced
<1>8. ASSUME NEW u \in Thread, N > 1 => u # Top.L
      PROVE  Rests(luauFastpcall, u, ci'[u], nCcalls'[u], baseCcalls'[u], status'[u], nat, g)
  <2>1. CASE u = t
    <3>1. \A i \in 2 .. (N - 1) : i \in 2 .. N
      BY <1>1
    <3> QED BY <1>2, <2>1, <3>1 DEF Rests
  <2>2. CASE u # t
    <3>1. Rests(luauFastpcall, u, ci[u], nCcalls[u], baseCcalls[u], status[u], nat, g)
      BY <1>8 DEF Balanced
    <3> QED BY <1>2, <2>2, <3>1
  <2> QED BY <2>1, <2>2
<1>9. N = 1 => signal # "throw"
  BY DEF Balanced
<1>10. Balanced(g)'
  BY <1>1, <1>2, <1>3, <1>4, <1>6, <1>7, <1>8, <1>9 DEF Balanced
<1> QED BY <1>10 DEF CallInv

\* The host, or the function on top
LEMMA CallerIs ==
  ASSUME NEW g, NEW nat, NEW N, g \in Seq(Note), Balanced(g), native = nat, Len(nat) = N,
         CFunction(Top.L) \/ (Host /\ signal = "run")
  PROVE  /\ signal = "run" /\ nat[N].fn = "C" /\ nat \in Seq(Element) /\ N \in Nat /\ N > 0
         /\ N > 1 => Running("C", Top.L)
         /\ Host => N = 1 /\ g[N].c = 0
         /\ ~Host => N > 1 /\ Top.L \in Thread /\ nCcalls[Top.L] >= g[N].c
<1>1. nat \in Seq(Element) /\ N \in Nat /\ N > 0 /\ nat[1] = Native("C", MainThread) /\ Noted(g[1], 0, 0, 0, 0)
  BY LenIs DEF Balanced, CallTypeOK, Stack, Grounded
<1>2. CASE Host
  <2>1. N = 1
    BY <1>2 DEF Host
  <2>2. signal = "run"
    BY <1>2 DEF CFunction
  <2> QED BY <1>1, <1>2, <2>1, <2>2 DEF Native, Noted
<1>3. CASE ~Host
  <2>1. N # 1
    BY <1>3 DEF Host
  <2>2. N > 1
    BY <1>1, <2>1
  <2>3. Running("C", Top.L)
    BY <1>3 DEF CFunction
  <2> QED BY <1>1, <1>3, <2>2, <2>3, RunningFrames
<1> QED BY <1>2, <1>3

LEMMA ResumeStep ==
  ASSUME NEW g, NEW t, g \in Seq(Note), Balanced(g), t \in Thread, Resume(t), UNCHANGED luauFastpcall
  PROVE  CallInv'
<1>1. PICK nat, N : native = nat /\ Len(nat) = N
  OBVIOUS
<1>2. PICK count : count = IF Host THEN 0 ELSE nCcalls[Top.L]
  OBVIOUS
<1>3. /\ CFunction(Top.L) \/ (Host /\ signal = "run")
      /\ status[t] = "yield" \/ (status[t] = "ok" /\ ci[t] = <<>>)
      /\ Host \/ t # MainThread
  BY DEF Resume
<1>4. /\ signal = "run" /\ nat[N].fn = "C" /\ nat \in Seq(Element) /\ N \in Nat /\ N > 0
      /\ N > 1 => Running("C", Top.L)
      /\ Host => N = 1 /\ g[N].c = 0
      /\ ~Host => N > 1 /\ Top.L \in Thread /\ nCcalls[Top.L] >= g[N].c
  BY <1>1, <1>3, CallerIs
<1>5. /\ nCcalls \in [Thread -> Nat] /\ baseCcalls \in [Thread -> Nat] /\ ci \in [Thread -> Seq(FrameType)]
      /\ status \in [Thread -> Statuses] /\ Len(g) = N
  BY <1>1 DEF Balanced, CallTypeOK, Stack, Grounded
<1>6. count \in Nat /\ g[N].c <= count
  BY <1>2, <1>4, <1>5
<1>7. \A k \in 2 .. N : nat[k].L # t
  <2>1. CASE N > 1
    <3>1. Len(native) > 1 /\ Running("C", Top.L) /\ (status[t] = "yield" \/ ci[t] = <<>>)
      BY <1>1, <1>3, <1>4, <2>1
    <3> QED BY <1>1, <3>1, NotOnStack
  <2>2. CASE ~(N > 1)
    BY <1>4, <2>2
  <2> QED BY <2>1, <2>2
<1>8. [ci EXCEPT ![t] = ci[t]] = ci /\ [status EXCEPT ![t] = status[t]] = status /\ [baseCcalls EXCEPT ![t] = baseCcalls[t]] = baseCcalls
  BY <1>5
<1>9. CASE count >= MaxCCalls
  <2>1. nCcalls' = [nCcalls EXCEPT ![t] = count] /\ UNCHANGED <<baseCcalls, native, ci, status, signal>>
    BY <1>2, <1>9 DEF Resume
  <2>2. ~Host
    BY <1>2, <1>9, CallAssumption
  <2>3. t # MainThread /\ N > 1
    BY <1>3, <1>4, <2>2
  <2>4. Becomes(t, ci[t], count, baseCcalls[t], status[t], nat, signal)
    BY <1>1, <1>8, <2>1 DEF Becomes
  <2>5. status[t] = "yield" => Suspended(luauFastpcall, ci[t])
    <3>1. N \in 2 .. N
      BY <1>4, <2>3
    <3>2. t # Top.L
      BY <1>1, <1>7, <3>1 DEF Top, Last
    <3>3. Rests(luauFastpcall, t, ci[t], nCcalls[t], baseCcalls[t], status[t], nat, g)
      BY <1>1, <3>2 DEF Balanced
    <3> QED BY <1>1, <1>7, <3>3 DEF Rests
  <2>6. ci[t] \in Seq(FrameType) /\ baseCcalls[t] \in Nat /\ status[t] \in Statuses
    BY <1>5
  <2> QED BY <1>1, <1>6, <1>7, <2>3, <2>4, <2>5, <2>6, AwayStep
<1>10. CASE ~(count >= MaxCCalls)
  <2>1. PICK c : c = count + 1
    OBVIOUS
  <2>2. PICK e : e = [fn |-> "lua_resume", L |-> t, nCcalls |-> c, phase |-> "start", handler |-> 0]
    OBVIOUS
  <2>3. PICK w : w = [h |-> 0, y |-> 0, c |-> c, b |-> c]
    OBVIOUS
  <2>4. c \in Nat /\ g[N].c < c
    <3>1. g[N] \in Note
      BY <1>4, <1>5, LenIs
    <3>2. g[N].c \in Nat
      BY <3>1, NoteIs
    <3> QED BY <1>6, <2>1, <3>2
  <2>5. Resumption(e, w, t, c)
    BY <2>2, <2>3, <2>4, ResumptionIs
  <2>6. /\ nCcalls' = [nCcalls EXCEPT ![t] = c] /\ baseCcalls' = [baseCcalls EXCEPT ![t] = c]
        /\ native' = Append(nat, e) /\ UNCHANGED <<ci, status, signal>>
    BY <1>1, <1>2, <1>10, <2>1, <2>2 DEF Resume
  <2>7. Becomes(t, ci[t], c, c, status[t], Append(nat, e), "run")
    BY <1>4, <1>8, <2>6 DEF Becomes
  <2> QED BY <1>1, <1>3, <1>4, <1>7, <2>4, <2>5, <2>7, ResumeBegins
<1> QED BY <1>9, <1>10

LEMMA ResetThreadStep ==
  ASSUME NEW g, NEW t, g \in Seq(Note), Balanced(g), t \in Thread, ResetThread(t), UNCHANGED luauFastpcall
  PROVE  CallInv'
<1>1. PICK nat, N : native = nat /\ Len(nat) = N
  OBVIOUS
<1>2. nat \in Seq(Element) /\ N \in Nat /\ N > 0 /\ nat[1] = Native("C", MainThread) /\ DOMAIN nat = 1 .. N
  BY <1>1, LenIs DEF Balanced, CallTypeOK, Stack, Grounded
<1>3. \A i \in 1 .. N : nat[i].L # t
  BY <1>1, <1>2 DEF ResetThread
<1>4. t # MainThread /\ \A k \in 2 .. N : nat[k].L # t
  BY <1>2, <1>3 DEF Native
<1>5. Becomes(t, <<>>, 0, 0, "ok", nat, signal)
  BY <1>1 DEF ResetThread, Becomes
<1>6. "ok" \in Statuses /\ <<>> \in Seq(FrameType) /\ 0 \in Nat
  BY DEF Statuses
<1>7. "ok" = "yield" => Suspended(luauFastpcall, <<>>)
  OBVIOUS
<1> QED BY <1>1, <1>4, <1>5, <1>6, <1>7, AwayStep

-----------------------------------------------------------------------------
(* The invariant holds                                                      *)

LEMMA CallInitInv ==
  ASSUME CallInit
  PROVE  CallInv
<1>1. PICK z : z = [h |-> 0, y |-> 0, c |-> 0, b |-> 0]
  OBVIOUS
<1>2. PICK e : e = Native("C", MainThread)
  OBVIOUS
<1>3. PICK nat, g : nat = <<e>> /\ g = <<z>>
  OBVIOUS
<1>4. z \in Note /\ Noted(z, 0, 0, 0, 0) /\ e \in Element /\ e.fn = "C"
  <2>1. e \in [fn : {"C", "luau_execute", "luaD_callny", "callerrfunc"}, L : Thread]
    BY <1>2, CallAssumption DEF Native
  <2> QED BY <1>1, <1>2, <2>1 DEF Note, Noted, Element, Native
<1>5. /\ nat \in Seq(Element) /\ g \in Seq(Note) /\ Len(nat) = 1 /\ Len(g) = 1 /\ nat[1] = e /\ g[1] = z
      /\ nat # <<>>
  BY <1>3, <1>4
<1>6. 2 .. 1 = {} /\ 2 .. 0 = {} /\ 1 .. 1 = {1} /\ DOMAIN <<>> = {}
  OBVIOUS
<1>7. CallTypeOK
  <2>1. native = nat
    BY <1>2, <1>3 DEF CallInit, Native
  <2>2. [t \in Thread |-> <<>>] \in [Thread -> Seq(FrameType)]
    OBVIOUS
  <2>3. [t \in Thread |-> 0] \in [Thread -> Nat] /\ [t \in Thread |-> "ok"] \in [Thread -> Statuses]
    BY DEF Statuses
  <2> QED BY <1>5, <2>1, <2>2, <2>3 DEF CallInit, CallTypeOK
<1>8. DepthOf(nat, 1) = 0
  <2>1. {k \in 1 .. 1 : nat[k].fn \in {"luaD_callint", "luaV_callTM", "luaD_callny", "luaD_performcally", "lua_resume"}} = {}
    BY <1>4, <1>5, <1>6
  <2> QED BY <2>1, FS_EmptySet DEF DepthOf
<1>9. Grounded(nat, g)
  BY <1>2, <1>4, <1>5 DEF Grounded
<1>10. Deep(nat, g)
  <2>1. DepthOf(nat, 1) <= g[1].c
    BY <1>4, <1>5, <1>8 DEF Noted
  <2> QED BY <1>5, <1>6, <2>1 DEF Deep
<1>11. Lies(luauFastpcall, nat, g) /\ Fresh(nat) /\ Together(nat) /\ Rising(nat, g) /\ Clears(nat, g)
  BY <1>5, <1>6 DEF Lies, Fresh, Together, Rising, Clears
<1>12. Stack(luauFastpcall, nat, g)
  BY <1>9, <1>10, <1>11 DEF Stack
<1>13. native = nat /\ signal = "run"
  BY <1>2, <1>3 DEF CallInit, Native
<1>14. nCcalls[MainThread] = baseCcalls[MainThread]
  BY CallAssumption DEF CallInit
<1>15. ASSUME NEW u \in Thread
       PROVE  Rests(luauFastpcall, u, ci[u], nCcalls[u], baseCcalls[u], status[u], nat, g)
  <2>1. status[u] # "yield"
    BY DEF CallInit
  <2>2. 2 .. (Len(nat) - 1) = {}
    BY <1>5
  <2> QED BY <2>1, <2>2 DEF Rests
<1>16. ~(Len(nat) > 1)
  BY <1>5
<1>17. Balanced(g)
  BY <1>5, <1>7, <1>12, <1>13, <1>14, <1>15, <1>16 DEF Balanced
<1> QED BY <1>5, <1>17 DEF CallInv

LEMMA StepOfThread ==
  ASSUME NEW g, g \in Seq(Note), Balanced(g), NEW t, t \in Thread, UNCHANGED luauFastpcall,
         \/ CallIntReturns(t) \/ UncountReturns(t) \/ PerformCallYReturns(t)
         \/ ExecReturn(t) \/ ExecReturned(t)
         \/ CReturn(t) \/ Yield(t) \/ Error(t) \/ CReturned(t)
         \/ PcallReturns(t) \/ PcallFails(t)
         \/ Resume(t) \/ Restart(t) \/ Continue(t) \/ ContinueEnds(t) \/ Reenter(t)
         \/ ResumeEnds(t) \/ ResumeHandled(t) \/ ResetThread(t)
  PROVE  CallInv'
<1>1. CASE CallIntReturns(t)
  BY <1>1, CallIntStep
<1>2. CASE UncountReturns(t)
  BY <1>2, UncountStep
<1>3. CASE PerformCallYReturns(t)
  BY <1>3, PerformCallYStep
<1>4. CASE ExecReturn(t)
  BY <1>4, ExecReturnStep
<1>5. CASE ExecReturned(t)
  BY <1>5, ExecReturnedStep
<1>6. CASE CReturn(t)
  BY <1>6, CReturnStep
<1>7. CASE Yield(t)
  BY <1>7, YieldStep
<1>8. CASE Error(t)
  BY <1>8, ErrorStep
<1>9. CASE CReturned(t)
  BY <1>9, CReturnedStep
<1>10. CASE PcallReturns(t)
  BY <1>10, PcallReturnsStep
<1>11. CASE PcallFails(t)
  BY <1>11, PcallFailsStep
<1>12. CASE Resume(t)
  BY <1>12, ResumeStep
<1>13. CASE Restart(t)
  BY <1>13, RestartStep
<1>14. CASE Continue(t)
  BY <1>14, ContinueStep
<1>15. CASE ContinueEnds(t)
  BY <1>15, ContinueEndsStep
<1>16. CASE Reenter(t)
  BY <1>16, ReenterStep
<1>17. CASE ResumeEnds(t)
  BY <1>17, ResumeEndsStep
<1>18. CASE ResumeHandled(t)
  BY <1>18, ResumeHandledStep
<1>19. CASE ResetThread(t)
  BY <1>19, ResetThreadStep
<1> QED BY <1>1, <1>2, <1>3, <1>4, <1>5, <1>6, <1>7, <1>8, <1>9, <1>10, <1>11, <1>12, <1>13, <1>14, <1>15, <1>16,
           <1>17, <1>18, <1>19

LEMMA StepOfCall ==
  ASSUME NEW g, g \in Seq(Note), Balanced(g), NEW t, t \in Thread, NEW kind, kind \in Kind, UNCHANGED luauFastpcall,
         \/ ExecCall(t, kind) \/ ExecMetamethod(t, kind) \/ ExecForCall(t, kind)
         \/ CCall(t, kind) \/ Start(t, kind)
         \/ PcallHandles(t, kind) \/ ResumeFails(t, kind)
         \/ \E ef \in BOOLEAN : CPcall(t, kind, ef) \/ ExecFastPcall(t, kind, ef)
  PROVE  CallInv'
<1>1. CASE ExecCall(t, kind)
  BY <1>1, ExecCallStep
<1>2. CASE ExecMetamethod(t, kind)
  BY <1>2, ExecMetamethodStep
<1>3. CASE ExecForCall(t, kind)
  BY <1>3, ExecForCallStep
<1>4. CASE CCall(t, kind)
  BY <1>4, CCallStep
<1>5. CASE Start(t, kind)
  BY <1>5, StartStep
<1>6. CASE PcallHandles(t, kind)
  BY <1>6, PcallHandlesStep
<1>7. CASE ResumeFails(t, kind)
  BY <1>7, ResumeFailsStep
<1>8. CASE \E ef \in BOOLEAN : CPcall(t, kind, ef)
  BY <1>8, CPcallStep
<1>9. CASE \E ef \in BOOLEAN : ExecFastPcall(t, kind, ef)
  BY <1>9, ExecFastPcallStep
<1> QED BY <1>1, <1>2, <1>3, <1>4, <1>5, <1>6, <1>7, <1>8, <1>9

LEMMA CallNextInv ==
  ASSUME CallInv, [CallNext]_callVars
  PROVE  CallInv'
<1>1. PICK g : g \in Seq(Note) /\ Balanced(g)
  BY DEF CallInv
<1>2. CASE CallNext
  <2>1. CallStep /\ UNCHANGED luauFastpcall
    BY <1>2 DEF CallNext
  <2>2. CASE Unwind
    BY <1>1, <2>1, <2>2, UnwindStep
  <2>3. CASE ErrFuncEnds
    BY <1>1, <2>1, <2>3, ErrFuncStep
  <2>4. CASE \E t \in Thread :
          \/ CallIntReturns(t) \/ UncountReturns(t) \/ PerformCallYReturns(t)
          \/ ExecReturn(t) \/ ExecReturned(t)
          \/ CReturn(t) \/ Yield(t) \/ Error(t) \/ CReturned(t)
          \/ PcallReturns(t) \/ PcallFails(t)
          \/ Resume(t) \/ Restart(t) \/ Continue(t) \/ ContinueEnds(t) \/ Reenter(t)
          \/ ResumeEnds(t) \/ ResumeHandled(t) \/ ResetThread(t)
    BY <1>1, <2>1, <2>4, StepOfThread
  <2>5. CASE \E t \in Thread, kind \in Kind :
          \/ ExecCall(t, kind) \/ ExecMetamethod(t, kind) \/ ExecForCall(t, kind)
          \/ CCall(t, kind) \/ Start(t, kind)
          \/ PcallHandles(t, kind) \/ ResumeFails(t, kind)
          \/ \E ef \in BOOLEAN : CPcall(t, kind, ef) \/ ExecFastPcall(t, kind, ef)
    BY <1>1, <2>1, <2>5, StepOfCall
  <2> QED BY <2>1, <2>2, <2>3, <2>4, <2>5 DEF CallStep
<1>3. CASE UNCHANGED callVars
  <2>1. UNCHANGED <<luauFastpcall, ci, nCcalls, baseCcalls, status, native, signal>>
    BY <1>3 DEF callVars
  <2>2. CallTypeOK'
    BY <1>1, <2>1 DEF Balanced, CallTypeOK
  <2>3. Top' = Top
    BY <2>1 DEF Top
  <2>4. Balanced(g)'
    BY <1>1, <2>1, <2>2, <2>3 DEF Balanced
  <2> QED BY <1>1, <2>4 DEF CallInv
<1> QED BY <1>2, <1>3

\* The notes of the native stack always exist.
THEOREM CallInvariant == CallSpec => []CallInv
<1>1. CallInit => CallInv
  BY CallInitInv
<1>2. CallInv /\ [CallNext]_callVars => CallInv'
  BY CallNextInv
<1> QED BY <1>1, <1>2, PTL DEF CallSpec

LEMMA InvTypes ==
  ASSUME CallInv
  PROVE  CallTypeOK
BY DEF CallInv, Balanced

\* The variables have their types; lua_resume, luaD_pcall and the others find on the native
\* stack what they left there.
THEOREM CallTypesCorrect == CallSpec => []CallTypeOK
<1>1. CallInv => CallTypeOK
  BY InvTypes
<1> QED BY <1>1, CallInvariant, PTL

-----------------------------------------------------------------------------
(* What it implies                                                          *)

\* The elements of thread t, with the last one at l
Highest(nat, t, l) ==
    /\ l \in 1 .. Len(nat) /\ nat[l].L = t
    /\ \A j \in 1 .. Len(nat) : nat[j].L = t => j <= l

LEMMA LastIs ==
  ASSUME NEW t, native \in Seq(Element), OnStack(t) # {}
  PROVE  Highest(native, t, LastOf(t))
<1>1. Len(native) \in Nat /\ DOMAIN native = 1 .. Len(native)
  BY LenIs
<1>2. OnStack(t) \subseteq 1 .. Len(native)
  BY <1>1 DEF OnStack
<1>3. \E m \in OnStack(t) : \A k \in OnStack(t) : k <= m
  BY <1>1, <1>2, Greatest
<1>4. LastOf(t) \in OnStack(t) /\ \A k \in OnStack(t) : k <= LastOf(t)
  BY <1>3 DEF LastOf
<1> QED BY <1>1, <1>4 DEF Highest, OnStack

\* The count of a thread is not less than that noted for its last element.
LEMMA TopCounts ==
  ASSUME NEW g, NEW nat, NEW N, NEW t, NEW f, NEW n, NEW b, NEW st,
         At(g, nat, N, t, f, n, b, st)
  PROVE  n >= g[N].c
<1>1. signal \in {"run", "return", "throw"}
  BY DEF At, Balanced, CallTypeOK
<1>2. CASE signal = "run" /\ nat[N].fn = "lua_resume"
  BY <1>2, TopStarts
<1>3. CASE signal = "run" /\ nat[N].fn # "lua_resume"
  BY <1>3, TopRuns DEF Level
<1>4. CASE signal = "return" /\ st = "ok"
  BY <1>4, TopReturns DEF Fits
<1>5. CASE signal = "return" /\ st # "ok"
  BY <1>5, TopYields
<1>6. CASE signal = "throw"
  BY <1>6, TopThrows DEF Thrown
<1> QED BY <1>1, <1>2, <1>3, <1>4, <1>5, <1>6

LEMMA LastCounts ==
  ASSUME NEW g, g \in Seq(Note), Balanced(g), NEW t, t \in Thread, NEW l, Highest(native, t, l)
  PROVE  nCcalls[t] >= g[l].c /\ g[l].c \in Nat
<1>1. PICK nat, N : native = nat /\ Len(nat) = N
  OBVIOUS
<1>2. /\ nat \in Seq(Element) /\ N \in Nat /\ N > 0 /\ Len(g) = N /\ Stack(luauFastpcall, nat, g) /\ Noted(g[1], 0, 0, 0, 0)
      /\ nCcalls[t] \in Nat
  BY <1>1, LenIs DEF Balanced, CallTypeOK, Stack, Grounded
<1>3. l \in 1 .. N /\ nat[l].L = t /\ \A j \in 1 .. N : nat[j].L = t => j <= l
  BY <1>1 DEF Highest
<1>4. g[l].c \in Nat
  BY <1>2, <1>3, LenIs, NoteIs
<1>5. CASE l = 1
  BY <1>2, <1>5 DEF Noted
<1>6. CASE l # 1 /\ l = N
  <2>1. N > 1 /\ Len(native) > 1
    BY <1>1, <1>2, <1>6
  <2>2. PICK nat1, M, u, f, n, b, st : At(g, nat1, M, u, f, n, b, st)
    BY <2>1, AtIs
  <2>3. nat1 = nat /\ M = N /\ u = t /\ nCcalls[t] = n
    BY <1>1, <1>3, <1>6, <2>2, AtSame, AtStack
  <2>4. n >= g[M].c
    BY <2>2, TopCounts
  <2> QED BY <1>4, <1>6, <2>3, <2>4
<1>7. CASE l # 1 /\ l # N
  <2>1. l \in 2 .. N /\ l \in 2 .. (N - 1) /\ l + 1 \in 2 .. N /\ l + 1 \in 1 .. N /\ N \in 1 .. N /\ ~(l + 1 <= l)
        /\ ~(N <= l) /\ (l + 1) - 1 = l
    BY <1>2, <1>3, <1>7
  <2>2. nat[l + 1].L # t /\ nat[N].L # t
    BY <1>3, <2>1
  <2>3. nat[l + 1].fn = "lua_resume"
    <3>1. Atop(luauFastpcall, nat[(l + 1) - 1], g[(l + 1) - 1], nat[l + 1], g[l + 1])
      BY <1>2, <2>1, <1>1 DEF Stack, Lies
    <3>2. Atop(luauFastpcall, nat[l], g[l], nat[l + 1], g[l + 1])
      BY <2>1, <3>1
    <3> QED BY <1>3, <2>2, <3>2 DEF Atop
  <2>4. Top.L # t
    BY <1>1, <2>2 DEF Top, Last
  <2>5. Rests(luauFastpcall, t, ci[t], nCcalls[t], baseCcalls[t], status[t], nat, g)
    BY <1>1, <2>4 DEF Balanced
  <2>6. Waits(luauFastpcall, t, ci[t], nCcalls[t], baseCcalls[t], status[t], nat, g, l)
    BY <1>1, <1>3, <2>1, <2>3, <2>5 DEF Rests
  <2> QED BY <1>4, <2>6 DEF Waits
<1> QED BY <1>4, <1>5, <1>6, <1>7

LEMMA InvLimited ==
  ASSUME CallInv
  PROVE  DepthLimited
<1>1. PICK g : g \in Seq(Note) /\ Balanced(g)
  BY DEF CallInv
<1>2. SUFFICES ASSUME NEW t \in Thread, Active(t)
               PROVE  nCcalls[t] >= Depth(t)
  BY DEF DepthLimited
<1>3. /\ native \in Seq(Element) /\ Stack(luauFastpcall, native, g) /\ nCcalls[t] \in Nat
      /\ Len(native) \in Nat
  BY <1>1, LenIs DEF Balanced, CallTypeOK
<1>4. PICK l : l = LastOf(t)
  OBVIOUS
<1>5. Highest(native, t, l)
  BY <1>2, <1>3, <1>4, LastIs DEF Active
<1>6. l \in 1 .. Len(native) /\ l \in Nat
  BY <1>3, <1>5 DEF Highest
<1>7. nCcalls[t] >= g[l].c /\ g[l].c \in Nat
  BY <1>1, <1>5, LastCounts
<1>8. Depth(t) = DepthOf(native, l)
  BY <1>4 DEF Depth, DepthOf, IsCounted
<1>9. DepthOf(native, l) <= g[l].c
  BY <1>3, <1>6 DEF Stack, Deep
<1>10. Depth(t) \in Nat
  <2>1. IsFiniteSet(1 .. l)
    BY <1>6, FS_Interval
  <2>2. {i \in 1 .. l : IsCounted(i)} \subseteq 1 .. l
    OBVIOUS
  <2>3. IsFiniteSet({i \in 1 .. l : IsCounted(i)})
    BY <2>1, <2>2, FS_Subset
  <2> QED BY <1>4, <2>3, FS_CardinalityType DEF Depth
<1> QED BY <1>3, <1>7, <1>8, <1>9, <1>10

\* The lua_resume of the thread on top, if there is one, is the only one.
LEMMA OneResume ==
  ASSUME NEW fast, NEW nat, NEW g, NEW N, NEW t, NEW r,
         nat \in Seq(Element), g \in Seq(Note), Stack(fast, nat, g), Len(nat) = N, N > 1, nat[N].L = t,
         r \in 1 .. N, nat[r].L = t, nat[r].fn = "lua_resume"
  PROVE  /\ r \in 2 .. N /\ \A k \in r .. N : nat[k].L = t
         /\ \A i \in 1 .. N : (nat[i].L = t /\ nat[i].fn = "lua_resume") => i = r
<1>1. N \in Nat /\ N \in 2 .. N
  BY TopIs
<1>2. nat[1].fn = "C"
  BY DEF Stack, Grounded, Native
<1>3. \A i \in 1 .. N : nat[i].fn = "lua_resume" => i \in 2 .. N
  BY <1>1, <1>2
<1>4. r \in 2 .. N
  BY <1>3
<1>5. \A k \in r .. N : nat[k].L = t
  BY <1>1, <1>4, TopHighest
<1>6. ASSUME NEW i \in 1 .. N, nat[i].L = t, nat[i].fn = "lua_resume"
      PROVE  i = r
  <2>1. i \in 2 .. N
    BY <1>3, <1>6
  <2>2. CASE i < r
    <3>1. i \in 2 .. (r - 1)
      BY <1>1, <1>4, <2>1, <2>2
    <3> QED BY <1>4, <1>6, <3>1 DEF Stack, Fresh
  <2>3. CASE r < i
    <3>1. r \in 2 .. (i - 1)
      BY <1>1, <1>4, <2>1, <2>3
    <3> QED BY <2>1, <1>6, <3>1 DEF Stack, Fresh
  <2> QED BY <1>1, <1>4, <2>1, <2>2, <2>3
<1> QED BY <1>4, <1>5, <1>6

\* What YieldsUnwind says of thread t, on the native stack nat of height N
Gives(nat, N, t) ==
    \E r \in 1 .. N :
        /\ nat[r].L = t /\ nat[r].fn = "lua_resume"
        /\ \A i \in 1 .. N : (nat[i].L = t /\ i > r) => GivesWay(nat[i])

LEMMA ClearGives ==
  ASSUME NEW fast, NEW nat, NEW g, NEW N, NEW t,
         nat \in Seq(Element), g \in Seq(Note), Stack(fast, nat, g), Len(nat) = N, N > 1, nat[N].L = t
  PROVE  Clear(nat, N) <=> Gives(nat, N, t)
<1>1. N \in Nat /\ N \in 2 .. N
  BY TopIs
<1>2. ASSUME Clear(nat, N)
      PROVE  Gives(nat, N, t)
  <2>1. PICK r \in 2 .. N : /\ nat[r].fn = "lua_resume" /\ nat[r].L = nat[N].L
                            /\ \A k \in (r + 1) .. N : GivesWay(nat[k])
    BY <1>2 DEF Clear
  <2>2. r \in 1 .. N /\ \A i \in 1 .. N : i > r => i \in (r + 1) .. N
    BY <1>1
  <2> QED BY <2>1, <2>2 DEF Gives
<1>3. ASSUME Gives(nat, N, t)
      PROVE  Clear(nat, N)
  <2>1. PICK r \in 1 .. N : /\ nat[r].L = t /\ nat[r].fn = "lua_resume"
                            /\ \A i \in 1 .. N : (nat[i].L = t /\ i > r) => GivesWay(nat[i])
    BY <1>3 DEF Gives
  <2>2. r \in 2 .. N /\ \A k \in r .. N : nat[k].L = t
    BY <2>1, OneResume
  <2>3. \A k \in (r + 1) .. N : k \in r .. N /\ k \in 1 .. N /\ k > r
    BY <1>1, <2>2
  <2>4. \A k \in (r + 1) .. N : GivesWay(nat[k]) /\ nat[k].L = t
    BY <2>1, <2>2, <2>3
  <2> QED BY <2>1, <2>2, <2>4 DEF Clear
<1> QED BY <1>2, <1>3

LEMMA GivesIs ==
  ASSUME NEW g, g \in Seq(Note), Balanced(g), NEW t, Top.L = t, NEW N, Len(native) = N, N > 1
  PROVE  Gives(native, N, t) <=>
             LET R == {i \in OnStack(t) : native[i].fn = "lua_resume"} IN
             R # {} /\ \A i \in OnStack(t) : (\A r \in R : i > r) => Unwinds(i)
<1>1. PICK nat : nat = native
  OBVIOUS
<1>2. nat \in Seq(Element) /\ Stack(luauFastpcall, nat, g) /\ Len(nat) = N /\ DOMAIN native = 1 .. N /\ nat[N].L = t
  BY <1>1, LenIs DEF Balanced, CallTypeOK, Top, Last
<1>3. PICK S : S = OnStack(t)
  OBVIOUS
<1>4. PICK R : R = {i \in S : native[i].fn = "lua_resume"}
  OBVIOUS
<1>5. S = {i \in 1 .. N : nat[i].L = t}
  BY <1>1, <1>2, <1>3 DEF OnStack
<1>6. \A i : Unwinds(i) <=> GivesWay(nat[i])
  BY <1>1 DEF Unwinds, GivesWay
<1>7. ASSUME Gives(nat, N, t)
      PROVE  R # {} /\ \A i \in S : (\A r \in R : i > r) => Unwinds(i)
  <2>1. PICK r \in 1 .. N : /\ nat[r].L = t /\ nat[r].fn = "lua_resume"
                            /\ \A i \in 1 .. N : (nat[i].L = t /\ i > r) => GivesWay(nat[i])
    BY <1>7 DEF Gives
  <2>2. r \in R
    BY <1>1, <1>4, <1>5, <2>1
  <2> QED BY <1>5, <1>6, <2>1, <2>2
<1>8. ASSUME R # {}, \A i \in S : (\A r \in R : i > r) => Unwinds(i)
      PROVE  Gives(nat, N, t)
  <2>1. PICK r : r \in R
    BY <1>8
  <2>2. r \in 1 .. N /\ nat[r].L = t /\ nat[r].fn = "lua_resume"
    BY <1>1, <1>4, <1>5, <2>1
  <2>3. \A i \in 1 .. N : (nat[i].L = t /\ nat[i].fn = "lua_resume") => i = r
    BY <1>2, <2>2, OneResume
  <2>4. \A i \in R : i = r
    BY <1>1, <1>4, <1>5, <2>3
  <2>5. ASSUME NEW i \in 1 .. N, nat[i].L = t, i > r
        PROVE  GivesWay(nat[i])
    <3>1. i \in S /\ \A k \in R : i > k
      BY <1>5, <2>4, <2>5
    <3> QED BY <1>6, <1>8, <3>1
  <2> QED BY <2>2, <2>5 DEF Gives
<1> QED BY <1>1, <1>3, <1>4, <1>7, <1>8

LEMMA InvUnwinds ==
  ASSUME CallInv
  PROVE  YieldsUnwind
<1>1. PICK g : g \in Seq(Note) /\ Balanced(g)
  BY DEF CallInv
<1>2. SUFFICES ASSUME NEW t \in Thread, signal = "run", Top.L = t, ~Host
               PROVE  Yieldable(t) =
                          LET R == {i \in OnStack(t) : native[i].fn = "lua_resume"} IN
                          R # {} /\ \A i \in OnStack(t) : (\A r \in R : i > r) => Unwinds(i)
  BY DEF YieldsUnwind
<1>3. PICK nat, N, f, n, b, st : At(g, nat, N, t, f, n, b, st)
  BY <1>1, <1>2, AboveHost
<1>4. native = nat /\ nCcalls[t] = n /\ baseCcalls[t] = b
  BY <1>3, AtSame
<1>5. /\ Stack(luauFastpcall, nat, g) /\ nat \in Seq(Element) /\ g \in Seq(Note) /\ Len(nat) = N /\ N > 1
      /\ nat[N].L = t /\ n \in Nat /\ b \in Nat
  BY <1>3, AtStack
<1>6. n = b + g[N].y /\ nat[N].fn \in {"C", "luau_execute", "lua_resume"}
  <2>1. CASE nat[N].fn = "lua_resume"
    <3>1. n = b
      BY <1>2, <1>3, <2>1, TopStarts
    <3>2. g[N].y = 0
      <4>1. Atop(luauFastpcall, nat[N - 1], g[N - 1], nat[N], g[N])
        BY <1>3, AtTop
      <4> QED BY <2>1, <4>1 DEF Atop, Noted
    <3> QED BY <1>5, <2>1, <3>1, <3>2
  <2>2. CASE nat[N].fn # "lua_resume"
    <3>1. Level(g[N], f, n, b, st) /\ nat[N].fn \in {"C", "luau_execute"}
      BY <1>2, <1>3, <2>2, TopRuns
    <3> QED BY <3>1 DEF Level
  <2> QED BY <2>1, <2>2
<1>7. g[N].y \in Nat
  BY <1>5, TopIs, NoteIs
<1>8. Yieldable(t) <=> g[N].y = 0
  BY <1>4, <1>5, <1>6, <1>7 DEF Yieldable
<1>9. g[N].y = 0 <=> Clear(nat, N)
  <2>1. nat[N].fn # "callerrfunc" /\ (N = 2 => nat[N].fn # "luaD_pcall")
    BY <1>6
  <2> QED BY <1>5, <2>1, ClearIs
<1>10. Clear(nat, N) <=> Gives(nat, N, t)
  BY <1>5, ClearGives
<1>11. Gives(nat, N, t) <=>
           LET R == {i \in OnStack(t) : native[i].fn = "lua_resume"} IN
           R # {} /\ \A i \in OnStack(t) : (\A r \in R : i > r) => Unwinds(i)
  BY <1>1, <1>2, <1>4, <1>5, GivesIs
<1>12. Yieldable(t) \in BOOLEAN
  BY DEF Yieldable
<1> QED BY <1>8, <1>9, <1>10, <1>11, <1>12

LEMMA InvBalanced ==
  ASSUME CallInv
  PROVE  StackBalanced
<1>1. PICK g : g \in Seq(Note) /\ Balanced(g)
  BY DEF CallInv
<1>2. ASSUME NEW t \in Thread, Top.L = t, signal = "return", ~Yielded(t),
             Top.fn \in {"luaD_callint", "luaV_callTM", "luaD_performcally", "luaD_pcall"},
             Top.fn = "luaD_pcall" => ~Top.handling
      PROVE  Len(ci[t]) = Top.frames
  <2>1. Top.fn # "C"
    BY <1>2
  <2>2. PICK nat, N, f, n, b, st : At(g, nat, N, t, f, n, b, st)
    BY <1>1, <1>2, <2>1, AboveHost
  <2>3. Top = nat[N] /\ ci[t] = f /\ status[t] = st
    BY <2>2, AtSame
  <2>4. st = "ok"
    BY <1>2, <2>3 DEF Yielded
  <2>5. Fits(nat[N], g[N], f, n, b)
    BY <1>2, <2>2, <2>4, TopReturns
  <2>6. Len(f) = g[N].h
    BY <1>2, <2>3, <2>5 DEF Fits, Handling
  <2>7. Atop(luauFastpcall, nat[N - 1], g[N - 1], nat[N], g[N])
    BY <2>2, AtTop
  <2>8. nat[N].frames = g[N].h
    <3>1. nat[N] \in Element
      BY <2>2, AtTop
    <3>2. nat[N].fn = "luaD_callint" => nat[N].from \in BOOLEAN
      BY <3>1, ElementIs
    <3> QED BY <1>2, <2>3, <2>7, <3>2 DEF Atop, Noted
  <2> QED BY <2>3, <2>6, <2>8
<1>3. ASSUME NEW t \in Thread, Top.L = t, ~luauFastpcall, signal = "throw", Top.fn = "luaD_pcall",
             NEW i \in DOMAIN ci[t], ci[t][i].handle
      PROVE  i <= Top.frames
  <2>1. Top.fn # "C"
    BY <1>3
  <2>2. PICK nat, N, f, n, b, st : At(g, nat, N, t, f, n, b, st)
    BY <1>1, <1>3, <2>1, AboveHost
  <2>3. Top = nat[N] /\ ci[t] = f
    BY <2>2, AtSame
  <2>4. Marks(luauFastpcall, t, f, nat, g)
    BY <1>3, <2>2, TopThrows
  <2>5. /\ nat \in Seq(Element) /\ g \in Seq(Note) /\ Stack(luauFastpcall, nat, g) /\ Len(nat) = N /\ N > 1 /\ N \in Nat
        /\ f \in Seq(FrameType) /\ nat[N].L = t
    BY <2>2, AtStack
  <2>6. i \in 1 .. Len(f) /\ f[i].handle /\ Len(f) \in Nat
    BY <1>3, <2>3, <2>5, FrameIs
  <2>7. N \in 2 .. N /\ (N + 1) .. N = {} /\ nat[N].fn = "luaD_pcall"
    BY <1>3, <2>3, <2>5
  <2>8. i \notin (g[N].h + 1) .. Len(f)
    BY <1>3, <2>4, <2>5, <2>6, <2>7 DEF Marks
  <2>9. g[N].h \in Nat
    BY <2>5, TopIs, NoteIs
  <2>10. i <= g[N].h
    BY <2>6, <2>8, <2>9
  <2>11. Atop(luauFastpcall, nat[N - 1], g[N - 1], nat[N], g[N])
    BY <2>2, AtTop
  <2>12. nat[N].frames = g[N].h
    BY <2>7, <2>11 DEF Atop, Noted
  <2> QED BY <2>3, <2>10, <2>12
<1> QED BY <1>2, <1>3 DEF StackBalanced

LEMMA InvContinuable ==
  ASSUME CallInv
  PROVE  Continuable
<1>1. PICK g : g \in Seq(Note) /\ Balanced(g)
  BY DEF CallInv
<1>2. ASSUME NEW t \in Thread, status[t] = "yield", OnStack(t) = {}
      PROVE  \A i \in DOMAIN ci[t] :
                 /\ ci[t][i].kind = "c" => i = Len(ci[t])
                 /\ ci[t][i].handle => i < Len(ci[t])
                 /\ ci[t][i].opyield = ci[t][i].forcall
  <2>1. native \in Seq(Element) /\ Len(native) \in Nat /\ DOMAIN native = 1 .. Len(native) /\ ci[t] \in Seq(FrameType)
    BY <1>1, LenIs DEF Balanced, CallTypeOK
  <2>2. \A i \in 1 .. Len(native) : native[i].L # t
    BY <1>2, <2>1 DEF OnStack
  <2>3. \A i \in 2 .. Len(native) : native[i].L # t
    BY <2>1, <2>2
  <2>4. Len(native) > 1 => t # Top.L
    <3>1. SUFFICES ASSUME Len(native) > 1 PROVE t # Top.L
      OBVIOUS
    <3>2. Len(native) \in 1 .. Len(native)
      BY <2>1, <3>1
    <3> QED BY <2>2, <3>2 DEF Top, Last
  <2>5. Rests(luauFastpcall, t, ci[t], nCcalls[t], baseCcalls[t], status[t], native, g)
    BY <1>1, <2>4 DEF Balanced
  <2>6. Suspended(luauFastpcall, ci[t])
    BY <1>2, <2>3, <2>5 DEF Rests
  <2>7. PICK f : f = ci[t]
    OBVIOUS
  <2>8. Len(f) \in Nat /\ DOMAIN f = 1 .. Len(f) /\ ~f[Len(f)].handle /\ \A k \in DOMAIN f : ~Bad(f, k)
    BY <2>1, <2>6, <2>7, FrameIs DEF Suspended
  <2>9. ASSUME NEW i \in 1 .. Len(f)
        PROVE  (f[i].kind = "c" => i = Len(f)) /\ (f[i].handle => i < Len(f)) /\ f[i].opyield = f[i].forcall
    <3>0. i \in DOMAIN f
      BY <2>8
    <3>1. i = Len(f) \/ i < Len(f)
      <4>1. PICK m : m = Len(f)
        OBVIOUS
      <4>2. m \in Nat /\ i \in 1 .. m
        BY <2>8, <4>1
      <4>3. i = m \/ i < m
        BY <4>2
      <4> QED BY <4>1, <4>3
    <3>2. ~Bad(f, i)
      BY <2>8, <3>0
    <3>3. f[i].opyield = f[i].forcall
      BY <3>2 DEF Bad
    <3> QED BY <2>8, <3>1, <3>2, <3>3 DEF Bad
  <2> QED BY <2>7, <2>8, <2>9
<1>3. ASSUME NEW t \in Thread, Returned("resume_continue", t), Continues(t)
      PROVE  nCcalls[t] = baseCcalls[t] /\ Last(ci[t]).kind # "c"
  <2>1. signal = "return" /\ Top.fn = "resume_continue" /\ Top.L = t
    BY <1>3 DEF Returned
  <2>2. PICK nat, N, f, n, b, st : At(g, nat, N, t, f, n, b, st)
    BY <1>1, <2>1, AboveHost
  <2>3. /\ Top = nat[N] /\ status[t] = st /\ ci[t] = f /\ nCcalls[t] = n /\ baseCcalls[t] = b
    BY <2>2, AtSame
  <2>4. nat[N].fn = "resume_continue"
    BY <2>1, <2>3
  <2>5. st \in {"ok", "reentry"} /\ Len(f) > nat[N].base
    BY <1>3, <2>3 DEF Continues
  <2>6. f \in Seq(FrameType) /\ nat[N] \in Element /\ Len(f) \in Nat /\ nat[N].base \in Nat
    BY <2>2, <2>4, AtStack, AtTop, FrameIs, ElementIs
  <2>7. Loops(luauFastpcall, t, f, n, b, nat, g, N)
    <3>1. nat[N].base < Len(f)
      BY <2>5, <2>6
    <3>2. CASE st = "ok"
      BY <2>1, <2>2, <2>4, <3>1, <3>2, LoopReturned
    <3>3. CASE st = "reentry"
      BY <2>1, <2>2, <2>4, <3>1, <3>3, LoopReentered
    <3> QED BY <2>5, <3>2, <3>3
  <2>8. n = b /\ f[Len(f)].kind # "c"
    BY <2>7 DEF Loops
  <2> QED BY <2>3, <2>8 DEF Last
<1> QED BY <1>2, <1>3 DEF Continuable

\* The limit on nCcalls protects the native stack (luaD_checkCstack): whatever has yielded,
\* failed or been resumed before, no C call that is on it is missing in nCcalls.
THEOREM DepthLimitedCorrect == CallSpec => []DepthLimited
<1>1. CallInv => DepthLimited
  BY InvLimited
<1> QED BY <1>1, CallInvariant, PTL

\* lua_yield and lua_isyieldable compare nCcalls with baseCcalls: a yield is refused exactly
\* when something between the thread's lua_resume and its top would not return to its caller.
THEOREM YieldsUnwindCorrect == CallSpec => []YieldsUnwind
<1>1. CallInv => YieldsUnwind
  BY InvUnwinds
<1> QED BY <1>1, CallInvariant, PTL

\* luaD_callint, luaV_callTM, luaD_performcally and luaD_pcall return to the frame that called
\* them, and an error is caught by the innermost protected call (but for LuauFastpcall).
THEOREM StackBalancedCorrect == CallSpec => []StackBalanced
<1>1. CallInv => StackBalanced
  BY InvBalanced
<1> QED BY <1>1, CallInvariant, PTL

\* resume and resume_continue find in the frames of a suspended thread all that they need.
THEOREM ContinuableCorrect == CallSpec => []Continuable
<1>1. CallInv => Continuable
  BY InvContinuable
<1> QED BY <1>1, CallInvariant, PTL

=============================================================================
